-------------------------- MODULE LinkState_proofs --------------------------
(***************************************************************************)
(* Dijkstra's algorithm as the link-state program runs it leaves rows that *)
(* are right, for every number of nodes and whatever is in the cost        *)
(* matrix, the links of the last node that the program does not initialize *)
(* included.  Where no file names that node, a visited node has its least  *)
(* cost, the final rows hold the least costs and the smallest predecessors *)
(* among equal ones, and messages pay what was announced, node by node.    *)
(*                                                                         *)
(* The first part is about one row r of ctable: r[e] is the entry of node  *)
(* e in the row of node s, N are the nodes, q the costs, vs the visited    *)
(* nodes and m the one visited last.                                       *)
(***************************************************************************)
EXTENDS LinkState, Routing_proofs

\* The nodes are numbers, so that they can be compared.
Numbered(N) == N \subseteq Nat

IsRow(N, r) == r \in [N -> [first : N, second : CostOrNone]]

\* No link of node v improves the row.
Closed(N, q, r, v) ==
    \A f \in N : q[<<v, f>>] >= 0 => r[f].second \in 0..(r[v].second + q[<<v, f>>])

\* The entry of e comes from a node of vs by one link.
ComesFrom(vs, q, r, e) ==
    LET v == r[e].first IN
    /\ v \in vs \ {e}
    /\ q[<<v, e>>] >= 0
    /\ r[v].second >= 0
    /\ r[e].second = r[v].second + q[<<v, e>>]

\* No node that v accounts for as well has a predecessor with a larger number.
Smallest(N, q, r, v) ==
    \A f \in N :
        q[<<v, f>>] > 0 /\ r[f].second = r[v].second + q[<<v, f>>] => r[f].first <= v

\* Between two turns: the visited nodes are those with the lowest costs, and were
\* all relaxed, the last one perhaps excepted.  A node without a cost has s for
\* its predecessor still.
Between(N, q, r, s, vs, m) ==
    /\ s \in vs /\ m \in vs /\ vs \subseteq N
    /\ r[s].second = 0 /\ r[s].first = s
    /\ r[m].second \in 0..(INF - 1)
    /\ \A v \in vs : r[v].second \in 0..r[m].second
    /\ \A e \in N \ vs : r[e].second >= 0 => r[m].second <= r[e].second
    /\ \A v \in vs \ {m} : Closed(N, q, r, v) /\ Smallest(N, q, r, v)
    /\ \A e \in N \ {s} : r[e].second >= 0 => ComesFrom(vs, q, r, e)
    /\ \A e \in N : r[e].second < 0 => r[e].first = s

\* No other node can be reached, and the last one was relaxed as well.
Stuck(N, q, r, vs, m) ==
    /\ Closed(N, q, r, m) /\ Smallest(N, q, r, m)
    /\ \A e \in N \ vs : r[e].second \notin 0..(INF - 1)

LEMMA RowFacts ==
    ASSUME NEW N, NEW r, IsRow(N, r), NEW e \in N
    PROVE  /\ r[e].first \in N
           /\ r[e].second \in CostOrNone
           /\ r[e].second \in Int
           /\ r[e].second >= 0 <=> r[e].second \in Nat
<1>1. r[e] \in [first : N, second : CostOrNone]
  BY DEF IsRow
<1>2. QED
  BY <1>1, CostFacts

\* A row begins as a row of the matrix.
LEMMA Starting ==
    ASSUME NEW N, NEW q, IsMatrix(N, q), NEW s \in N, q[<<s, s>>] = 0,
           NEW r, r = [e \in N |-> [first |-> s, second |-> q[<<s, e>>]]]
    PROVE  IsRow(N, r) /\ Between(N, q, r, s, {s}, s)
<1>1. IsRow(N, r)
  BY DEF IsRow, IsMatrix
<1>2. \A e \in N : r[e].first = s /\ r[e].second = q[<<s, e>>]
  OBVIOUS
<1>3. r[s].second = 0 /\ r[s].first = s /\ 0 \in 0..(INF - 1) /\ 0 \in 0..0
  BY <1>2, RoutingAssumption
<1>4. ASSUME NEW e \in N, r[e].second >= 0
      PROVE  r[s].second <= r[e].second /\ (e # s => ComesFrom({s}, q, r, e))
  <2>1. q[<<s, e>>] \in Nat /\ r[e].second = q[<<s, e>>] /\ r[e].first = s
    BY <1>2, <1>4, CostFacts DEF IsMatrix
  <2>2. \A x \in Nat : 0 <= x /\ x >= 0 /\ x = 0 + x
    OBVIOUS
  <2>3. 0 >= 0
    OBVIOUS
  <2>4. QED
    BY <1>3, <2>1, <2>2, <2>3 DEF ComesFrom
<1>5. QED
  BY <1>1, <1>2, <1>3, <1>4 DEF Between

\* The entry of a node e after m was relaxed at cost mc.
RelaxedEntry(vs, q, r, m, mc, e) ==
    IF e \notin vs /\ q[<<m, e>>] >= 0 /\ Better(mc + q[<<m, e>>], r[e], m)
    THEN [first |-> m, second |-> mc + q[<<m, e>>]] ELSE r[e]

\* Relaxing the node visited last leaves the row as it should be between two
\* turns, and no link of that node improves it any more.
LEMMA Relaxing ==
    ASSUME NEW N, Numbered(N), NEW q, IsMatrix(N, q), NEW r, IsRow(N, r),
           NEW s \in N, NEW vs, NEW m, Between(N, q, r, s, vs, m),
           NEW r2, r2 = [e \in N |-> RelaxedEntry(vs, q, r, m, r[m].second, e)]
    PROVE  /\ IsRow(N, r2) /\ Between(N, q, r2, s, vs, m)
           /\ Closed(N, q, r2, m) /\ Smallest(N, q, r2, m)
<1> DEFINE c == r[m].second
<1>1. /\ s \in vs /\ m \in vs /\ vs \subseteq N /\ m \in N
      /\ c \in Nat /\ c \in 0..(INF - 1)
  <2>1. /\ s \in vs /\ m \in vs /\ vs \subseteq N /\ m \in N
        /\ c \in 0..(INF - 1)
    BY DEF Between
  <2>2. c \in Nat
    <3> HIDE DEF c
    <3>1. QED
      BY <2>1, RoutingAssumption
  <2>3. QED
    BY <2>1, <2>2
<1> HIDE DEF c
<1>2. \A e \in N : /\ r2[e] = RelaxedEntry(vs, q, r, m, c, e)
                   /\ q[<<m, e>>] \in CostOrNone
                   /\ r[e] \in [first : N, second : CostOrNone]
                   /\ r[e].second \in CostOrNone
  BY <1>1 DEF c, IsMatrix, IsRow
\* The entries of visited nodes stay, any other becomes what m offers or stays.
<1>3. \A v \in vs : r2[v] = r[v]
  BY <1>1, <1>2 DEF RelaxedEntry
<1>4. ASSUME NEW e \in N \ vs
      PROVE  \/ r2[e] = r[e] /\ ~ (q[<<m, e>>] >= 0 /\ Better(c + q[<<m, e>>], r[e], m))
             \/ /\ r2[e] = [first |-> m, second |-> c + q[<<m, e>>]]
                /\ q[<<m, e>>] \in Nat
                /\ r[e].second >= 0 => /\ c + q[<<m, e>>] <= r[e].second
                                       /\ c + q[<<m, e>>] = r[e].second => m < r[e].first
  <2>1. CASE q[<<m, e>>] >= 0 /\ Better(c + q[<<m, e>>], r[e], m)
    <3>1. q[<<m, e>>] \in Nat /\ r[e].second \in Int
      BY <1>2, <2>1, CostFacts
    <3>2. r2[e] = [first |-> m, second |-> c + q[<<m, e>>]]
      BY <1>2, <2>1 DEF RelaxedEntry
    <3>3. r[e].second >= 0 => /\ c + q[<<m, e>>] <= r[e].second
                              /\ c + q[<<m, e>>] = r[e].second => m < r[e].first
      BY <1>1, <2>1, <3>1 DEF Better
    <3>4. QED
      BY <3>1, <3>2, <3>3
  <2>2. CASE ~ (q[<<m, e>>] >= 0 /\ Better(c + q[<<m, e>>], r[e], m))
    BY <1>2, <2>2 DEF RelaxedEntry
  <2>3. QED
    BY <2>1, <2>2
<1>4a. ASSUME NEW e \in N, r2[e] # r[e]
       PROVE  /\ r2[e].first = m
              /\ r2[e].second = c + q[<<m, e>>]
              /\ q[<<m, e>>] \in Nat
              /\ e \notin vs
              /\ r[e].second >= 0 => /\ c + q[<<m, e>>] <= r[e].second
                                     /\ c + q[<<m, e>>] = r[e].second => m < r[e].first
  <2>1. e \in N \ vs
    BY <1>3, <1>4a
  <2>2. r2[e] = [first |-> m, second |-> c + q[<<m, e>>]]
    BY <1>4, <1>4a, <2>1
  <2>3. r2[e].first = m /\ r2[e].second = c + q[<<m, e>>]
    BY <2>2
  <2>4. /\ q[<<m, e>>] \in Nat
        /\ r[e].second >= 0 => /\ c + q[<<m, e>>] <= r[e].second
                               /\ c + q[<<m, e>>] = r[e].second => m < r[e].first
    BY <1>4, <1>4a, <2>1
  <2>5. QED
    BY <2>1, <2>3, <2>4
<1>5. IsRow(N, r2)
  <2>1. ASSUME NEW e \in N
        PROVE  RelaxedEntry(vs, q, r, m, c, e) \in [first : N, second : CostOrNone]
    <3>1. CASE r2[e] = r[e]
      BY <1>2, <3>1
    <3>2. CASE r2[e] # r[e]
      <4>1. r2[e] = [first |-> m, second |-> c + q[<<m, e>>]] /\ q[<<m, e>>] \in Nat
        BY <1>3, <1>4, <3>2
      <4>2. c + q[<<m, e>>] \in CostOrNone
        BY <1>1, <4>1 DEF CostOrNone
      <4>3. QED
        BY <1>1, <1>2, <4>1, <4>2
    <3>3. QED
      BY <3>1, <3>2
  <2>2. QED
    BY <2>1 DEF IsRow, c
<1>6. \A e \in N : r[e].second \in Int /\ r2[e].second \in Int
  BY <1>5, RowFacts
\* No cost is raised, and none falls below the visited ones.
<1>7. \A e \in N : r[e].second >= 0 => r2[e].second \in 0..r[e].second
  <2>1. TAKE e \in N
  <2>2. HAVE r[e].second >= 0
  <2>3. CASE r2[e] = r[e]
    BY <1>6, <2>2, <2>3
  <2>4. CASE r2[e] # r[e]
    <3>1. /\ r2[e].second = c + q[<<m, e>>] /\ q[<<m, e>>] \in Nat
          /\ c + q[<<m, e>>] <= r[e].second
      BY <1>4a, <2>2, <2>4
    <3>2. QED
      BY <1>1, <1>6, <3>1
  <2>5. QED
    BY <2>3, <2>4
<1>8. \A e \in N \ vs : r2[e].second >= 0 => c <= r2[e].second
  <2>1. TAKE e \in N \ vs
  <2>2. HAVE r2[e].second >= 0
  <2>3. CASE r2[e] = r[e]
    BY <2>2, <2>3 DEF Between, c
  <2>4. CASE r2[e] # r[e]
    <3>1. r2[e].second = c + q[<<m, e>>] /\ q[<<m, e>>] \in Nat
      BY <1>4a, <2>4
    <3>2. QED
      BY <1>1, <3>1
  <2>5. QED
    BY <2>3, <2>4
<1>9. Closed(N, q, r2, m)
  <2>1. SUFFICES ASSUME NEW f \in N, q[<<m, f>>] >= 0
                 PROVE  r2[f].second \in 0..(c + q[<<m, f>>])
    BY <1>1, <1>3 DEF Closed, c
  <2>2. q[<<m, f>>] \in Nat
    BY <1>2, <2>1, CostFacts
  <2>3. CASE f \in vs
    <3>1. r2[f].second \in 0..c
      BY <1>3, <2>3 DEF Between, c
    <3>2. QED
      BY <1>1, <2>2, <3>1
  <2>4. CASE f \notin vs /\ r2[f] = r[f] /\ ~ Better(c + q[<<m, f>>], r[f], m)
    <3>1. r[f].second \in Int /\ ~ (r[f].second < 0) /\ ~ (c + q[<<m, f>>] < r[f].second)
      BY <1>6, <2>4 DEF Better
    <3>2. QED
      BY <1>1, <2>2, <2>4, <3>1
  <2>5. CASE f \notin vs /\ r2[f] = [first |-> m, second |-> c + q[<<m, f>>]]
    <3>1. r2[f].second = c + q[<<m, f>>]
      BY <2>5
    <3>2. QED
      BY <1>1, <2>2, <3>1
  <2>6. QED
    BY <1>4, <2>1, <2>3, <2>4, <2>5
<1>10. \A v \in vs \ {m} : Closed(N, q, r2, v)
  <2>1. SUFFICES ASSUME NEW v \in vs \ {m}, NEW f \in N, q[<<v, f>>] >= 0
                 PROVE  r2[f].second \in 0..(r2[v].second + q[<<v, f>>])
    BY DEF Closed
  <2>2. r[f].second \in 0..(r[v].second + q[<<v, f>>]) /\ r2[v] = r[v]
    BY <1>3, <2>1 DEF Between, Closed
  <2>3. r[v].second \in Int /\ q[<<v, f>>] \in Int
    BY <1>1, <1>6, CostFacts DEF IsMatrix
  <2> DEFINE bound == r[v].second + q[<<v, f>>]
  <2>4. bound \in Int /\ r[f].second \in 0..bound
    BY <2>2, <2>3
  <2> HIDE DEF bound
  <2>5. r[f].second \in Int /\ r[f].second >= 0 /\ r[f].second <= bound
    BY <2>4
  <2>6. r2[f].second \in 0..r[f].second
    BY <1>7, <2>5
  <2>7. r2[f].second \in 0..bound
    BY <2>4, <2>5, <2>6
  <2>8. QED
    BY <2>2, <2>7 DEF bound
<1>11. ASSUME NEW e \in N \ {s}, r2[e].second >= 0
       PROVE  ComesFrom(vs, q, r2, e)
  <2>1. CASE r2[e] = r[e]
    <3>1. ComesFrom(vs, q, r, e)
      BY <1>11, <2>1 DEF Between
    <3>2. r2[r[e].first] = r[r[e].first]
      BY <1>3, <3>1 DEF ComesFrom
    <3>3. QED
      BY <2>1, <3>1, <3>2 DEF ComesFrom
  <2>2. CASE r2[e] # r[e]
    <3>1. /\ r2[e].first = m /\ r2[e].second = c + q[<<m, e>>] /\ q[<<m, e>>] \in Nat
      BY <1>4a, <2>2
    <3>2. r2[m].second = c
      BY <1>1, <1>3 DEF c
    <3>3. \A x \in Nat : x >= 0
      OBVIOUS
    <3>4. m \in vs \ {e}
      BY <1>1, <1>4a, <2>2
    <3>5. QED
      BY <1>1, <3>1, <3>2, <3>3, <3>4 DEF ComesFrom
  <2>3. QED
    BY <2>1, <2>2
<1>12. /\ r2[s].second = 0 /\ r2[s].first = s
       /\ r2[m].second = c
       /\ \A v \in vs : r2[v].second \in 0..r2[m].second
  BY <1>1, <1>3 DEF Between, c
<1>13. ASSUME NEW v \in vs, v # m => Closed(N, q, r, v) /\ Smallest(N, q, r, v)
       PROVE  Smallest(N, q, r2, v)
  <2>1. SUFFICES ASSUME NEW f \in N, q[<<v, f>>] > 0, r2[f].second = r2[v].second + q[<<v, f>>]
                 PROVE  r2[f].first <= v
    BY DEF Smallest
  <2> DEFINE w == q[<<v, f>>]
             cv == r[v].second
             old == r[f].second
             new == r2[f].second
  <2>2. /\ v \in N /\ r2[v].second = cv /\ cv \in 0..c /\ w > 0 /\ w \in Int
        /\ new = cv + w /\ old \in Int /\ new \in Int /\ cv \in Int
    <3>1. v \in N /\ r2[v] = r[v]
      BY <1>1, <1>3
    <3>2. w \in Int
      BY <3>1, CostFacts DEF IsMatrix
    <3>3. cv \in 0..c
      BY DEF Between, c
    <3>4. QED
      BY <1>6, <2>1, <3>1, <3>2, <3>3
  <2>3. /\ r[f].first \in Nat /\ v \in Nat /\ m \in Nat
    BY <1>1, <2>2, RowFacts DEF Numbered
  <2>4. CASE r2[f] # r[f]
    <3>1. /\ r2[f].first = m /\ new = c + q[<<m, f>>] /\ f \notin vs
          /\ old >= 0 => new <= old /\ (new = old => m < r[f].first)
      BY <1>4a, <2>4
    <3>2. CASE v = m
      BY <2>3, <3>1, <3>2
    <3>3. CASE Closed(N, q, r, v) /\ Smallest(N, q, r, v)
      <4>1. w >= 0
        <5> HIDE DEF w
        <5>1. QED
          BY <2>2
      <4>2. old \in 0..(cv + w)
        BY <3>3, <4>1 DEF Closed
      <4>3. w > 0 /\ old = cv + w => r[f].first <= v
        BY <3>3 DEF Smallest
      <4> DEFINE fst == r[f].first
      <4> HIDE DEF w, cv, old, new, fst
      <4>4. old = new
        BY <2>2, <3>1, <4>2
      <4>5. fst <= v /\ m < fst /\ fst \in Nat
        BY <2>2, <2>3, <3>1, <4>2, <4>3, <4>4 DEF fst
      <4>6. m <= v
        BY <2>3, <4>5
      <4>7. QED
        BY <3>1, <4>6
    <3>4. QED
      BY <1>13, <3>2, <3>3
  <2>5. CASE r2[f] = r[f]
    <3>1. old = cv + w
      BY <2>2, <2>5
    <3>2. CASE v # m
      BY <1>13, <2>1, <2>5, <3>1, <3>2 DEF Smallest
    <3>3. CASE v = m /\ f \in vs
      <4>1. old \in 0..c
        BY <3>3 DEF Between, c
      <4>2. cv = c
        BY <3>3 DEF c
      <4> HIDE DEF w, cv, old
      <4>3. FALSE
        BY <1>1, <2>2, <3>1, <4>1, <4>2
      <4>4. QED
        BY <4>3
    <3>4. CASE v = m /\ f \notin vs
      <4>1. ~ Better(c + q[<<m, f>>], r[f], m)
        <5>1. CASE ~ (q[<<m, f>>] >= 0 /\ Better(c + q[<<m, f>>], r[f], m))
          <6>1. q[<<m, f>>] >= 0
            <7>1. \A x \in Int : x > 0 => x >= 0
              OBVIOUS
            <7>2. QED
              BY <2>2, <3>4, <7>1
          <6>2. QED
            BY <5>1, <6>1
        <5>2. CASE r2[f] = [first |-> m, second |-> c + q[<<m, f>>]]
          <6>1. r[f].first = m /\ r[f].second = c + q[<<m, f>>]
            BY <2>5, <5>2
          <6>2. ~ (m < m) /\ ~ (old < old) /\ ~ (old < 0)
            <7>1. old = c + w /\ c >= 0
              BY <1>1, <3>1, <3>4 DEF c
            <7> HIDE DEF old, w
            <7>2. QED
              BY <1>1, <2>2, <2>3, <7>1
          <6>3. QED
            BY <6>1, <6>2 DEF Better
        <5>3. QED
          BY <1>4, <3>4, <5>1, <5>2
      <4>2. ~ (m < r[f].first)
        BY <3>1, <3>4, <4>1 DEF Better, c
      <4>3. QED
        BY <2>3, <2>5, <3>4, <4>2
    <3>5. QED
      BY <3>2, <3>3, <3>4
  <2>6. QED
    BY <2>4, <2>5
<1>14. \A v \in vs \ {m} : Smallest(N, q, r2, v)
  BY <1>13 DEF Between
<1>15. Smallest(N, q, r2, m)
  <2>1. m \in vs
    BY <1>1
  <2>2. m # m => Closed(N, q, r, m) /\ Smallest(N, q, r, m)
    OBVIOUS
  <2>3. QED
    BY <1>13, <2>1, <2>2
<1>16. \A e \in N : r2[e].second < 0 => r2[e].first = s
  <2>1. TAKE e \in N
  <2>2. HAVE r2[e].second < 0
  <2>3. CASE r2[e] = r[e]
    BY <2>2, <2>3 DEF Between
  <2>4. CASE r2[e] # r[e]
    <3>1. r2[e].second = c + q[<<m, e>>] /\ q[<<m, e>>] \in Nat
      BY <1>4a, <2>4
    <3>2. QED
      BY <1>1, <2>2, <3>1
  <2>5. QED
    BY <2>3, <2>4
<1>17. Between(N, q, r2, s, vs, m)
  BY <1>1, <1>5, <1>8, <1>10, <1>11, <1>12, <1>14, <1>16 DEF Between
<1>18. QED
  BY <1>5, <1>9, <1>15, <1>17

\* Once the row is stuck, relaxing at INF changes nothing.
LEMMA RelaxingStuck ==
    ASSUME NEW N, NEW q, IsMatrix(N, q), NEW r, IsRow(N, r), NEW s \in N, NEW vs, NEW m,
           Between(N, q, r, s, vs, m), Stuck(N, q, r, vs, m),
           NEW e \in N
    PROVE  RelaxedEntry(vs, q, r, m, INF, e) = r[e]
<1> DEFINE c == r[m].second
           w == q[<<m, e>>]
           x == r[e].second
<1>1. SUFFICES ASSUME e \notin vs, w >= 0, Better(INF + w, r[e], m)
               PROVE  FALSE
  BY DEF RelaxedEntry
<1>2. m \in N /\ c \in 0..(INF - 1) /\ x \notin 0..(INF - 1) /\ x \in 0..(c + w)
  BY <1>1 DEF Between, Stuck, Closed
<1>3. w \in Nat
  BY <1>1, <1>2, CostFacts DEF IsMatrix
<1>4. INF + w < x \/ x < 0 \/ INF + w = x
  BY <1>1 DEF Better
<1> HIDE DEF c, w, x
<1>5. QED
  BY <1>2, <1>3, <1>4, RoutingAssumption

\* The node with the lowest cost becomes the one visited last.
LEMMA Choosing ==
    ASSUME NEW N, NEW q, NEW r, IsRow(N, r), NEW s \in N, NEW vs, NEW m,
           Between(N, q, r, s, vs, m), Closed(N, q, r, m), Smallest(N, q, r, m),
           NEW n \in N \ vs, r[n].second \in 0..(INF - 1),
           \A e \in N \ vs : r[e].second \in 0..(INF - 1) => r[n].second <= r[e].second
    PROVE  Between(N, q, r, s, vs \cup {n}, n)
<1>1. \A e \in N : r[e].second \in Int
  BY RowFacts
<1>2. m \in N /\ vs \subseteq N
  BY DEF Between
<1> DEFINE c == r[m].second
           d == r[n].second
<1>3. c \in 0..(INF - 1) /\ d \in 0..(INF - 1) /\ c <= d
  <2>1. c \in 0..(INF - 1) /\ d \in 0..(INF - 1)
    BY DEF Between
  <2>2. d >= 0
    <3> HIDE DEF c, d
    <3>1. QED
      BY <2>1
  <2>3. QED
    BY <2>1, <2>2 DEF Between
<1>4. \A v \in vs \cup {n} : r[v].second \in 0..d
  <2>1. TAKE v \in vs \cup {n}
  <2>2. CASE v = n
    <3>1. d \in 0..d
      <4> HIDE DEF d
      <4>1. QED
        BY <1>3
    <3>2. QED
      BY <2>2, <3>1
  <2>3. CASE v \in vs
    <3>1. r[v].second \in 0..c
      BY <2>3 DEF Between
    <3>2. QED
      <4> HIDE DEF c, d
      <4>1. QED
        BY <1>3, <3>1, RoutingAssumption
  <2>4. QED
    BY <2>2, <2>3
<1>5. \A e \in N \ (vs \cup {n}) : r[e].second >= 0 => d <= r[e].second
  <2>1. TAKE e \in N \ (vs \cup {n})
  <2>2. HAVE r[e].second >= 0
  <2>3. CASE r[e].second \in 0..(INF - 1)
    BY <2>3
  <2>4. CASE r[e].second \notin 0..(INF - 1)
    <3>1. r[e].second \in Int
      BY <1>1
    <3>2. QED
      BY <1>3, <2>2, <2>4, <3>1, RoutingAssumption
  <2>5. QED
    BY <2>3, <2>4
<1>6. \A v \in (vs \cup {n}) \ {n} : Closed(N, q, r, v) /\ Smallest(N, q, r, v)
  BY DEF Between
<1>7. \A e \in N \ {s} : r[e].second >= 0 => ComesFrom(vs \cup {n}, q, r, e)
  <2>1. \A e \in N \ {s} : r[e].second >= 0 => ComesFrom(vs, q, r, e)
    BY DEF Between
  <2>2. QED
    BY <2>1 DEF ComesFrom
<1>8. /\ s \in vs /\ r[s].second = 0 /\ r[s].first = s
      /\ \A e \in N : r[e].second < 0 => r[e].first = s
  BY DEF Between
<1>9. QED
  BY <1>2, <1>3, <1>4, <1>5, <1>6, <1>7, <1>8 DEF Between

\* A row nothing is left to do for.
RightRow(N, q, r, s) ==
    /\ r[s].second = 0 /\ r[s].first = s
    /\ \A e \in N : r[e].second \in 0..(INF - 1) => Closed(N, q, r, e) /\ Smallest(N, q, r, e)
    /\ \A e \in N \ {s} : r[e].second >= 0 => ComesFrom(N, q, r, e)
    /\ \A e \in N : r[e].second < 0 => r[e].first = s

\* When all nodes were visited, or no other can be reached, the row is right.
LEMMA Finishing ==
    ASSUME NEW N, NEW q, IsMatrix(N, q), NEW r, IsRow(N, r), NEW s \in N, NEW vs, NEW m,
           Between(N, q, r, s, vs, m),
           vs = N \/ Stuck(N, q, r, vs, m)
    PROVE  RightRow(N, q, r, s)
<1>1. /\ m \in N /\ vs \subseteq N /\ r[s].second = 0 /\ r[s].first = s
      /\ \A e \in N : r[e].second < 0 => r[e].first = s
  BY DEF Between
<1>2. Closed(N, q, r, m)
  <2>1. CASE vs = N
    <3>1. SUFFICES ASSUME NEW f \in N, q[<<m, f>>] >= 0
                   PROVE  r[f].second \in 0..(r[m].second + q[<<m, f>>])
      BY DEF Closed
    <3> DEFINE c == r[m].second
               w == q[<<m, f>>]
    <3>2. c \in 0..(INF - 1) /\ r[f].second \in 0..c
      BY <2>1 DEF Between
    <3>3. w \in Nat
      BY <1>1, <3>1, CostFacts DEF IsMatrix
    <3> HIDE DEF c, w
    <3>4. r[f].second \in 0..(c + w)
      BY <3>2, <3>3, RoutingAssumption
    <3>5. QED
      BY <3>4 DEF c, w
  <2>2. QED
    BY <2>1 DEF Stuck
<1>2a. Smallest(N, q, r, m)
  <2>1. CASE vs = N
    <3>1. SUFFICES ASSUME NEW f \in N, q[<<m, f>>] > 0, r[f].second = r[m].second + q[<<m, f>>]
                   PROVE  FALSE
      BY DEF Smallest
    <3> DEFINE c == r[m].second
               w == q[<<m, f>>]
    <3>2. r[f].second \in 0..c /\ c \in Int
      BY <1>1, <2>1, RowFacts DEF Between
    <3>3. w \in Int
      BY <1>1, CostFacts DEF IsMatrix
    <3> HIDE DEF c, w
    <3>4. r[f].second = c + w /\ w > 0
      BY <3>1 DEF c, w
    <3>5. QED
      BY <3>2, <3>3, <3>4
  <2>2. QED
    BY <2>1 DEF Stuck
<1>3. \A e \in N : r[e].second \in 0..(INF - 1) => e \in vs
  BY DEF Stuck
<1>4. \A e \in N : r[e].second \in 0..(INF - 1) => Closed(N, q, r, e) /\ Smallest(N, q, r, e)
  BY <1>2, <1>2a, <1>3 DEF Between
<1>5. \A e \in N \ {s} : r[e].second >= 0 => ComesFrom(N, q, r, e)
  <2>1. \A e \in N \ {s} : r[e].second >= 0 => ComesFrom(vs, q, r, e)
    BY DEF Between
  <2>2. QED
    BY <1>1, <2>1 DEF ComesFrom
<1>6. QED
  BY <1>1, <1>4, <1>5 DEF RightRow

----------------------------------------------------------------------------
\* A set of nodes has a largest one.
LEMMA MaxOfNodes ==
    ASSUME NEW T \in SUBSET Ids, T # {}
    PROVE  Max(T) \in T /\ \A y \in T : y <= Max(T)
<1> DEFINE below == {MAX_NODE - x : x \in T}
<1>1. below \in SUBSET Nat /\ below # {}
  <2>1. \A x \in Ids : x \in Int /\ MAX_NODE - x \in Nat
    BY RoutingAssumption DEF Ids
  <2>2. below \in SUBSET Nat
    BY <2>1
  <2>3. below # {}
    OBVIOUS
  <2>4. QED
    BY <2>2, <2>3
<1>2. Min(below) \in below /\ \A y \in below : Min(below) <= y
  BY <1>1, MinOfNaturals
<1>3. PICK x \in T : Min(below) = MAX_NODE - x
  BY <1>2
<1>4. \A y \in T : MAX_NODE - x <= MAX_NODE - y
  BY <1>2, <1>3
<1>5. \A y \in T : x >= y
  <2>1. TAKE y \in T
  <2>2. x \in Int /\ y \in Int /\ MAX_NODE \in Int /\ MAX_NODE - x <= MAX_NODE - y
    BY <1>4, RoutingAssumption DEF Ids
  <2>3. QED
    BY <2>2
<1>6. Max(T) \in T /\ \A y \in T : Max(T) >= y
  BY <1>5 DEF Max
<1>7. QED
  <2>1. SUFFICES ASSUME NEW y \in T
                 PROVE  y <= Max(T)
    BY <1>6
  <2>2. \A id \in Ids : id \in Int
    BY DEF Ids
  <2>3. Max(T) \in Int /\ y \in Int /\ Max(T) >= y
    BY <1>6, <2>2
  <2>4. QED
    BY <2>3

\* The largest of some nodes, and the nodes up to it.
LEMMA UpToMax ==
    ASSUME NEW S \in SUBSET Ids, S # {}
    PROVE  /\ Max(S) \in Ids
           /\ S \cup 1..Max(S) = 1..Max(S)
           /\ 1..Max(S) \subseteq Ids
           /\ Max(1..Max(S)) = Max(S)
<1>1. \A T \in SUBSET Ids : T # {} => Max(T) \in T /\ \A y \in T : y <= Max(T)
  BY MaxOfNodes
<1>2. Max(S) \in Ids /\ \A y \in S : y <= Max(S)
  BY <1>1
<1> DEFINE n == Max(S)
<1>3. n \in Nat /\ 1 <= n /\ n <= MAX_NODE
  BY <1>2, RoutingAssumption DEF Ids
<1>4. S \subseteq Ids /\ \A y \in S : y <= n
  BY <1>2
<1> HIDE DEF n
<1>5. 1..n \subseteq Ids /\ 1..n # {} /\ n \in 1..n
  BY <1>3, RoutingAssumption DEF Ids
<1>6. S \subseteq 1..n
  BY <1>3, <1>4, RoutingAssumption DEF Ids
<1>7. Max(1..n) \in 1..n /\ n <= Max(1..n)
  BY <1>1, <1>5
<1>8. Max(1..n) = n
  BY <1>3, <1>7
<1>9. QED
  BY <1>2, <1>5, <1>6, <1>8 DEF n

----------------------------------------------------------------------------
\* The loop over k, at the head of turn n; mc is the min_cost the turn starts from.
TurnOK(N, q, r, s, vs, m, mc, n) ==
    /\ Between(N, q, r, s, vs, m)
    /\ \/ mc = r[m].second /\ IsFiniteSet(vs) /\ Cardinality(vs) = n
       \/ mc = INF /\ Stuck(N, q, r, vs, m)

LEMMA TurnsStart ==
    ASSUME NEW N, NEW q, IsMatrix(N, q), NEW s \in N, q[<<s, s>>] = 0,
           NEW r, r = [e \in N |-> [first |-> s, second |-> q[<<s, e>>]]]
    PROVE  IsRow(N, r) /\ TurnOK(N, q, r, s, {s}, s, 0, 1)
<1>1. IsRow(N, r) /\ Between(N, q, r, s, {s}, s)
  BY Starting
<1>2. r[s].second = 0
  BY <1>1 DEF Between
<1>3. IsFiniteSet({s}) /\ Cardinality({s}) = 1
  BY FS_Singleton
<1>4. QED
  BY <1>1, <1>2, <1>3 DEF TurnOK

\* The nodes the next one is chosen from, in row r.
Candidates(N, r, vs) == {e \in N \ vs : r[e].second >= 0 /\ r[e].second < INF}

LEMMA TurnsGoOn ==
    ASSUME NEW N, Numbered(N), NEW q, IsMatrix(N, q), NEW r, IsRow(N, r), NEW s \in N,
           NEW vs, NEW m, NEW mc, NEW n \in Nat, TurnOK(N, q, r, s, vs, m, mc, n),
           NEW r2, r2 = [e \in N |-> RelaxedEntry(vs, q, r, m, mc, e)]
    PROVE  /\ IsRow(N, r2)
           /\ Candidates(N, r2, vs) = {} => TurnOK(N, q, r2, s, vs, m, INF, n + 1)
           /\ \A x \in Candidates(N, r2, vs) :
                (\A e \in Candidates(N, r2, vs) : r2[x].second <= r2[e].second)
                    => TurnOK(N, q, r2, s, vs \cup {x}, x, r2[x].second, n + 1)
<1>1. Between(N, q, r, s, vs, m)
  BY DEF TurnOK
<1>2. ASSUME IsRow(N, r2)
      PROVE  \A e \in N \ vs : e \in Candidates(N, r2, vs) <=> r2[e].second \in 0..(INF - 1)
  <2>1. TAKE e \in N \ vs
  <2>2. r2[e].second \in Int
    BY <1>2, RowFacts
  <2>3. QED
    BY <2>2, RoutingAssumption DEF Candidates
<1>3. CASE mc = r[m].second /\ IsFiniteSet(vs) /\ Cardinality(vs) = n
  <2>1. r2 = [e \in N |-> RelaxedEntry(vs, q, r, m, r[m].second, e)]
    BY <1>3
  <2>2. /\ IsRow(N, r2) /\ Between(N, q, r2, s, vs, m)
        /\ Closed(N, q, r2, m) /\ Smallest(N, q, r2, m)
    BY <1>1, <2>1, Relaxing
  <2>3. Candidates(N, r2, vs) = {} => TurnOK(N, q, r2, s, vs, m, INF, n + 1)
    BY <1>2, <2>2 DEF TurnOK, Stuck
  <2>4. ASSUME NEW x \in Candidates(N, r2, vs),
               \A e \in Candidates(N, r2, vs) : r2[x].second <= r2[e].second
        PROVE  TurnOK(N, q, r2, s, vs \cup {x}, x, r2[x].second, n + 1)
    <3>1. x \in N \ vs
      BY DEF Candidates
    <3>2. r2[x].second \in 0..(INF - 1)
      BY <1>2, <2>2, <3>1
    <3>3. \A e \in N \ vs : r2[e].second \in 0..(INF - 1) => r2[x].second <= r2[e].second
      BY <1>2, <2>2, <2>4
    <3>4. Between(N, q, r2, s, vs \cup {x}, x)
      BY <2>2, <3>1, <3>2, <3>3, Choosing
    <3>5. IsFiniteSet(vs \cup {x}) /\ Cardinality(vs \cup {x}) = n + 1
      BY <1>3, <3>1, FS_AddElement
    <3>6. QED
      BY <3>4, <3>5 DEF TurnOK
  <2>5. QED
    BY <2>2, <2>3, <2>4
<1>4. CASE mc = INF /\ Stuck(N, q, r, vs, m)
  <2>1. \A e \in N : RelaxedEntry(vs, q, r, m, mc, e) = r[e]
    BY <1>1, <1>4, RelaxingStuck
  <2>2. r2 = r
    BY <2>1 DEF IsRow
  <2>3. Candidates(N, r2, vs) = {}
    <3>1. \A e \in N \ vs : r2[e].second \notin 0..(INF - 1)
      BY <1>4, <2>2 DEF Stuck
    <3>2. QED
      BY <1>2, <2>2, <3>1 DEF Candidates
  <2>4. TurnOK(N, q, r2, s, vs, m, INF, n + 1)
    BY <1>1, <1>4, <2>2 DEF TurnOK
  <2>5. QED
    BY <2>2, <2>3, <2>4
<1>5. QED
  BY <1>3, <1>4 DEF TurnOK

LEMMA TurnsEnd ==
    ASSUME NEW N, IsFiniteSet(N), NEW q, IsMatrix(N, q), NEW r, IsRow(N, r), NEW s \in N,
           NEW vs, NEW m, NEW mc, TurnOK(N, q, r, s, vs, m, mc, Cardinality(N))
    PROVE  RightRow(N, q, r, s)
<1>1. Between(N, q, r, s, vs, m)
  BY DEF TurnOK
<1>2. vs \subseteq N
  BY <1>1 DEF Between
<1>3. vs = N \/ Stuck(N, q, r, vs, m)
  BY <1>2, FS_Subset DEF TurnOK
<1>4. QED
  BY <1>1, <1>3, Finishing

----------------------------------------------------------------------------
RowOf(ct, N, s) == [e \in N |-> ct[<<s, e>>]]
RawRow(q, N, s) == [e \in N |-> [first |-> s, second |-> q[<<s, e>>]]]

\* The cost matrix and the nodes.
MatrixOK ==
    /\ phase \in {"reading", "computing", "sending", "forwarding"}
    /\ p \in [Ids \X Ids -> CostOrNone]
    /\ \A i \in Ids : p[<<i, i>>] = 0
    /\ iter_node \subseteq Ids

\* Once the topology is read the nodes are numbered from 1.
NodesOK ==
    phase # "reading" =>
        /\ node_num \in Ids
        /\ iter_node = 1..node_num
        /\ start \in iter_node
        /\ ctable \in [iter_node \X iter_node -> [first : iter_node, second : CostOrNone]]

\* The rows of the start nodes that were: all of them once the tables are there.
DoneOK ==
    phase # "reading" =>
        \A s \in iter_node :
            phase # "computing" \/ s < start => RightRow(iter_node, p, RowOf(ctable, iter_node, s), s)

\* The row of the start node that is, and those of the start nodes to come.
TurnsOK ==
    phase = "computing" =>
        /\ k \in 1..node_num
        /\ TurnOK(iter_node, p, RowOf(ctable, iter_node, start), start, vis, min_node, min_cost, k)
        /\ \A s \in iter_node :
            s > start => RowOf(ctable, iter_node, s) = RawRow(p, iter_node, s)

RowsInv == MatrixOK /\ NodesOK /\ DoneOK /\ TurnsOK

LEMMA RowsAndMatrix ==
    ASSUME MatrixOK, NodesOK, phase # "reading"
    PROVE  /\ IsMatrix(iter_node, p)
           /\ \A s \in iter_node : IsRow(iter_node, RowOf(ctable, iter_node, s))
           /\ \A s, e \in iter_node : RowOf(ctable, iter_node, s)[e] = ctable[<<s, e>>]
           /\ IsFiniteSet(iter_node) /\ Cardinality(iter_node) = node_num
           /\ \A s \in iter_node : p[<<s, s>>] = 0
           /\ Numbered(iter_node)
<1>1. IsMatrix(iter_node, p)
  BY DEF MatrixOK, IsMatrix
<1>2. \A s \in iter_node : IsRow(iter_node, RowOf(ctable, iter_node, s))
  BY DEF NodesOK, IsRow, RowOf
<1>3. \A s, e \in iter_node : RowOf(ctable, iter_node, s)[e] = ctable[<<s, e>>]
  BY DEF RowOf
<1>4. node_num \in Nat \ {0} /\ iter_node = 1..node_num
  BY RoutingAssumption DEF NodesOK, Ids
<1>5. IsFiniteSet(iter_node) /\ Cardinality(iter_node) = node_num
  <2> DEFINE n == node_num
  <2>1. n \in Nat \ {0} /\ iter_node = 1..n
    BY <1>4
  <2> HIDE DEF n
  <2>2. IsFiniteSet(1..n) /\ Cardinality(1..n) = n
    <3>1. 1 \in Int /\ n \in Int /\ ~ (1 > n) /\ n - 1 + 1 = n
      BY <2>1
    <3>2. QED
      BY <3>1, FS_Interval
  <2>3. QED
    BY <2>1, <2>2 DEF n
<1>6. \A s \in iter_node : p[<<s, s>>] = 0
  BY DEF MatrixOK
<1>7. Numbered(iter_node)
  BY <1>4 DEF Numbered
<1>8. QED
  BY <1>1, <1>2, <1>3, <1>5, <1>6, <1>7

\* The call of dj_foward_table() with the cost matrix as it is now.
LEMMA Called ==
    ASSUME MatrixOK', phase' = "computing", node_num' \in Ids,
           iter_node' = 1..node_num', dj_foward_table
    PROVE  RowsInv'
<1>1. start' = 1 /\ vis' = {1} /\ min_node' = 1 /\ min_cost' = 0 /\ k' = 1
  BY DEF dj_foward_table, StartFrom
<1>2. 1 \in iter_node' /\ 1 \in 1..node_num' /\ iter_node' \subseteq Ids'
  <2> DEFINE n == node_num'
  <2>1. n \in Ids
    OBVIOUS
  <2> HIDE DEF n
  <2>2. 1 \in 1..n
    BY <2>1, RoutingAssumption DEF Ids
  <2>3. QED
    BY <2>2 DEF n, MatrixOK
<1>3. \A s \in iter_node' : RowOf(ctable', iter_node', s) = RawRow(p', iter_node', s)
  BY DEF dj_foward_table, RowOf, RawRow
<1>4. NodesOK'
  <2>1. \A i, j \in iter_node' : p'[<<i, j>>] \in CostOrNone'
    BY <1>2 DEF MatrixOK
  <2>2. ctable' \in [iter_node' \X iter_node' -> [first : iter_node', second : CostOrNone']]
    BY <2>1 DEF dj_foward_table
  <2>3. node_num' \in Ids'
    BY DEF Ids
  <2>4. QED
    BY <1>1, <1>2, <2>2, <2>3 DEF NodesOK
<1>5. DoneOK'
  <2>1. SUFFICES ASSUME NEW s \in iter_node'
                 PROVE  ~ (s < start')
    BY DEF DoneOK
  <2> DEFINE n == node_num'
  <2>2. s \in 1..n /\ n \in Ids
    BY <2>1
  <2> HIDE DEF n
  <2>3. ~ (s < 1)
    BY <2>2, RoutingAssumption DEF Ids
  <2>4. QED
    BY <1>1, <2>3
<1>6. TurnsOK'
  <2>1. IsMatrix(iter_node', p') /\ p'[<<1, 1>>] = 0
    BY <1>2 DEF MatrixOK, IsMatrix, CostOrNone, VAL_INF
  <2>2. RowOf(ctable', iter_node', 1) =
            [e \in iter_node' |-> [first |-> 1, second |-> p'[<<1, e>>]]]
    BY <1>2, <1>3 DEF RawRow
  <2>3. TurnOK(iter_node', p', RowOf(ctable', iter_node', 1), 1, {1}, 1, 0, 1)
    BY <1>2, <2>1, <2>2, TurnsStart
  <2>4. QED
    BY <1>1, <1>2, <1>3, <2>3 DEF TurnsOK
<1>7. QED
  BY <1>4, <1>5, <1>6 DEF RowsInv

\* A line of a file keeps the cost matrix one.
LEMMA LineKeepsRows ==
    ASSUME MatrixOK, NEW e \in Pairs, NEW cost \in Costs \cup {VAL_INF},
           p' = Connected(p, e, cost), iter_node' \subseteq iter_node \cup {e[1], e[2]},
           phase' \in {"reading", "computing", "sending", "forwarding"}
    PROVE  MatrixOK'
<1>1. e[1] \in Ids /\ e[2] \in Ids /\ e[1] # e[2]
  BY CostFacts
<1>2. p' \in [Ids \X Ids -> CostOrNone] /\ \A i \in Ids : p'[<<i, i>>] = 0
  <2>1. /\ p' \in [Ids \X Ids -> CostOrNone]
        /\ \A i, j \in Ids : p'[<<i, j>>] = Joined(p, e, cost, i, j)
    <3>1. p \in [Ids \X Ids -> CostOrNone]
      BY DEF MatrixOK
    <3>2. QED
      BY <3>1, ConnectedMatrix
  <2>2. \A i \in Ids : {i, i} # {e[1], e[2]}
    BY <1>1
  <2>3. QED
    BY <2>1, <2>2 DEF MatrixOK, Joined
<1>3. Ids' = Ids /\ CostOrNone' = CostOrNone
  BY DEF Ids, CostOrNone, VAL_INF
<1>4. iter_node' \subseteq Ids
  BY <1>1 DEF MatrixOK
<1>5. QED
  BY <1>2, <1>3, <1>4 DEF MatrixOK

LEMMA RowsInit == Init => RowsInv
<1>1. ASSUME Init
      PROVE  MatrixOK /\ phase = "reading"
  <2>1. phase = "reading" /\ p = init_top /\ iter_node = {}
    BY <1>1 DEF Init, RoutingInit
  <2>2. p \in [Ids \X Ids -> CostOrNone]
    BY <2>1 DEF init_top, CostOrNone
  <2>3. \A i \in Ids : p[<<i, i>>] = 0
    BY <2>1 DEF init_top
  <2>4. QED
    BY <2>1, <2>2, <2>3 DEF MatrixOK
<1>2. QED
  BY <1>1 DEF RowsInv, NodesOK, DoneOK, TurnsOK

\* A turn of the loop over k.
LEMMA RowsIterate ==
    ASSUME RowsInv, Iterate
    PROVE  RowsInv'
<1>1. /\ phase = "computing" /\ phase' = "computing"
      /\ p' = p /\ iter_node' = iter_node /\ start' = start /\ node_num' = node_num
      /\ k < node_num /\ k' = k + 1 /\ vis' = vis \cup {min_node'}
      /\ ctable' = [e \in iter_node \X iter_node |->
                        IF e[1] = start THEN Relaxed(e[2]) ELSE ctable[e]]
  BY DEF Iterate, routingVars, node_num
<1>2. MatrixOK /\ NodesOK /\ DoneOK /\ TurnsOK /\ start \in iter_node
  BY <1>1 DEF RowsInv, NodesOK
<1> DEFINE row == RowOf(ctable, iter_node, start)
           row2 == RowOf(ctable', iter_node, start)
<1>3. /\ IsMatrix(iter_node, p) /\ IsRow(iter_node, row) /\ Numbered(iter_node)
      /\ TurnOK(iter_node, p, row, start, vis, min_node, min_cost, k)
      /\ k \in 1..node_num
  BY <1>1, <1>2, RowsAndMatrix DEF TurnsOK
<1>4. \A e \in iter_node : /\ row[e] = ctable[<<start, e>>]
                           /\ row2[e] = ctable'[<<start, e>>]
  BY DEF RowOf
<1>5. row2 = [e \in iter_node |-> RelaxedEntry(vis, p, row, min_node, min_cost, e)]
  <2>1. ASSUME NEW e \in iter_node
        PROVE  ctable'[<<start, e>>] = RelaxedEntry(vis, p, row, min_node, min_cost, e)
    <3>1. ctable'[<<start, e>>] = Relaxed(e)
      BY <1>1, <1>2
    <3>2. ctable[<<start, e>>] = row[e]
      BY <1>4
    <3> HIDE DEF row
    <3>3. QED
      BY <3>1, <3>2 DEF Relaxed, RelaxedEntry, Neighbour
  <2>2. QED
    BY <2>1 DEF RowOf
<1>6. \A s \in iter_node : s # start =>
        RowOf(ctable', iter_node, s) = RowOf(ctable, iter_node, s)
  <2>1. \A s, e \in iter_node : s # start => ctable'[<<s, e>>] = ctable[<<s, e>>]
    BY <1>1
  <2>2. QED
    BY <2>1 DEF RowOf
<1>7. k \in Nat /\ node_num \in Nat
  <2>1. node_num \in Nat
    BY <1>1, <1>2, RoutingAssumption DEF NodesOK, Ids
  <2>2. QED
    BY <1>3, <2>1
<1>8. /\ IsRow(iter_node, row2)
      /\ Candidates(iter_node, row2, vis) = {}
            => TurnOK(iter_node, p, row2, start, vis, min_node, INF, k + 1)
      /\ \A x \in Candidates(iter_node, row2, vis) :
            (\A e \in Candidates(iter_node, row2, vis) : row2[x].second <= row2[e].second)
                => TurnOK(iter_node, p, row2, start, vis \cup {x}, x, row2[x].second, k + 1)
  <2> HIDE DEF row, row2
  <2>1. start \in iter_node /\ k \in Nat
    BY <1>2, <1>7
  <2>2. QED
    BY <1>3, <1>5, <2>1, TurnsGoOn
<1>9. Reached(ctable') = Candidates(iter_node, row2, vis)
  BY <1>4 DEF Reached, Candidates
<1>10. TurnOK(iter_node, p, row2, start, vis', min_node', min_cost', k')
  <2>1. CASE Reached(ctable') = {}
    <3>1. min_cost' = INF /\ min_node' = min_node
      BY <2>1 DEF Iterate
    <3>2. min_node \in vis
      BY <1>3 DEF TurnOK, Between
    <3>3. vis' = vis
      BY <1>1, <3>1, <3>2
    <3>4. QED
      BY <1>1, <1>8, <1>9, <2>1, <3>1, <3>3
  <2>2. CASE Reached(ctable') # {}
    <3>1. IsNext(ctable', min_node') /\ min_cost' = ctable'[<<start, min_node'>>].second
      BY <2>2 DEF Iterate
    <3>2. /\ min_node' \in Reached(ctable') /\ min_node' \in iter_node
          /\ min_cost' = row2[min_node'].second
      BY <1>4, <3>1 DEF IsNext, Reached
    <3>3. \A e \in Reached(ctable') : row2[min_node'].second <= row2[e].second
      <4>1. TAKE e \in Reached(ctable')
      <4>2. e \in iter_node
        BY DEF Reached
      <4>3. \/ row2[min_node'].second < row2[e].second
            \/ row2[min_node'].second = row2[e].second
        BY <1>4, <3>1, <3>2, <4>2 DEF IsNext
      <4>4. row2[min_node'].second \in Int /\ row2[e].second \in Int
        BY <1>8, <3>2, <4>2, RowFacts
      <4>5. QED
        BY <4>3, <4>4
    <3>4. QED
      BY <1>1, <1>8, <1>9, <3>2, <3>3
  <2>3. QED
    BY <2>1, <2>2
<1>11. NodesOK'
  <2>1. \A e \in iter_node : ctable'[<<start, e>>] \in [first : iter_node, second : CostOrNone]
    BY <1>4, <1>8 DEF IsRow
  <2>2. ctable' \in [iter_node \X iter_node -> [first : iter_node, second : CostOrNone]]
    <3>1. ASSUME NEW e \in iter_node \X iter_node
          PROVE  ctable'[e] \in [first : iter_node, second : CostOrNone]
      <4>1. CASE e[1] = start
        BY <2>1, <4>1
      <4>2. CASE e[1] # start
        BY <1>1, <1>2, <4>2 DEF NodesOK
      <4>3. QED
        BY <4>1, <4>2
    <3>2. QED
      BY <1>1, <3>1
  <2>3. Ids' = Ids /\ CostOrNone' = CostOrNone
    BY DEF Ids, CostOrNone, VAL_INF
  <2>4. QED
    BY <1>1, <1>2, <2>2, <2>3 DEF NodesOK
<1>12. MatrixOK'
  <2>1. Ids' = Ids /\ CostOrNone' = CostOrNone
    BY DEF Ids, CostOrNone, VAL_INF
  <2>2. QED
    BY <1>1, <1>2, <2>1 DEF MatrixOK
<1>13. \A s \in iter_node : s < start \/ s > start => s # start
  <2>1. \A x \in Ids : ~ (x < x) /\ ~ (x > x)
    BY DEF Ids
  <2>2. iter_node \subseteq Ids
    BY <1>2 DEF MatrixOK
  <2>3. QED
    BY <2>1, <2>2
<1>14. DoneOK'
  BY <1>1, <1>2, <1>6, <1>13 DEF DoneOK
<1>15. TurnsOK'
  <2>1. k' \in 1..node_num
    BY <1>1, <1>3, <1>7
  <2>2. \A s \in iter_node : s > start =>
            RowOf(ctable', iter_node, s) = RawRow(p, iter_node, s)
    BY <1>1, <1>2, <1>6, <1>13 DEF TurnsOK
  <2>3. QED
    BY <1>1, <1>10, <2>1, <2>2 DEF TurnsOK
<1>16. QED
  BY <1>11, <1>12, <1>14, <1>15 DEF RowsInv

\* When the loop over k ends, the row of the start node is right.
LEMMA LoopEnds ==
    ASSUME RowsInv, phase = "computing", k = node_num
    PROVE  RightRow(iter_node, p, RowOf(ctable, iter_node, start), start)
<1>1. MatrixOK /\ NodesOK /\ start \in iter_node
  BY DEF RowsInv, NodesOK
<1>2. TurnOK(iter_node, p, RowOf(ctable, iter_node, start), start, vis, min_node, min_cost, node_num)
  BY DEF RowsInv, TurnsOK
<1>3. QED
  BY <1>1, <1>2, RowsAndMatrix, TurnsEnd

LEMMA RowsNextStart ==
    ASSUME RowsInv, NextStart
    PROVE  RowsInv'
<1>1. /\ phase = "computing" /\ k = node_num /\ start < node_num /\ phase' = phase
      /\ p' = p /\ iter_node' = iter_node /\ node_num' = node_num /\ ctable' = ctable
      /\ start' = start + 1 /\ vis' = {start'} /\ min_node' = start'
      /\ min_cost' = 0 /\ k' = 1
  BY DEF NextStart, StartFrom, routingVars, node_num
<1>2. MatrixOK /\ NodesOK /\ DoneOK /\ TurnsOK
  BY DEF RowsInv
<1>3. /\ node_num \in Nat \ {0} /\ iter_node = 1..node_num /\ start \in iter_node
  BY <1>1, <1>2, RoutingAssumption DEF NodesOK, Ids
<1>4. /\ start' \in iter_node /\ 1 \in 1..node_num
      /\ \A s \in iter_node : /\ s < start' => s < start \/ s = start
                              /\ s > start' => s > start
                              /\ start' > start
  <2> DEFINE n == node_num
  <2>1. n \in Nat \ {0} /\ start \in 1..n /\ start < n /\ iter_node = 1..n
    BY <1>1, <1>3
  <2> HIDE DEF n
  <2>2. /\ start + 1 \in 1..n /\ 1 \in 1..n
        /\ \A s \in 1..n : /\ s < start + 1 => s < start \/ s = start
                           /\ s > start + 1 => s > start
                           /\ start + 1 > start
    BY <2>1
  <2>3. QED
    BY <1>1, <2>1, <2>2 DEF n
<1>5. MatrixOK' /\ NodesOK'
  BY <1>1, <1>2, <1>4 DEF MatrixOK, NodesOK, Ids, CostOrNone, VAL_INF
<1>6. DoneOK'
  <2>1. RightRow(iter_node, p, RowOf(ctable, iter_node, start), start)
    BY <1>1, LoopEnds
  <2>2. QED
    BY <1>1, <1>2, <1>4, <2>1 DEF DoneOK
<1>7. TurnsOK'
  <2> DEFINE s == start'
  <2>1. s \in iter_node /\ s > start
    BY <1>4
  <2>2. RowOf(ctable, iter_node, s) = [e \in iter_node |-> [first |-> s, second |-> p[<<s, e>>]]]
    BY <1>1, <1>2, <2>1 DEF TurnsOK, RawRow
  <2>3. IsMatrix(iter_node, p) /\ p[<<s, s>>] = 0
    BY <1>1, <1>2, <2>1, RowsAndMatrix
  <2>4. TurnOK(iter_node, p, RowOf(ctable, iter_node, s), s, {s}, s, 0, 1)
    <3> HIDE DEF s
    <3>1. QED
      BY <2>1, <2>2, <2>3, TurnsStart
  <2>5. \A x \in iter_node : x > s => RowOf(ctable, iter_node, x) = RawRow(p, iter_node, x)
    BY <1>1, <1>2, <1>4 DEF TurnsOK
  <2>6. QED
    BY <1>1, <1>4, <2>4, <2>5 DEF TurnsOK
<1>8. QED
  BY <1>5, <1>6, <1>7 DEF RowsInv

LEMMA RowsReadEnd ==
    ASSUME RowsInv, ReadEnd
    PROVE  RowsInv'
<1>1. /\ phase = "reading" /\ phase' = "computing" /\ p' = p /\ dj_foward_table
      /\ iter_node # {} /\ iter_node' = iter_node \cup 1..node_num
  BY DEF ReadEnd
<1>2. MatrixOK /\ iter_node \in SUBSET Ids
  BY DEF RowsInv, MatrixOK
<1>3. /\ Max(iter_node) \in Ids
      /\ iter_node \cup 1..Max(iter_node) = 1..Max(iter_node)
      /\ 1..Max(iter_node) \subseteq Ids
      /\ Max(1..Max(iter_node)) = Max(iter_node)
  BY <1>1, <1>2, UpToMax
<1>4. /\ iter_node' = 1..Max(iter_node) /\ node_num' = Max(iter_node)
      /\ iter_node' \subseteq Ids
  BY <1>1, <1>3 DEF node_num
<1>5. MatrixOK'
  BY <1>1, <1>2, <1>4 DEF MatrixOK, Ids, CostOrNone, VAL_INF
<1>6. node_num' \in Ids /\ iter_node' = 1..node_num'
  BY <1>3, <1>4
<1>7. QED
  BY <1>1, <1>5, <1>6, Called

LEMMA RowsChange ==
    ASSUME RowsInv, Change
    PROVE  RowsInv'
<1>1. /\ phase = "sending" /\ phase' = "computing" /\ dj_foward_table
      /\ iter_node' = iter_node /\ node_num' = node_num
  BY DEF Change, change_top, node_num
<1>2. PICK e \in Pairs, cost \in Costs \cup {VAL_INF} : p' = Connected(p, e, cost)
  BY DEF Change, change_top, Changed
<1>3. MatrixOK'
  BY <1>1, <1>2, LineKeepsRows DEF RowsInv
<1>4. node_num' \in Ids /\ iter_node' = 1..node_num'
  BY <1>1 DEF RowsInv, NodesOK
<1>5. QED
  BY <1>1, <1>3, <1>4, Called

\* Once the last row is made, all of them are right; what becomes of them in the
\* forwarding tables does not touch ctable.
LEMMA RowsBacktrace ==
    ASSUME RowsInv, Backtrace
    PROVE  RowsInv'
<1>1. /\ phase = "computing" /\ k = node_num /\ start = node_num /\ phase' = "sending"
      /\ p' = p /\ iter_node' = iter_node /\ node_num' = node_num /\ ctable' = ctable
      /\ start' = start
  BY DEF Backtrace, ctableVars, node_num
<1>2. MatrixOK /\ NodesOK /\ DoneOK
  BY DEF RowsInv
<1>3. RightRow(iter_node, p, RowOf(ctable, iter_node, start), start)
  BY <1>1, LoopEnds
<1>4. \A s \in iter_node : s < start \/ s = start
  <2> DEFINE n == node_num
  <2>1. n \in Ids /\ iter_node = 1..n
    BY <1>1, <1>2 DEF NodesOK
  <2> HIDE DEF n
  <2>2. \A s \in 1..n : s < n \/ s = n
    BY <2>1 DEF Ids
  <2>3. QED
    BY <1>1, <2>1, <2>2 DEF n
<1>5. MatrixOK' /\ NodesOK'
  BY <1>1, <1>2 DEF MatrixOK, NodesOK, Ids, CostOrNone, VAL_INF
<1>6. DoneOK'
  BY <1>1, <1>2, <1>3, <1>4 DEF DoneOK
<1>7. QED
  BY <1>1, <1>5, <1>6 DEF RowsInv, TurnsOK

LEMMA RowsNext == RowsInv /\ [Next]_vars => RowsInv'
<1>1. ASSUME RowsInv, [Next]_vars
      PROVE  RowsInv'
  <2>1. CASE ReadLine
    <3>1. phase = "reading" /\ phase' = "reading"
      BY <2>1 DEF ReadLine, read_top
    <3>2. PICK e \in Pairs, cost \in Costs :
            iter_node' = iter_node \cup {e[1], e[2]} /\ p' = Connected(p, e, cost)
      BY <2>1 DEF ReadLine, read_top
    <3>3. MatrixOK'
      BY <1>1, <3>1, <3>2, LineKeepsRows DEF RowsInv
    <3>4. QED
      BY <3>1, <3>3 DEF RowsInv, NodesOK, DoneOK, TurnsOK
  <2>2. CASE ReadEnd
    BY <1>1, <2>2, RowsReadEnd
  <2>3. CASE Iterate
    BY <1>1, <2>3, RowsIterate
  <2>4. CASE NextStart
    BY <1>1, <2>4, RowsNextStart
  <2>5. CASE Backtrace
    BY <1>1, <2>5, RowsBacktrace
  <2>6. CASE SendMessages
    <3>1. /\ phase \in {"sending", "forwarding"} /\ phase' \in {"sending", "forwarding"}
          /\ p' = p /\ iter_node' = iter_node /\ UNCHANGED ctableVars
      BY <2>6 DEF SendMessages, Send, Forward, Deliver
    <3>2. ctable' = ctable /\ start' = start /\ node_num' = node_num
      BY <3>1 DEF ctableVars, node_num
    <3>3. MatrixOK' /\ NodesOK'
      BY <1>1, <3>1, <3>2 DEF RowsInv, MatrixOK, NodesOK, Ids, CostOrNone, VAL_INF
    <3>4. DoneOK' /\ TurnsOK'
      BY <1>1, <3>1, <3>2 DEF RowsInv, DoneOK, TurnsOK
    <3>5. QED
      BY <3>3, <3>4 DEF RowsInv
  <2>7. CASE Change
    BY <1>1, <2>7, RowsChange
  <2>8. CASE UNCHANGED vars
    <3>1. /\ phase' = phase /\ p' = p /\ iter_node' = iter_node /\ ctable' = ctable
          /\ start' = start /\ vis' = vis /\ min_node' = min_node /\ min_cost' = min_cost
          /\ k' = k /\ node_num' = node_num
      BY <2>8 DEF vars, routingVars, ctableVars, node_num
    <3>2. MatrixOK' /\ NodesOK'
      BY <1>1, <3>1 DEF RowsInv, MatrixOK, NodesOK, Ids, CostOrNone, VAL_INF
    <3>3. DoneOK' /\ TurnsOK'
      BY <1>1, <3>1 DEF RowsInv, DoneOK, TurnsOK
    <3>4. QED
      BY <3>2, <3>3 DEF RowsInv
  <2>9. QED
    BY <1>1, <2>1, <2>2, <2>3, <2>4, <2>5, <2>6, <2>7, <2>8 DEF Next
<1>2. QED
  BY <1>1

LEMMA RightRowsAreRight == RowsInv => RowsAreRight
<1>1. SUFFICES ASSUME RowsInv, phase # "reading", NEW s \in iter_node,
                      Computed \/ s < start
               PROVE  RowIsRight(s)
  BY DEF RowsAreRight
<1> DEFINE r == RowOf(ctable, iter_node, s)
<1>2. RightRow(iter_node, p, r, s)
  BY <1>1 DEF RowsInv, DoneOK, Computed
<1>3. \A e \in iter_node : r[e] = ctable[<<s, e>>]
  BY DEF RowOf
<1> HIDE DEF r
<1>4. Cost(s, s) = 0
  BY <1>2, <1>3 DEF RightRow, Cost
<1>5. ASSUME NEW e \in iter_node, Cost(s, e) \in 0..(INF - 1)
      PROVE  Settled(s, e)
  <2>1. Closed(iter_node, p, r, e)
    BY <1>2, <1>3, <1>5 DEF RightRow, Cost
  <2>2. QED
    BY <1>3, <2>1 DEF Closed, Settled, Cost
<1>6. ASSUME NEW e \in iter_node, s # e, Cost(s, e) >= 0
      PROVE  Tight(s, e)
  <2>1. ComesFrom(iter_node, p, r, e)
    BY <1>2, <1>3, <1>6 DEF RightRow, Cost
  <2>2. QED
    BY <1>3, <2>1 DEF ComesFrom, Tight, Cost
<1>7. QED
  BY <1>4, <1>5, <1>6 DEF RowIsRight

\* Dijkstra's algorithm (dj_foward_table() of mp3/src/linkstate.cpp) is right for any
\* topology and any changes: no entry of the cost matrix improves a cost that it
\* left, and every cost it left is that of a predecessor and one link.  Nothing is
\* asked of the files: the matrix may hold the zeros of the last node.
THEOREM DijkstraIsRight == Spec => []RowsAreRight
<1>1. RowsInv /\ [Next]_vars => RowsInv'
  BY RowsNext
<1>2. QED
  BY <1>1, RowsInit, RightRowsAreRight, PTL DEF Spec

----------------------------------------------------------------------------
(***************************************************************************)
(* What a row that is right has to do with the costs of walks along the    *)
(* links of the files, where no file names the last node.                  *)
(***************************************************************************)

\* Rows are about the same links in the cost matrix and in the files.
LEMMA SameLinks ==
    ASSUME MatrixInv, NEW r, NEW vs, vs \subseteq iter_node
    PROVE  /\ \A v \in iter_node : Closed(iter_node, p, r, v) => Closed(iter_node, links, r, v)
           /\ \A v \in iter_node : Smallest(iter_node, p, r, v) => Smallest(iter_node, links, r, v)
           /\ \A e \in iter_node : ComesFrom(vs, p, r, e) => ComesFrom(vs, links, r, e)
<1>1. \A v, e \in iter_node : p[<<v, e>>] = links[<<v, e>>]
  BY DEF MatrixInv
<1>2. ASSUME NEW v \in iter_node, Closed(iter_node, p, r, v)
      PROVE  Closed(iter_node, links, r, v)
  BY <1>1, <1>2 DEF Closed
<1>3. ASSUME NEW v \in iter_node, Smallest(iter_node, p, r, v)
      PROVE  Smallest(iter_node, links, r, v)
  BY <1>1, <1>3 DEF Smallest
<1>4. ASSUME NEW e \in iter_node, ComesFrom(vs, p, r, e)
      PROVE  ComesFrom(vs, links, r, e)
  BY <1>1, <1>4 DEF ComesFrom
<1>5. QED
  BY <1>2, <1>3, <1>4

\* A node comes from one with a lower cost.
LEMMA FromLower ==
    ASSUME LinksOK, MatrixInv, NEW r, IsRow(iter_node, r), NEW e \in iter_node,
           ComesFrom(iter_node, links, r, e)
    PROVE  /\ r[e].first \in iter_node \ {e}
           /\ links[<<r[e].first, e>>] \in Nat \ {0}
           /\ r[r[e].first].second \in Nat
           /\ r[e].second = r[r[e].first].second + links[<<r[e].first, e>>]
           /\ r[r[e].first].second < r[e].second
<1> DEFINE v == r[e].first
           a == r[v].second
           b == links[<<v, e>>]
<1>1. v \in iter_node \ {e} /\ b >= 0 /\ a >= 0 /\ r[e].second = a + b
  BY DEF ComesFrom
<1>2. a \in Int /\ b \in Int /\ b > 0
  BY <1>1, LinkFacts, RowFacts, CostFacts DEF IsMatrix
<1> HIDE DEF v, a, b
<1>3. b \in Nat \ {0} /\ a \in Nat /\ a < r[e].second
  BY <1>1, <1>2
<1>4. QED
  BY <1>1, <1>3 DEF v, a, b

\* Its costs are those of walks ...
LEMMA RowAttained ==
    ASSUME LinksOK, MatrixInv, NEW s \in iter_node, NEW r, IsRow(iter_node, r),
           r[s].second = 0,
           \A e \in iter_node \ {s} : r[e].second >= 0 => ComesFrom(iter_node, links, r, e)
    PROVE  \A e \in iter_node : NoWorse(Least[<<s, e>>], r[e].second)
<1> DEFINE c == [e \in iter_node |-> r[e].second]
<1>1. \A e \in iter_node : c[e] = r[e].second
  OBVIOUS
<1> HIDE DEF c
<1>2. c[s] = 0 /\ \A e \in iter_node : c[e] \in CostOrNone
  BY <1>1, RowFacts
<1>3. ASSUME NEW e \in iter_node \ {s}, c[e] >= 0
      PROVE  \E v \in iter_node : From(links, c, e, v)
  <2> DEFINE v == r[e].first
             a == r[v].second
             b == links[<<v, e>>]
  <2>1. v \in iter_node /\ b \in Nat \ {0} /\ a \in Nat /\ r[e].second = a + b
    BY <1>1, <1>3, FromLower
  <2>2. c[v] = a /\ c[e] = a + b
    BY <1>1, <2>1
  <2> HIDE DEF v, a, b
  <2>3. b >= 0 /\ a >= 0 /\ a < a + b /\ a + b <= a + b
    BY <2>1
  <2>4. From(links, c, e, v)
    BY <2>2, <2>3 DEF From, b
  <2>5. QED
    BY <2>1, <2>4
<1>4. IsMatrix(iter_node, links) /\ IsFree(iter_node, links) /\ IsFiniteSet(iter_node)
  BY LinkFacts
<1>5. \A e \in iter_node : NoWorse(Walk[Cardinality(iter_node) - 1][<<s, e>>], c[e])
  BY <1>2, <1>3, <1>4, WalkEquation, AttainedFrom
<1>6. QED
  BY <1>1, <1>5 DEF Least

\* ... and no walk costs less.
LEMMA RowIsLeast ==
    ASSUME LinksOK, MatrixInv, RoutesBelowINF, NEW s \in iter_node,
           NEW r, IsRow(iter_node, r), RightRow(iter_node, links, r, s)
    PROVE  \A e \in iter_node :
                /\ r[e].second = Least[<<s, e>>]
                /\ r[e].second >= 0 => r[e].second \in 0..(INF - 1)
                /\ NoWorse(r[e].second, Walk[Cardinality(iter_node)][<<s, e>>])
<1> DEFINE c == [e \in iter_node |-> r[e].second]
           top == Cardinality(iter_node) - 1
<1>1. \A e \in iter_node : c[e] = r[e].second
  OBVIOUS
<1> HIDE DEF c
<1>2. c[s] = 0 /\ \A e \in iter_node : c[e] \in CostOrNone
  BY <1>1, RowFacts DEF RightRow
<1>3. ASSUME NEW v \in iter_node, NEW e \in iter_node,
             c[v] \in 0..(INF - 1), links[<<v, e>>] >= 0
      PROVE  NoWorse(c[e], c[v] + links[<<v, e>>])
  <2>1. Closed(iter_node, links, r, v)
    BY <1>1, <1>3 DEF RightRow
  <2>2. QED
    BY <1>1, <1>3, <2>1 DEF Closed, NoWorse
<1>4. IsMatrix(iter_node, links) /\ top \in Nat /\ top < MAX_NODE /\ INF \in Nat /\ MAX_NODE \in Nat
  <2>1. IsMatrix(iter_node, links) /\ top \in Nat /\ Cardinality(iter_node) <= MAX_NODE
        /\ Cardinality(iter_node) \in Nat
    BY LinkFacts
  <2>2. QED
    BY <2>1, RoutingAssumption
<1>5. \A n \in Nat : n <= top => \A e \in iter_node : Walk[n][<<s, e>>] < INF
  <2> HIDE DEF top
  <2>1. \A n \in Nat : n <= top => n < MAX_NODE
    BY <1>4
  <2>2. QED
    BY <2>1, WalksBelowINF
<1>6. \A e \in iter_node : /\ NoWorse(c[e], Walk[top][<<s, e>>])
                           /\ NoWorse(c[e], Walk[Cardinality(iter_node)][<<s, e>>])
  <2>1. top + 1 = Cardinality(iter_node)
    BY LinkFacts
  <2> HIDE DEF top
  <2>2. \A n \in Nat : n <= top + 1 => \A e \in iter_node : NoWorse(c[e], Walk[n][<<s, e>>])
    BY <1>2, <1>3, <1>4, <1>5, WalkEquation, Closing
  <2>3. top <= top + 1 /\ top + 1 <= top + 1 /\ top + 1 \in Nat
    BY <1>4
  <2>4. QED
    BY <1>4, <2>1, <2>2, <2>3
<1>7. \A e \in iter_node : NoWorse(Walk[top][<<s, e>>], c[e])
  BY <1>1, RowAttained DEF RightRow, Least
<1>8. \A e \in iter_node : Walk[top][<<s, e>>] \in CostOrNone
  BY <1>4, WalkEquation, WalkSteps
<1>9. \A e \in iter_node : c[e] = Walk[top][<<s, e>>]
  BY <1>2, <1>6, <1>7, <1>8, NoWorseFacts
<1>10. top <= top
  <2> HIDE DEF top
  <2>1. QED
    BY <1>4
<1>11. \A e \in iter_node : c[e] >= 0 => c[e] \in 0..(INF - 1)
  <2>1. TAKE e \in iter_node
  <2>2. c[e] \in Int /\ c[e] < INF
    BY <1>2, <1>4, <1>5, <1>9, <1>10, CostFacts
  <2>3. QED
    BY <1>4, <2>2
<1>12. QED
  BY <1>1, <1>6, <1>9, <1>11 DEF Least

\* A visited node has its final cost already.
LEMMA VisitedAreLeast ==
    ASSUME LinksOK, MatrixInv, NEW s \in iter_node, NEW r, IsRow(iter_node, r),
           NEW vs, NEW m, Between(iter_node, links, r, s, vs, m)
    PROVE  /\ \A e \in vs : r[e].second = Least[<<s, e>>]
           /\ \A e \in iter_node : NoWorse(Least[<<s, e>>], r[e].second)
<1> DEFINE c == r[m].second
           At(n, e) == Walk[n][<<s, e>>]
           Passed(n, e) == (e \in vs /\ r[e].second <= At(n, e)) \/ c <= At(n, e)
           S == {n \in Nat : \A e \in iter_node : At(n, e) >= 0 => Passed(n, e)}
<1>1. /\ vs \subseteq iter_node /\ m \in vs /\ s \in vs /\ r[s].second = 0
      /\ \A v \in vs : r[v].second \in 0..c
      /\ \A e \in iter_node \ vs : r[e].second >= 0 => c <= r[e].second
      /\ \A v \in vs \ {m} : Closed(iter_node, links, r, v)
      /\ \A e \in iter_node \ {s} : r[e].second >= 0 => ComesFrom(iter_node, links, r, e)
  <2>1. \A e \in iter_node : ComesFrom(vs, links, r, e) => ComesFrom(iter_node, links, r, e)
    BY DEF ComesFrom, Between
  <2>2. QED
    BY <2>1 DEF Between
<1>2. /\ \A e \in iter_node : r[e].second \in Int
      /\ c \in Int
      /\ IsMatrix(iter_node, links) /\ IsWalk(iter_node, links, Walk)
  BY <1>1, RowFacts, LinkFacts, WalkEquation
<1>3. /\ \A n \in Nat : \A e \in iter_node : At(n, e) \in Int
      /\ \A v, e \in iter_node : links[<<v, e>>] \in Int
  <2>1. ASSUME NEW n \in Nat, NEW e \in iter_node
        PROVE  At(n, e) \in CostOrNone
    BY <1>2, WalkSteps
  <2> HIDE DEF At
  <2>2. QED
    BY <1>2, <2>1, CostFacts DEF IsMatrix
<1>4. 0 \in S
  <2>1. ASSUME NEW e \in iter_node, At(0, e) >= 0
        PROVE  Passed(0, e)
    <3>1. s = e /\ At(0, e) = 0
      BY <1>2, <2>1, WalkSteps DEF VAL_INF
    <3>2. QED
      BY <1>1, <3>1
  <2>2. QED
    BY <2>1
<1>5. ASSUME NEW n \in Nat, n \in S
      PROVE  n + 1 \in S
  <2>1. ASSUME NEW e \in iter_node, At(n + 1, e) >= 0
        PROVE  Passed(n + 1, e)
    <3>1. PICK v \in iter_node : LastLink(links, Walk, n, s, e, v)
      BY <1>2, <2>1, WalkSteps
    <3> DEFINE a == At(n, v)
               b == links[<<v, e>>]
               x == r[v].second
               y == r[e].second
    <3>2. /\ a >= 0 /\ b >= 0 /\ At(n + 1, e) = a + b
          /\ a \in Int /\ b \in Int /\ x \in Int /\ y \in Int
      BY <1>2, <1>3, <3>1 DEF LastLink
    <3>3. (v \in vs /\ x <= a) \/ c <= a
      BY <1>5, <3>2
    <3>4. v \in vs /\ v # m => y \in 0..(x + b)
      BY <1>1, <3>2 DEF Closed
    <3>5. v = m => x = c
      OBVIOUS
    <3>6. e \notin vs /\ y >= 0 => c <= y
      BY <1>1
    <3> HIDE DEF a, b, x, y, c, At
    <3>7. CASE c <= a
      BY <1>2, <3>2, <3>7
    <3>8. CASE v \in vs /\ v # m /\ x <= a
      <4>1. y >= 0 /\ y <= a + b
        BY <3>2, <3>4, <3>8
      <4>2. e \in vs \/ c <= a + b
        BY <1>2, <3>2, <3>6, <4>1
      <4>3. QED
        BY <3>2, <4>1, <4>2 DEF y
    <3>9. QED
      BY <3>3, <3>5, <3>7, <3>8
  <2>2. QED
    BY <2>1
<1>6. \A n \in Nat : n \in S
  <2> HIDE DEF S
  <2>1. QED
    BY <1>4, <1>5, Induction
<1>7. \A e \in iter_node : NoWorse(Least[<<s, e>>], r[e].second)
  BY <1>1, RowAttained
<1>8. ASSUME NEW e \in vs
      PROVE  r[e].second = Least[<<s, e>>]
  <2> DEFINE n == Cardinality(iter_node) - 1
             y == r[e].second
             z == At(n, e)
  <2>1. n \in Nat /\ e \in iter_node
    BY <1>1, LinkFacts
  <2>2. z = Least[<<s, e>>]
    BY DEF Least
  <2>3. y \in 0..c /\ y \in Int /\ z \in Int
    <3> HIDE DEF n
    <3>1. QED
      BY <1>1, <1>2, <1>3, <2>1
  <2>4. NoWorse(z, y)
    BY <1>7, <2>1, <2>2
  <2>5. z >= 0 => y <= z \/ c <= z
    <3> HIDE DEF n
    <3>1. QED
      BY <1>6, <2>1
  <2> HIDE DEF c, y, z, At
  <2>6. y >= 0 /\ z \in 0..y
    BY <1>2, <2>3, <2>4 DEF NoWorse
  <2>7. y = z
    BY <1>2, <2>3, <2>5, <2>6
  <2>8. QED
    BY <2>2, <2>7 DEF y
<1>9. QED
  BY <1>7, <1>8

----------------------------------------------------------------------------
(***************************************************************************)
(* The walk back from a node along the predecessors ends: it goes from     *)
(* node to node with a lower cost.                                         *)
(***************************************************************************)

\* One step back from node v, where g has the ends of the walks from other nodes.
Back(ct, s, g, v) == IF ct[<<s, v>>].first = s THEN v ELSE g[ct[<<s, v>>].first]

IsBack(N, ct, s, g) == g = [v \in N |-> Back(ct, s, g, v)]

\* The walk of Hop.
LEMMA HopIsBack ==
    ASSUME NEW s, \E g : IsBack(iter_node, ctable, s, g)
    PROVE  \E g : IsBack(iter_node, ctable, s, g) /\ \A e \in iter_node : Hop(s, e) = g[e]
<1>1. \A e \in iter_node : Hop(s, e) = (CHOOSE g : IsBack(iter_node, ctable, s, g))[e]
  BY DEF Hop, IsBack, Back
<1>2. QED
  BY <1>1, Zenon

LEMMA BackExists ==
    ASSUME NEW N, IsFiniteSet(N), NEW ct, NEW s, NEW c, \A v \in N : c[v] \in CostOrNone,
           \A v \in N : ct[<<s, v>>].first # s =>
                LET u == ct[<<s, v>>].first IN u \in N /\ c[u] >= 0 /\ c[u] < c[v]
    PROVE  \E g : IsBack(N, ct, s, g)
<1> DEFINE Rank(v) == Cardinality(Lower(N, c, v))
           Works(g, n) == \A v \in N : Rank(v) < n => g[v] = Back(ct, s, g, v)
           S == {n \in Nat : \E g : Works(g, n)}
<1>1. \A v \in N : Rank(v) \in Nat /\ Rank(v) < Cardinality(N) + 1
  <2>1. TAKE v \in N
  <2>2. Lower(N, c, v) \subseteq N /\ Rank(v) \in Nat
    BY LowerFacts
  <2>3. Rank(v) <= Cardinality(N) /\ Cardinality(N) \in Nat
    BY <2>2, FS_Subset, FS_CardinalityType
  <2>4. QED
    BY <2>2, <2>3
<1>2. \A v \in N : ct[<<s, v>>].first # s =>
            ct[<<s, v>>].first \in N /\ Rank(ct[<<s, v>>].first) < Rank(v)
  BY LowerFacts
<1> HIDE DEF Rank
<1>3. 0 \in S
  <2>1. \A v \in N : ~ (Rank(v) < 0)
    BY <1>1
  <2>2. Works(<<>>, 0)
    BY <2>1
  <2>3. QED
    BY <2>2
<1>4. ASSUME NEW n \in Nat, n \in S
      PROVE  n + 1 \in S
  <2>1. PICK g : Works(g, n)
    BY <1>4
  <2> DEFINE h == [v \in N |-> IF Rank(v) < n THEN g[v] ELSE Back(ct, s, g, v)]
  <2>2. \A v \in N : Rank(v) < n => h[v] = g[v]
    OBVIOUS
  <2>3. \A v \in N : h[v] = Back(ct, s, g, v)
    BY <2>1
  <2> HIDE DEF h
  <2>4. ASSUME NEW v \in N, Rank(v) < n + 1
        PROVE  h[v] = Back(ct, s, h, v)
    <3>1. CASE ct[<<s, v>>].first = s
      BY <2>3, <3>1 DEF Back
    <3>2. CASE ct[<<s, v>>].first # s
      <4> DEFINE u == ct[<<s, v>>].first
      <4>1. u \in N /\ Rank(u) < Rank(v)
        BY <1>2, <3>2
      <4>2. Rank(u) < n
        <5> HIDE DEF u
        <5>1. QED
          BY <1>1, <2>4, <4>1
      <4>3. h[u] = g[u]
        BY <2>2, <4>1, <4>2
      <4>4. QED
        BY <2>3, <3>2, <4>3 DEF Back
    <3>3. QED
      BY <3>1, <3>2
  <2>5. Works(h, n + 1)
    BY <2>4
  <2>6. QED
    BY <2>5
<1>5. Cardinality(N) + 1 \in S
  <2>1. Nat \subseteq S
    <3> HIDE DEF S
    <3>1. QED
      BY <1>3, <1>4, Induction
  <2>2. Cardinality(N) + 1 \in Nat
    BY FS_CardinalityType
  <2>3. QED
    BY <2>1, <2>2
<1>6. PICK g : Works(g, Cardinality(N) + 1)
  BY <1>5
<1>7. \A v \in N : g[v] = Back(ct, s, g, v)
  BY <1>1, <1>6
<1> DEFINE h == [v \in N |-> g[v]]
<1>8. \A v \in N : Back(ct, s, h, v) = Back(ct, s, g, v)
  BY <1>2 DEF Back
<1>9. h = [v \in N |-> Back(ct, s, h, v)]
  <2>1. SUFFICES ASSUME NEW v \in N
                 PROVE  g[v] = Back(ct, s, h, v)
    BY Zenon
  <2>2. QED
    BY <1>7, <1>8
<1>10. IsBack(N, ct, s, h)
  <2> HIDE DEF h
  <2>1. QED
    BY <1>9 DEF IsBack
<1>11. QED
  BY <1>10, Zenon

\* The row of s in ctable, and what is known of it.
Row(s) == RowOf(ctable, iter_node, s)

RowOK(s) ==
    /\ LinksOK /\ MatrixInv /\ s \in iter_node
    /\ IsRow(iter_node, Row(s))
    /\ RightRow(iter_node, links, Row(s), s)

LEMMA RowSteps ==
    ASSUME NEW s, RowOK(s), NEW e \in iter_node \ {s}, Row(s)[e].second >= 0
    PROVE  /\ Row(s)[e].first \in iter_node \ {e}
           /\ links[<<Row(s)[e].first, e>>] \in Nat \ {0}
           /\ Row(s)[Row(s)[e].first].second \in Nat
           /\ Row(s)[e].second = Row(s)[Row(s)[e].first].second + links[<<Row(s)[e].first, e>>]
           /\ Row(s)[Row(s)[e].first].second < Row(s)[e].second
<1>1. ComesFrom(iter_node, links, Row(s), e)
  BY DEF RowOK, RightRow
<1>2. QED
  BY <1>1, FromLower DEF RowOK

\* The walk back from e ends at a neighbour of s at no higher a cost.
LEMMA HopFacts ==
    ASSUME NEW s, RowOK(s)
    PROVE  /\ \A e \in iter_node :
                Hop(s, e) = IF Row(s)[e].first = s THEN e ELSE Hop(s, Row(s)[e].first)
           /\ Hop(s, s) = s
           /\ \A e \in iter_node \ {s} : Row(s)[e].second >= 0 =>
                    /\ Hop(s, e) \in iter_node \ {s}
                    /\ Row(s)[Hop(s, e)].first = s
                    /\ Row(s)[Hop(s, e)].second \in 0..Row(s)[e].second
<1> DEFINE r == Row(s)
           c == [e \in iter_node |-> r[e].second]
           Rank(v) == Cardinality(Lower(iter_node, c, v))
<1>1. \A e \in iter_node : /\ c[e] = r[e].second /\ r[e] = ctable[<<s, e>>]
                           /\ c[e] \in CostOrNone /\ c[e] \in Int
                           /\ r[e].first \in iter_node
  <2>1. \A e \in iter_node : c[e] = r[e].second /\ r[e] = ctable[<<s, e>>]
    BY DEF Row, RowOf
  <2>2. \A e \in iter_node : r[e].second \in CostOrNone /\ r[e].first \in iter_node
    BY RowFacts DEF RowOK
  <2> HIDE DEF c, r
  <2>3. QED
    BY <2>1, <2>2, CostFacts
<1>2. s \in iter_node /\ r[s].first = s /\ r[s].second = 0 /\ IsFiniteSet(iter_node)
  BY LinkFacts DEF RowOK, RightRow
<1>3. \A e \in iter_node : r[e].first # s => e # s /\ r[e].second >= 0
  <2>1. \A e \in iter_node : r[e].second < 0 => r[e].first = s
    BY DEF RowOK, RightRow
  <2>2. \A x \in Int : x < 0 \/ x >= 0
    OBVIOUS
  <2>3. QED
    BY <1>1, <1>2, <2>1, <2>2
<1>4. ASSUME NEW e \in iter_node, e # s, r[e].second >= 0
      PROVE  r[e].first \in iter_node /\ c[r[e].first] >= 0 /\ c[r[e].first] < c[e]
  <2>1. /\ r[e].first \in iter_node /\ r[r[e].first].second \in Nat
        /\ r[r[e].first].second < r[e].second
    BY <1>4, RowSteps
  <2>2. \A x \in Nat : x >= 0
    OBVIOUS
  <2> HIDE DEF c, r
  <2>3. QED
    BY <1>1, <2>1, <2>2
<1> HIDE DEF c, r
<1>5. PICK g : /\ IsBack(iter_node, ctable, s, g)
               /\ \A e \in iter_node : Hop(s, e) = g[e]
  <2>1. \A e \in iter_node : ctable[<<s, e>>].first # s =>
            LET u == ctable[<<s, e>>].first IN u \in iter_node /\ c[u] >= 0 /\ c[u] < c[e]
    BY <1>1, <1>3, <1>4
  <2>2. \A e \in iter_node : c[e] \in CostOrNone
    BY <1>1
  <2>3. QED
    BY <1>2, <2>1, <2>2, BackExists, HopIsBack
<1>6. \A e \in iter_node : Hop(s, e) = IF r[e].first = s THEN e ELSE Hop(s, r[e].first)
  <2> DEFINE h == [v \in iter_node |-> Back(ctable, s, g, v)]
  <2>1. \A e \in iter_node : h[e] = IF r[e].first = s THEN e ELSE g[r[e].first]
    BY <1>1 DEF Back
  <2>2. g = h
    BY <1>5 DEF IsBack
  <2> HIDE DEF h
  <2>3. \A e \in iter_node : g[e] = IF r[e].first = s THEN e ELSE g[r[e].first]
    BY <2>1, <2>2, Zenon
  <2>4. QED
    BY <1>1, <1>5, <2>3
<1>7. \A v \in iter_node : Rank(v) \in Nat
  <2>1. \A e \in iter_node : c[e] \in CostOrNone
    BY <1>1
  <2>2. QED
    BY <1>2, <2>1, LowerFacts
<1>8. \A e, v \in iter_node : c[v] >= 0 /\ c[v] < c[e] => Rank(v) < Rank(e)
  <2>1. \A e \in iter_node : c[e] \in CostOrNone
    BY <1>1
  <2>2. QED
    BY <1>2, <2>1, LowerFacts
<1> HIDE DEF Rank
<1> DEFINE Ends(e) == /\ Hop(s, e) \in iter_node \ {s}
                      /\ r[Hop(s, e)].first = s
                      /\ r[Hop(s, e)].second \in 0..r[e].second
           S == {n \in Nat : \A e \in iter_node \ {s} :
                    r[e].second >= 0 /\ Rank(e) < n => Ends(e)}
<1>9. 0 \in S
  <2>1. \A e \in iter_node : ~ (Rank(e) < 0)
    BY <1>7
  <2>2. QED
    BY <2>1
<1>10. ASSUME NEW n \in Nat, n \in S
       PROVE  n + 1 \in S
  <2>1. ASSUME NEW e \in iter_node \ {s}, r[e].second >= 0, Rank(e) < n + 1
        PROVE  Ends(e)
    <3>1. CASE r[e].first = s
      <4>1. Hop(s, e) = e
        BY <1>6, <3>1
      <4>2. r[e].second \in 0..r[e].second
        <5>1. \A x \in Int : x >= 0 => x \in 0..x
          OBVIOUS
        <5>2. QED
          BY <1>1, <2>1, <5>1
      <4>3. QED
        BY <3>1, <4>1, <4>2
    <3>2. CASE r[e].first # s
      <4> DEFINE u == r[e].first
      <4>1. u \in iter_node \ {s} /\ c[u] >= 0 /\ c[u] < c[e] /\ Hop(s, e) = Hop(s, u)
        BY <1>4, <1>6, <2>1, <3>2
      <4>2. Rank(u) < n
        <5>1. Rank(u) < Rank(e)
          BY <1>8, <4>1
        <5> HIDE DEF u
        <5>2. QED
          BY <1>7, <2>1, <4>1, <5>1
      <4>3. Ends(u)
        BY <1>1, <1>10, <4>1, <4>2
      <4>4. r[Hop(s, e)].second \in 0..r[e].second
        <5> DEFINE x == r[Hop(s, e)].second
                   y == r[u].second
                   z == r[e].second
        <5>1. x \in 0..y
          BY <4>1, <4>3
        <5>2. y \in Int /\ z \in Int /\ y < z
          BY <1>1, <4>1
        <5> HIDE DEF x, y, z
        <5>3. x \in 0..z
          BY <5>1, <5>2
        <5>4. QED
          BY <5>3 DEF x, z
      <4>5. QED
        BY <4>1, <4>3, <4>4
    <3>3. QED
      BY <3>1, <3>2
  <2>2. QED
    BY <2>1
<1>11. Nat \subseteq S
  <2> HIDE DEF S
  <2>1. QED
    BY <1>9, <1>10, Induction
<1>12. ASSUME NEW e \in iter_node \ {s}, r[e].second >= 0
       PROVE  Ends(e)
  <2>1. Rank(e) + 1 \in S /\ Rank(e) < Rank(e) + 1
    <3>1. \A x \in Nat : x + 1 \in Nat /\ x < x + 1
      OBVIOUS
    <3>2. QED
      BY <1>7, <1>11, <3>1
  <2>2. QED
    BY <1>12, <2>1
<1>13. Hop(s, s) = s
  BY <1>2, <1>6
<1>14. QED
  BY <1>6, <1>12, <1>13 DEF r

\* From the next hop of s towards e the rest of the way costs the rest of the cost.
LEMMA HopSplits ==
    ASSUME NEW s, RowOK(s), RoutesBelowINF,
           NEW e \in iter_node \ {s}, Row(s)[e].second >= 0
    PROVE  /\ Hop(s, e) \in iter_node \ {s}
           /\ links[<<s, Hop(s, e)>>] \in Nat \ {0}
           /\ Least[<<Hop(s, e), e>>] \in Nat
           /\ Least[<<s, e>>] = links[<<s, Hop(s, e)>>] + Least[<<Hop(s, e), e>>]
<1> DEFINE r == Row(s)
           h == Hop(s, e)
           N == iter_node
<1>0. /\ LinksOK /\ MatrixInv /\ s \in N /\ IsRow(N, r) /\ r[s].second = 0
  BY DEF RowOK, RightRow
<1>1. /\ h \in N \ {s} /\ r[h].first = s /\ r[h].second \in 0..r[e].second
      /\ e \in N \ {s} /\ r[e].second >= 0
  BY HopFacts
<1>2. \A v \in N : r[v].second \in Int /\ r[v].second \in CostOrNone
  BY <1>0, RowFacts
<1>3. r[h].second >= 0
  <2> HIDE DEF r, h
  <2>1. QED
    BY <1>1, <1>2
<1>4. links[<<s, h>>] \in Nat \ {0} /\ r[h].second = links[<<s, h>>]
  <2>1. /\ links[<<r[h].first, h>>] \in Nat \ {0}
        /\ r[h].second = r[r[h].first].second + links[<<r[h].first, h>>]
    <3> HIDE DEF h
    <3>1. QED
      BY <1>1, <1>3, RowSteps
  <2>2. r[h].second = 0 + links[<<s, h>>] /\ links[<<s, h>>] \in Nat \ {0}
    BY <1>0, <1>1, <2>1
  <2> HIDE DEF r, h
  <2>3. QED
    BY <2>2
\* What the nodes beyond the hop have left from there.
<1> DEFINE beyond(u) == u # s /\ r[u].second >= 0 /\ Hop(s, u) = h
           rest == [u \in N |-> IF beyond(u) THEN r[u].second - r[h].second ELSE VAL_INF]
<1>5. \A u \in N : beyond(u) => /\ r[h].second <= r[u].second
                                /\ r[u].second - r[h].second \in Nat
  <2>1. TAKE u \in N
  <2>2. HAVE beyond(u)
  <2>3. r[h].second \in 0..r[u].second
    BY <2>2, HopFacts
  <2>4. r[h].second \in Int /\ r[u].second \in Int
    BY <1>1, <1>2
  <2> HIDE DEF r, h
  <2>5. QED
    BY <2>3, <2>4
<1>6. \A u \in N : rest[u] = IF beyond(u) THEN r[u].second - r[h].second ELSE VAL_INF
  OBVIOUS
<1>7. \A u \in N : rest[u] \in CostOrNone
  <2> HIDE DEF rest, beyond
  <2>1. QED
    BY <1>5, <1>6 DEF CostOrNone
<1>8. \A u \in N : rest[u] >= 0 => beyond(u)
  <2> HIDE DEF rest, beyond
  <2>1. ~ (VAL_INF >= 0)
    BY DEF VAL_INF
  <2>2. QED
    BY <1>6, <2>1
<1>9. Hop(s, h) = h
  BY <1>1, HopFacts
<1>10. rest[h] = 0
  <2>1. beyond(h)
    BY <1>1, <1>3, <1>9
  <2>2. rest[h] = r[h].second - r[h].second
    <3> HIDE DEF rest, beyond
    <3>1. QED
      BY <1>1, <1>6, <2>1
  <2>3. r[h].second \in Int
    BY <1>1, <1>2
  <2> HIDE DEF r, h, rest
  <2>4. QED
    BY <2>2, <2>3
<1>11. ASSUME NEW u \in N \ {h}, rest[u] >= 0
       PROVE  \E v \in N : From(links, rest, u, v)
  <2> DEFINE v == r[u].first
  <2>1. u # s /\ r[u].second >= 0 /\ Hop(s, u) = h
    BY <1>8, <1>11
  <2>2. /\ v \in N /\ links[<<v, u>>] \in Nat \ {0} /\ r[v].second \in Nat
        /\ r[u].second = r[v].second + links[<<v, u>>]
    BY <2>1, RowSteps
  <2>3. Hop(s, u) = IF v = s THEN u ELSE Hop(s, v)
    BY HopFacts
  <2>4. v # s /\ Hop(s, v) = h
    BY <2>1, <2>3
  <2>5. beyond(v)
    <3>1. \A x \in Nat : x >= 0
      OBVIOUS
    <3>2. QED
      BY <2>2, <2>4, <3>1
  <2> DEFINE a == r[v].second
             b == links[<<v, u>>]
             c == r[h].second
  <2>6. rest[v] = a - c /\ rest[u] = (a + b) - c
    <3>1. beyond(u)
      BY <2>1
    <3> HIDE DEF rest, beyond, v
    <3>2. QED
      BY <1>6, <2>2, <2>5, <3>1
  <2>7. a \in Nat /\ b \in Nat \ {0} /\ c \in Int /\ a - c \in Nat
    BY <1>1, <1>2, <1>5, <2>2, <2>5
  <2> HIDE DEF a, b, c, rest, v
  <2>8. a - c >= 0 /\ b >= 0 /\ a - c < (a + b) - c /\ (a - c) + b <= (a + b) - c
    BY <2>7
  <2>9. From(links, rest, u, v)
    BY <2>6, <2>8 DEF From, b
  <2>10. QED
    BY <2>2, <2>9
<1>12. NoWorse(Least[<<h, e>>], rest[e])
  <2>1. IsMatrix(N, links) /\ IsFree(N, links) /\ IsFiniteSet(N)
    BY <1>0, LinkFacts
  <2>2. h \in N
    BY <1>1
  <2> HIDE DEF rest, h
  <2>3. \A u \in N : NoWorse(Walk[Cardinality(N) - 1][<<h, u>>], rest[u])
    BY <1>7, <1>10, <1>11, <2>1, <2>2, WalkEquation, AttainedFrom
  <2>4. QED
    BY <2>3 DEF Least
<1>13. rest[e] = r[e].second - r[h].second
  <2>1. beyond(e)
    BY <1>1
  <2> HIDE DEF rest, beyond
  <2>2. QED
    BY <1>6, <2>1
\* No walk from s costs less, over the hop neither.
<1>14. /\ r[e].second = Least[<<s, e>>]
       /\ NoWorse(r[e].second, Walk[Cardinality(N)][<<s, e>>])
  BY <1>0, RowIsLeast DEF RowOK
<1>15. links[<<s, h>>] >= 0 /\ Least[<<h, e>>] >= 0 =>
            NoWorse(Walk[Cardinality(N)][<<s, e>>], links[<<s, h>>] + Least[<<h, e>>])
  <2> DEFINE n == Cardinality(N) - 1
  <2>1. n \in Nat /\ n + 1 = Cardinality(N) /\ IsMatrix(N, links) /\ IsFree(N, links)
    BY <1>0, LinkFacts
  <2>2. h \in N /\ s \in N
    BY <1>0, <1>1
  <2> HIDE DEF n, h
  <2>3. links[<<s, h>>] >= 0 /\ Walk[n][<<h, e>>] >= 0 =>
            NoWorse(Walk[n + 1][<<s, e>>], links[<<s, h>>] + Walk[n][<<h, e>>])
    BY <2>1, <2>2, WalkEquation, WalkFront
  <2>4. QED
    BY <2>1, <2>3 DEF Least, n
<1>16. \A f \in N : Least[<<h, f>>] \in CostOrNone /\ Walk[Cardinality(N)][<<s, f>>] \in CostOrNone
  <2>1. IsMatrix(N, links) /\ Cardinality(N) \in Nat /\ Cardinality(N) - 1 \in Nat
    BY <1>0, LinkFacts
  <2>2. \A f \in N : Walk[Cardinality(N) - 1][<<h, f>>] \in CostOrNone
    BY <1>1, <2>1, WalkEquation, WalkSteps
  <2>3. \A f \in N : Walk[Cardinality(N)][<<s, f>>] \in CostOrNone
    BY <1>0, <2>1, WalkEquation, WalkSteps
  <2>4. QED
    BY <2>2, <2>3 DEF Least
<1> DEFINE a == links[<<s, h>>]
           b == Least[<<h, e>>]
           c == r[e].second
           w == Walk[Cardinality(N)][<<s, e>>]
<1>17. /\ a \in Nat \ {0} /\ c \in Nat /\ b \in CostOrNone /\ w \in CostOrNone
       /\ NoWorse(b, c - a) /\ NoWorse(c, w) /\ (a >= 0 /\ b >= 0 => NoWorse(w, a + b))
       /\ a <= c
  <2>1. a \in Nat \ {0} /\ b \in CostOrNone /\ w \in CostOrNone /\ c \in Int
    BY <1>1, <1>2, <1>4, <1>16
  <2>2. NoWorse(b, c - a) /\ a \in 0..c
    BY <1>1, <1>4, <1>12, <1>13
  <2>3. NoWorse(c, w) /\ (a >= 0 /\ b >= 0 => NoWorse(w, a + b)) /\ c >= 0
    BY <1>1, <1>14, <1>15
  <2> HIDE DEF a, b, c, w
  <2>4. QED
    BY <2>1, <2>2, <2>3
<1>18. h \in N \ {s} /\ c = Least[<<s, e>>]
  BY <1>1, <1>14
<1> HIDE DEF a, b, c, w, h, r
<1>19. a >= 0 /\ c - a >= 0 /\ b \in Int /\ w \in Int
  BY <1>17, CostFacts
<1>20. b \in 0..(c - a)
  BY <1>17, <1>19 DEF NoWorse
<1>21. b \in Nat /\ b >= 0 /\ a + b >= 0
  BY <1>17, <1>19, <1>20
<1>22. w \in 0..(a + b)
  BY <1>17, <1>19, <1>21 DEF NoWorse
<1>23. c \in 0..w
  BY <1>17, <1>19, <1>21, <1>22 DEF NoWorse
<1>24. c = a + b
  BY <1>17, <1>19, <1>20, <1>21, <1>22, <1>23
<1>25. QED
  BY <1>17, <1>18, <1>21, <1>24 DEF a, b, c, h

----------------------------------------------------------------------------
(***************************************************************************)
(* The invariant of the program, when no file names the last node.         *)
(***************************************************************************)
RouteInv == RowsInv /\ LinksOK /\ MatrixInv

LEMMA RouteInit == Init => RouteInv
<1> SUFFICES ASSUME Init PROVE RouteInv
  OBVIOUS
<1>1. RoutingInit
  BY DEF Init
<1>2. MatrixInv
  BY <1>1, MatrixStarts
<1>3. QED
  BY <1>1, <1>2, RowsInit, LinksStart DEF RouteInv

LEMMA RouteNext ==
    ASSUME LastUnused, RouteInv, [Next]_vars
    PROVE  RouteInv'
<1>0. /\ p \in [Ids \X Ids -> CostOrNone] /\ links \in [Ids \X Ids -> CostOrNone]
      /\ LinksOK /\ MatrixInv
  BY DEF RouteInv, RowsInv, MatrixOK, LinksOK
<1>1. RowsInv'
  BY RowsNext DEF RouteInv
<1>2. ASSUME NEW e \in Pairs, NEW cost \in Costs \cup {VAL_INF},
             iter_node' \subseteq iter_node \cup {e[1], e[2]},
             p' = Connected(p, e, cost), links' = Connected(links, e, cost)
      PROVE  LinksOK' /\ MatrixInv'
  BY <1>0, <1>2, LineKeepsLinks, LineKeepsMatrix
<1>3. CASE ReadLine
  <2>1. PICK e \in Pairs, cost \in Costs :
            /\ iter_node' = iter_node \cup {e[1], e[2]}
            /\ p' = Connected(p, e, cost)
            /\ links' = Connected(links, e, cost)
    BY <1>3 DEF ReadLine, read_top
  <2>2. cost \in Costs \cup {VAL_INF} /\ iter_node' \subseteq iter_node \cup {e[1], e[2]}
    BY <2>1
  <2>3. QED
    BY <1>1, <1>2, <2>1, <2>2 DEF RouteInv
<1>4. CASE Change
  <2>1. PICK e \in Pairs, cost \in Costs \cup {VAL_INF} :
            /\ p' = Connected(p, e, cost)
            /\ links' = Connected(links, e, cost)
    BY <1>4 DEF Change, change_top, Changed
  <2>2. iter_node' \subseteq iter_node \cup {e[1], e[2]}
    BY <1>4 DEF Change, change_top
  <2>3. QED
    BY <1>1, <1>2, <2>1, <2>2 DEF RouteInv
\* The nodes up to the largest one are not the last one either.
<1>5. CASE ReadEnd
  <2>1. /\ iter_node # {} /\ iter_node' = iter_node \cup 1..node_num
        /\ p' = p /\ links' = links
    BY <1>5 DEF ReadEnd
  <2>2. iter_node \subseteq Ids /\ MAX_NODE \notin iter_node
    BY <1>0 DEF MatrixInv
  <2>3. node_num \in iter_node /\ node_num \in Ids
    BY <2>1, <2>2, MaxOfNodes DEF node_num
  <2>4. 1..node_num \subseteq Ids \ {MAX_NODE}
    <3> DEFINE n == node_num
    <3>1. n \in Ids /\ n # MAX_NODE
      BY <2>2, <2>3
    <3> HIDE DEF n
    <3>2. 1..n \subseteq Ids \ {MAX_NODE}
      BY <3>1, RoutingAssumption DEF Ids
    <3>3. QED
      BY <3>2 DEF n
  <2>5. iter_node' \subseteq Ids' \ {MAX_NODE}
    BY <2>1, <2>2, <2>4 DEF Ids
  <2>6. MatrixInv'
    BY <1>0, <2>1, <2>5 DEF MatrixInv, Ids
  <2>7. LinksOK'
    BY <1>0, <2>1 DEF LinksOK, Ids, CostOrNone, VAL_INF
  <2>8. QED
    BY <1>1, <2>6, <2>7 DEF RouteInv
<1>6. ASSUME UNCHANGED <<p, links, iter_node>>
      PROVE  RouteInv'
  <2>1. MatrixInv' /\ LinksOK'
    BY <1>0, <1>6 DEF MatrixInv, LinksOK, Ids, CostOrNone, VAL_INF
  <2>2. QED
    BY <1>1, <2>1 DEF RouteInv
<1>7. QED
  BY <1>3, <1>4, <1>5, <1>6 DEF Next, Iterate, NextStart, Backtrace, SendMessages,
                                Send, Forward, Deliver, vars, routingVars

\* So every row that was computed is right with respect to the files.
LEMMA RowsOK ==
    ASSUME RouteInv, phase # "reading", NEW s \in iter_node,
           phase # "computing" \/ s < start
    PROVE  RowOK(s)
<1>1. RightRow(iter_node, p, Row(s), s) /\ IsRow(iter_node, Row(s))
  <2>1. MatrixOK /\ NodesOK /\ DoneOK
    BY DEF RouteInv, RowsInv
  <2>2. QED
    BY <2>1, RowsAndMatrix DEF DoneOK, Row
<1>2. RightRow(iter_node, links, Row(s), s)
  BY <1>1, SameLinks DEF RouteInv, RightRow
<1>3. QED
  BY <1>1, <1>2 DEF RowOK, RouteInv

LEMMA RowEntries == \A s, e \in iter_node : Row(s)[e] = ctable[<<s, e>>]
  BY DEF Row, RowOf

\* While the algorithm runs, a visited node has its final cost, and no other has
\* one below the least (the loop over k of dj_foward_table()).
THEOREM VisitedAreSettled ==
    ASSUME LastUnused
    PROVE  Spec => []VisitedIsSettled
<1>1. RouteInv => VisitedIsSettled
  <2>1. SUFFICES ASSUME RouteInv, phase = "computing"
                 PROVE  \A e \in iter_node :
                            /\ e \in vis => ctable[<<start, e>>].second = Least[<<start, e>>]
                            /\ ctable[<<start, e>>].second >= 0 =>
                                    Least[<<start, e>>] \in 0..ctable[<<start, e>>].second
    BY DEF VisitedIsSettled
  <2>2. /\ LinksOK /\ MatrixInv /\ start \in iter_node
        /\ Between(iter_node, p, Row(start), start, vis, min_node)
        /\ IsRow(iter_node, Row(start))
    <3>1. MatrixOK /\ NodesOK /\ TurnsOK
      BY <2>1 DEF RouteInv, RowsInv
    <3>2. start \in iter_node
      BY <2>1, <3>1 DEF NodesOK
    <3>3. QED
      BY <2>1, <3>1, <3>2, RowsAndMatrix DEF TurnsOK, TurnOK, Row, RouteInv
  <2>3. Between(iter_node, links, Row(start), start, vis, min_node)
    <3>1. vis \subseteq iter_node
      BY <2>2 DEF Between
    <3>2. QED
      BY <2>2, <3>1, SameLinks DEF Between
  <2>4. /\ \A e \in vis : Row(start)[e].second = Least[<<start, e>>]
        /\ \A e \in iter_node : NoWorse(Least[<<start, e>>], Row(start)[e].second)
    BY <2>2, <2>3, VisitedAreLeast
  <2>5. QED
    BY <2>2, <2>4, RowEntries DEF NoWorse
<1>2. RouteInv /\ [Next]_vars => RouteInv'
  BY RouteNext
<1>3. QED
  BY RouteInit, <1>1, <1>2, PTL DEF Spec

----------------------------------------------------------------------------
(***************************************************************************)
(* The forwarding tables.                                                  *)
(***************************************************************************)
Forwarding(s, e) ==
    IF ctable[<<s, e>>].second >= 0
    THEN [ctable[<<s, e>>] EXCEPT !.first = Hop(s, e)]
    ELSE ctable[<<s, e>>]

TableInv ==
    Computed =>
        /\ table \in [iter_node \X iter_node -> [first : iter_node, second : CostOrNone]]
        /\ \A s, e \in iter_node : table[<<s, e>>] = Forwarding(s, e)

LEMMA TableMade ==
    ASSUME RouteInv, phase = "computing", Backtrace
    PROVE  TableInv'
<1>1. /\ iter_node' = iter_node /\ ctable' = ctable
      /\ table' = [e \in iter_node \X iter_node |->
                    IF ctable[e].second >= 0
                    THEN [ctable[e] EXCEPT !.first = Hop(e[1], e[2])]
                    ELSE ctable[e]]
  BY DEF Backtrace, ctableVars
<1>2. RouteInv' /\ Computed'
  <2>1. RowsInv'
    BY RowsBacktrace DEF RouteInv
  <2>2. /\ p' = p /\ links' = links /\ LinksOK /\ MatrixInv
        /\ phase' = "sending"
    BY DEF Backtrace, RouteInv
  <2>3. MatrixInv' /\ LinksOK'
    BY <1>1, <2>2 DEF MatrixInv, LinksOK, Ids, CostOrNone, VAL_INF
  <2>4. QED
    BY <2>1, <2>2, <2>3 DEF RouteInv, Computed
<1>3. \A s, e \in iter_node : Hop(s, e)' = Hop(s, e)
  BY <1>1 DEF Hop
<1>4. \A s \in iter_node : RowOK(s)
  <2>1. ASSUME NEW s \in iter_node
        PROVE  RowOK(s)
    <3>1. RightRow(iter_node, p, Row(s), s)
      <4>1. s \in iter_node' /\ phase' # "reading" /\ phase' # "computing"
        BY <1>1, <1>2 DEF Computed
      <4>2. RightRow(iter_node', p', RowOf(ctable', iter_node', s), s)
        BY <1>2, <4>1 DEF RouteInv, RowsInv, DoneOK
      <4>3. p' = p
        BY DEF Backtrace
      <4>4. QED
        BY <1>1, <4>2, <4>3 DEF Row
    <3>2. IsRow(iter_node, Row(s))
      BY RowsAndMatrix DEF RouteInv, RowsInv, Row
    <3>3. RightRow(iter_node, links, Row(s), s)
      BY <3>1, SameLinks DEF RouteInv, RightRow
    <3>4. QED
      BY <3>2, <3>3 DEF RowOK, RouteInv
  <2>2. QED
    BY <2>1
<1>5. \A s, e \in iter_node :
        /\ ctable[<<s, e>>] \in [first : iter_node, second : CostOrNone]
        /\ ctable[<<s, e>>].second >= 0 => Hop(s, e) \in iter_node
  <2>1. TAKE s \in iter_node, e \in iter_node
  <2>2. ctable[<<s, e>>] \in [first : iter_node, second : CostOrNone]
    BY DEF RouteInv, RowsInv, NodesOK
  <2>3. ASSUME ctable[<<s, e>>].second >= 0
        PROVE  Hop(s, e) \in iter_node
    <3>1. Row(s)[e].second >= 0 /\ RowOK(s)
      BY <1>4, <2>3, RowEntries
    <3>2. CASE e = s
      BY <3>1, <3>2, HopFacts
    <3>3. CASE e # s
      BY <3>1, <3>3, HopFacts
    <3>4. QED
      BY <3>2, <3>3
  <2>4. QED
    BY <2>2, <2>3
<1>6. \A s, e \in iter_node :
        Forwarding(s, e) \in [first : iter_node, second : CostOrNone]
  <2>1. \A x \in [first : iter_node, second : CostOrNone], h \in iter_node :
            [x EXCEPT !.first = h] \in [first : iter_node, second : CostOrNone]
    OBVIOUS
  <2>2. TAKE s \in iter_node, e \in iter_node
  <2>3. CASE ctable[<<s, e>>].second >= 0
    BY <1>5, <2>1, <2>3 DEF Forwarding
  <2>4. CASE ~ (ctable[<<s, e>>].second >= 0)
    BY <1>5, <2>4 DEF Forwarding
  <2>5. QED
    BY <2>3, <2>4
<1>7. \A s, e \in iter_node : table'[<<s, e>>] = Forwarding(s, e)
  <2>1. TAKE s \in iter_node, e \in iter_node
  <2> DEFINE at == <<s, e>>
  <2>2. at \in iter_node \X iter_node /\ at[1] = s /\ at[2] = e
    OBVIOUS
  <2> HIDE DEF at
  <2>3. table'[at] = IF ctable[at].second >= 0
                     THEN [ctable[at] EXCEPT !.first = Hop(s, e)] ELSE ctable[at]
    BY <1>1, <2>2
  <2>4. QED
    BY <2>3 DEF Forwarding, at
<1>8. table' \in [iter_node \X iter_node -> [first : iter_node, second : CostOrNone]]
  <2>1. table' = [e \in iter_node \X iter_node |-> table'[e]]
    BY <1>1
  <2>2. \A e \in iter_node \X iter_node : table'[e] \in [first : iter_node, second : CostOrNone]
    <3>1. TAKE e \in iter_node \X iter_node
    <3>2. PICK i \in iter_node, j \in iter_node : e = <<i, j>>
      OBVIOUS
    <3>3. QED
      BY <1>6, <1>7, <3>2
  <2>3. QED
    BY <2>1, <2>2
<1>9. \A s, e \in iter_node : Forwarding(s, e)' = Forwarding(s, e)
  BY <1>1, <1>3 DEF Forwarding
<1>10. \A s, e \in iter_node' : table'[<<s, e>>] = Forwarding(s, e)'
  <2>1. TAKE s \in iter_node', e \in iter_node'
  <2>2. s \in iter_node /\ e \in iter_node
    BY <1>1
  <2>3. Forwarding(s, e)' = Forwarding(s, e) /\ table'[<<s, e>>] = Forwarding(s, e)
    BY <1>7, <1>9, <2>2
  <2>4. QED
    BY <2>3
<1>11. table' \in [iter_node' \X iter_node' -> [first : iter_node', second : CostOrNone']]
  BY <1>1, <1>8 DEF CostOrNone, VAL_INF
<1>12. QED
  BY <1>10, <1>11 DEF TableInv

LEMMA TableInit == Init => TableInv
  BY DEF Init, RoutingInit, TableInv, Computed

LEMMA TableNext ==
    ASSUME RouteInv, TableInv, [Next]_vars
    PROVE  TableInv'
<1>1. CASE Backtrace
  <2>1. phase = "computing"
    BY <1>1 DEF Backtrace
  <2>2. QED
    BY <1>1, <2>1, TableMade
<1>2. ASSUME phase' \in {"reading", "computing"}
      PROVE  TableInv'
  BY <1>2 DEF TableInv, Computed
<1>3. ASSUME UNCHANGED <<table, ctable, iter_node>>, Computed' => Computed
      PROVE  TableInv'
  <2>1. \A s, e \in iter_node : Forwarding(s, e)' = Forwarding(s, e)
    BY <1>3 DEF Forwarding, Hop
  <2>2. QED
    BY <1>3, <2>1 DEF TableInv, CostOrNone, VAL_INF
<1>4. CASE ReadLine
  BY <1>2, <1>4 DEF ReadLine, read_top
<1>5. CASE ReadEnd \/ Iterate \/ NextStart \/ Change
  BY <1>2, <1>5 DEF ReadEnd, Iterate, NextStart, Change, change_top, routingVars
<1>6. CASE SendMessages
  BY <1>3, <1>6 DEF SendMessages, Send, Forward, Deliver, ctableVars, Computed
<1>7. CASE UNCHANGED vars
  BY <1>3, <1>7 DEF vars, routingVars, ctableVars, Computed
<1>8. QED
  BY <1>1, <1>4, <1>5, <1>6, <1>7 DEF Next

----------------------------------------------------------------------------
\* The variables of the loop over k.
LoopOK ==
    phase # "reading" =>
        /\ vis \subseteq iter_node
        /\ min_node \in vis
        /\ min_cost \in 0..INF
        /\ k \in 1..node_num

\* A message that is forwarded is between nodes.
MessageOK ==
    /\ msg \in [at : iter_node \cup {0}, to : iter_node \cup {0}, cost : Nat, paid : Int]
    /\ phase = "forwarding" => msg.at \in iter_node /\ msg.to \in iter_node

TypeInv == RouteInv /\ TableInv /\ LoopOK /\ MessageOK

LEMMA LoopFromTurns == RouteInv /\ phase = "computing" => LoopOK
<1> SUFFICES ASSUME RouteInv, phase = "computing" PROVE LoopOK
  OBVIOUS
<1> DEFINE c == RowOf(ctable, iter_node, start)[min_node].second
<1>1. /\ Between(iter_node, p, RowOf(ctable, iter_node, start), start, vis, min_node)
      /\ min_cost = c \/ min_cost = INF
      /\ k \in 1..node_num
  BY DEF RouteInv, RowsInv, TurnsOK, TurnOK
<1>2. vis \subseteq iter_node /\ min_node \in vis /\ c \in 0..(INF - 1)
  BY <1>1 DEF Between
<1> HIDE DEF c
<1>3. min_cost \in 0..INF
  BY <1>1, <1>2, RoutingAssumption
<1>4. QED
  BY <1>1, <1>2, <1>3 DEF LoopOK

LEMMA TypeInit == Init => TypeInv
<1> SUFFICES ASSUME Init PROVE TypeInv
  OBVIOUS
<1>1. LoopOK /\ MessageOK
  BY DEF Init, RoutingInit, LoopOK, MessageOK, NoMessage
<1>2. QED
  BY <1>1, RouteInit, TableInit DEF TypeInv

LEMMA TypeNext == LastUnused /\ TypeInv /\ [Next]_vars => TypeInv'
<1> SUFFICES ASSUME LastUnused, TypeInv, [Next]_vars PROVE TypeInv'
  OBVIOUS
<1>1. RouteInv' /\ TableInv'
  BY RouteNext, TableNext DEF TypeInv
<1>2. LoopOK'
  <2>1. CASE phase' = "computing"
    <3>1. (RouteInv /\ phase = "computing" => LoopOK)'
      BY LoopFromTurns, PTL
    <3>2. QED
      BY <1>1, <2>1, <3>1
  <2>2. CASE phase' = "reading"
    BY <2>2 DEF LoopOK
  <2>3. ASSUME UNCHANGED <<iter_node, vis, min_node, min_cost, k>>, phase # "reading"
        PROVE  LoopOK'
    BY <2>3 DEF TypeInv, LoopOK, node_num
  <2>4. CASE Backtrace \/ SendMessages
    BY <2>3, <2>4 DEF Backtrace, SendMessages, Send, Forward, Deliver, ctableVars
  <2>5. CASE UNCHANGED vars
    BY <2>2, <2>3, <2>5 DEF vars, routingVars, ctableVars
  <2>6. QED
    BY <2>1, <2>2, <2>4, <2>5 DEF Next, ReadLine, read_top, ReadEnd, Iterate, NextStart,
                                  Change, change_top, routingVars
<1>3. MessageOK'
  <2>1. ASSUME iter_node \subseteq iter_node', msg' = msg, phase' # "forwarding" \/ phase' = phase
        PROVE  MessageOK'
    BY <2>1 DEF TypeInv, MessageOK
  <2>2. CASE Send
    <3>1. PICK s \in iter_node, e \in iter_node :
            /\ table[<<s, e>>].second > 0
            /\ msg' = [at |-> s, to |-> e, cost |-> table[<<s, e>>].second, paid |-> 0]
      BY <2>2 DEF Send
    <3>2. iter_node' = iter_node /\ table[<<s, e>>].second \in CostOrNone
      BY <2>2 DEF Send, TypeInv, TableInv, Computed
    <3>3. \A x \in CostOrNone : x > 0 => x \in Nat
      BY DEF CostOrNone, VAL_INF
    <3>4. QED
      BY <3>1, <3>2, <3>3 DEF MessageOK
  <2>3. CASE Forward
    <3> DEFINE at == msg.at
               to == msg.to
               next == table[<<at, to>>].first
               paid == Min({INF, msg.paid + links[<<at, next>>]})
    <3>1. /\ at \in iter_node /\ to \in iter_node /\ iter_node' = iter_node /\ phase' = phase
          /\ msg \in [at : iter_node \cup {0}, to : iter_node \cup {0}, cost : Nat, paid : Int]
          /\ msg' = [msg EXCEPT !.at = next, !.paid = paid]
      BY <2>3 DEF Forward, TypeInv, MessageOK
    <3>2. next \in iter_node
      <4>1. table[<<at, to>>] \in [first : iter_node, second : CostOrNone]
        BY <2>3, <3>1 DEF Forward, TypeInv, TableInv, Computed
      <4>2. QED
        BY <4>1
    <3>3. paid \in Int
      <4>1. links[<<at, next>>] \in CostOrNone
        BY <3>1, <3>2 DEF TypeInv, RouteInv, RowsInv, MatrixOK, LinksOK
      <4>2. INF \in Int /\ msg.paid + links[<<at, next>>] \in Int
        BY <3>1, <4>1, CostFacts, RoutingAssumption
      <4>3. QED
        BY <4>2, MinOfTwo
    <3> HIDE DEF next, paid
    <3>4. msg'.at = next /\ msg'.to = to
      BY <3>1
    <3>5. msg' \in [at : iter_node \cup {0}, to : iter_node \cup {0}, cost : Nat, paid : Int]
      BY <3>1, <3>2, <3>3
    <3>6. QED
      BY <3>1, <3>2, <3>4, <3>5 DEF MessageOK
  <2>4. CASE Deliver
    BY <2>4 DEF Deliver, MessageOK, NoMessage
  <2>5. CASE ReadLine
    BY <2>1, <2>5 DEF ReadLine, read_top
  <2>6. QED
    BY <2>1, <2>2, <2>3, <2>4, <2>5
       DEF Next, ReadEnd, Iterate, NextStart, Backtrace, SendMessages, Change, change_top,
           vars, routingVars
<1>4. QED
  BY <1>1, <1>2, <1>3 DEF TypeInv

\* The matrices, the rows, the tables, the loops and the messages have their types: above
\* all, the walk back along the predecessors ends at a node.
THEOREM TypeCorrectness ==
    ASSUME LastUnused
    PROVE  Spec => []TypeOK
<1>1. TypeInv => TypeOK
  BY DEF TypeInv, RouteInv, RowsInv, MatrixOK, NodesOK, LinksOK, TableInv, LoopOK, MessageOK,
         TypeOK, RoutingTypeOK, CostOrNone
<1>2. TypeInv /\ [Next]_vars => TypeInv'
  BY TypeNext
<1>3. QED
  BY TypeInit, <1>1, <1>2, PTL DEF Spec

----------------------------------------------------------------------------
\* What the tables hold, where routes cost less than INF.
LEMMA TableFacts ==
    ASSUME RoutesBelowINF, RouteInv, TableInv, Computed, NEW s \in iter_node, NEW e \in iter_node
    PROVE  /\ RowOK(s)
           /\ table[<<s, e>>].second = Least[<<s, e>>]
           /\ ctable[<<s, e>>].second = Least[<<s, e>>]
           /\ table[<<s, e>>].second \in CostOrNone
           /\ table[<<s, e>>].second >= 0 => table[<<s, e>>].second \in 0..(INF - 1)
           /\ s = e => table[<<s, e>>].second = 0
           /\ table[<<s, e>>].second >= 0 => table[<<s, e>>].first = Hop(s, e)
<1>1. phase # "reading" /\ phase # "computing"
  BY DEF Computed
<1>2. RowOK(s)
  BY <1>1, RowsOK
<1>3. /\ table[<<s, e>>] = Forwarding(s, e)
      /\ table[<<s, e>>] \in [first : iter_node, second : CostOrNone]
      /\ ctable[<<s, e>>] \in [first : iter_node, second : CostOrNone]
  BY <1>1 DEF TableInv, RouteInv, RowsInv, NodesOK
<1>4. /\ table[<<s, e>>].second = ctable[<<s, e>>].second
      /\ ctable[<<s, e>>].second >= 0 => table[<<s, e>>].first = Hop(s, e)
  <2>1. CASE ctable[<<s, e>>].second >= 0
    <3>1. \A h : \A x \in [first : iter_node, second : CostOrNone] :
            /\ [x EXCEPT !.first = h].first = h
            /\ [x EXCEPT !.first = h].second = x.second
      OBVIOUS
    <3>2. table[<<s, e>>] = [ctable[<<s, e>>] EXCEPT !.first = Hop(s, e)]
      BY <1>3, <2>1 DEF Forwarding
    <3>3. QED
      BY <1>3, <3>1, <3>2
  <2>2. CASE ~ (ctable[<<s, e>>].second >= 0)
    BY <1>3, <2>2 DEF Forwarding
  <2>3. QED
    BY <2>1, <2>2
<1>5. /\ Row(s)[e].second = Least[<<s, e>>]
      /\ Row(s)[e].second >= 0 => Row(s)[e].second \in 0..(INF - 1)
  BY <1>2, RowIsLeast DEF RowOK
<1>6. Row(s)[e].second = ctable[<<s, e>>].second
  BY RowEntries
<1>7. s = e => Row(s)[e].second = 0
  BY <1>2 DEF RowOK, RightRow
<1>8. table[<<s, e>>].second \in CostOrNone
  BY <1>3
<1>9. QED
  BY <1>2, <1>4, <1>5, <1>6, <1>7, <1>8

\* The tables hold the least costs of all routes along the links of the files, after
\* the topology was read and after every change.
THEOREM TablesAreLeast ==
    ASSUME LastUnused, RoutesBelowINF
    PROVE  Spec => []CostsAreLeast
<1>1. TypeInv => CostsAreLeast
  BY TableFacts DEF TypeInv, CostsAreLeast
<1>2. TypeInv /\ [Next]_vars => TypeInv'
  BY TypeNext
<1>3. QED
  BY TypeInit, <1>1, <1>2, PTL DEF Spec

\* The nodes that account for the cost of e in the row of s.
Predecessors(s, e) ==
    {v \in iter_node \ {e} :
        /\ ctable[<<s, v>>].second >= 0 /\ links[<<v, e>>] >= 0
        /\ ctable[<<s, v>>].second + links[<<v, e>>] = ctable[<<s, e>>].second}

\* Of the routes of least cost, the row has the one whose last node but one has the
\* smallest number (the comparison of ctable entries in dj_foward_table()).
THEOREM PredecessorsAreSmallest ==
    ASSUME LastUnused, RoutesBelowINF
    PROVE  Spec => []SmallestPredecessor
<1>1. TypeInv => SmallestPredecessor
  <2>1. SUFFICES ASSUME TypeInv, phase = "sending",
                        NEW s \in iter_node, NEW e \in iter_node, s # e,
                        ctable[<<s, e>>].second >= 0
                 PROVE  ctable[<<s, e>>].first = Min(Predecessors(s, e))
    BY DEF SmallestPredecessor, Predecessors
  <2> DEFINE first == ctable[<<s, e>>].first
             Q == Predecessors(s, e)
  <2>2. RowOK(s) /\ LinksOK /\ MatrixInv /\ Numbered(iter_node)
    <3>1. RowOK(s) /\ LinksOK /\ MatrixInv
      BY <2>1, RowsOK DEF TypeInv, RouteInv
    <3>2. Numbered(iter_node)
      BY <2>1, RowsAndMatrix DEF TypeInv, RouteInv, RowsInv
    <3>3. QED
      BY <3>1, <3>2
  <2>3. \A v \in iter_node : Row(s)[v] = ctable[<<s, v>>]
    BY RowEntries
  <2>4. first \in Q
    <3>1. /\ first \in iter_node \ {e} /\ links[<<first, e>>] \in Nat \ {0}
          /\ Row(s)[first].second \in Nat
          /\ Row(s)[e].second = Row(s)[first].second + links[<<first, e>>]
      BY <2>1, <2>2, <2>3, RowSteps
    <3>2. \A x \in Nat : x >= 0
      OBVIOUS
    <3>3. QED
      BY <2>3, <3>1, <3>2 DEF Predecessors
  <2>5. ASSUME NEW v \in Q
        PROVE  first <= v
    <3>1. /\ v \in iter_node /\ v # e /\ ctable[<<s, v>>].second >= 0 /\ links[<<v, e>>] >= 0
          /\ ctable[<<s, e>>].second = ctable[<<s, v>>].second + links[<<v, e>>]
      BY DEF Predecessors
    <3>2. links[<<v, e>>] > 0
      BY <2>2, <3>1, LinkFacts
    <3>3. Row(s)[v].second \in 0..(INF - 1)
      BY <2>2, <2>3, <3>1, RowIsLeast DEF RowOK
    <3>4. Smallest(iter_node, links, Row(s), v)
      BY <2>2, <3>1, <3>3 DEF RowOK, RightRow
    <3>5. QED
      BY <2>3, <3>1, <3>2, <3>4 DEF Smallest
  <2>6. Q \in SUBSET Nat /\ Q # {}
    BY <2>2, <2>4 DEF Predecessors, Numbered
  <2>7. Min(Q) \in Q /\ Min(Q) <= first
    BY <2>4, <2>6, MinOfNaturals
  <2> HIDE DEF first, Q
  <2>8. first <= Min(Q) /\ first \in Nat /\ Min(Q) \in Nat
    BY <2>4, <2>5, <2>6, <2>7
  <2>9. first = Min(Q)
    BY <2>7, <2>8
  <2>10. QED
    BY <2>9 DEF first, Q
<1>2. TypeInv /\ [Next]_vars => TypeInv'
  BY TypeNext
<1>3. QED
  BY TypeInit, <1>1, <1>2, PTL DEF Spec

----------------------------------------------------------------------------
(***************************************************************************)
(* The messages.                                                           *)
(***************************************************************************)
PaysInv == TypeInv /\ Pays

\* The tables of different nodes agree on the rest of the way.
LEMMA HopsAccount ==
    ASSUME RoutesBelowINF, TypeInv, Computed, NEW s \in iter_node, NEW e \in iter_node, s # e,
           table[<<s, e>>].second \in Nat
    PROVE  HopAccounts(s, e)
<1> DEFINE h == Hop(s, e)
<1>0. RouteInv /\ TableInv
  BY DEF TypeInv
<1>1. \A x \in Nat : x >= 0
  OBVIOUS
<1>2. /\ RowOK(s) /\ table[<<s, e>>].first = h
      /\ table[<<s, e>>].second = Least[<<s, e>>]
      /\ ctable[<<s, e>>].second = Least[<<s, e>>]
  BY <1>0, <1>1, TableFacts
<1>3. Row(s)[e].second >= 0
  BY <1>1, <1>2, RowEntries
<1>4. /\ h \in iter_node /\ links[<<s, h>>] \in Nat \ {0} /\ Least[<<h, e>>] \in Nat
      /\ Least[<<s, e>>] = links[<<s, h>>] + Least[<<h, e>>]
  BY <1>2, <1>3, HopSplits
<1>5. table[<<h, e>>].second = Least[<<h, e>>]
  BY <1>0, <1>4, TableFacts
<1>6. QED
  BY <1>2, <1>4, <1>5 DEF HopAccounts

LEMMA PaysInit == Init => PaysInv
  BY TypeInit DEF Init, RoutingInit, PaysInv, Pays

LEMMA PaysForward ==
    ASSUME RoutesBelowINF, PaysInv, Forward
    PROVE  Pays' /\ Remaining' \in Nat /\ Remaining' < Remaining
<1>1. /\ msg \in [at : iter_node, to : iter_node, cost : 0..(INF - 1), paid : Nat]
      /\ Remaining \in Nat /\ msg.at # msg.to /\ Computed
  BY DEF Forward, PaysInv, Pays, Computed
<1>2. msg.at \in iter_node /\ msg.to \in iter_node
  BY <1>1
<1>3. HopAccounts(msg.at, msg.to)
  BY <1>1, <1>2, HopsAccount DEF PaysInv, Remaining
<1>4. QED
  BY <1>3, ForwardPays DEF PaysInv

LEMMA PaysNext ==
    ASSUME LastUnused, RoutesBelowINF, PaysInv, [Next]_vars
    PROVE  PaysInv'
<1>1. TypeInv'
  BY TypeNext DEF PaysInv
<1>2. CASE Send
  <2>1. Computed /\ RouteInv /\ TableInv
    BY <1>2 DEF Send, Computed, PaysInv, TypeInv
  <2>2. ASSUME NEW s \in iter_node, NEW e \in iter_node, table[<<s, e>>].second > 0
        PROVE  table[<<s, e>>].second \in 0..(INF - 1)
    <3>1. \A x \in CostOrNone : x > 0 => x >= 0
      BY CostFacts
    <3>2. QED
      BY <2>1, <2>2, <3>1, TableFacts
  <2>3. QED
    BY <1>1, <1>2, <2>2, SendPays DEF PaysInv
<1>3. CASE Forward
  BY <1>1, <1>3, PaysForward DEF PaysInv
<1>4. ASSUME phase' # "forwarding" \/ UNCHANGED <<phase, iter_node, table, msg>>
      PROVE  PaysInv'
  BY <1>1, <1>4 DEF PaysInv, Pays, Remaining
<1>5. QED
  BY <1>2, <1>3, <1>4 DEF Next, ReadLine, read_top, ReadEnd, Iterate, NextStart, Backtrace,
                          SendMessages, Deliver, Change, change_top, vars, routingVars

\* A message that each node forwards by its own row pays in all what the row of
\* its first node said (the hops of dj_foward_table(), which are those of different
\* runs of the algorithm).
THEOREM MessagesPay ==
    ASSUME LastUnused, RoutesBelowINF
    PROVE  Spec => []MessagePaysItsCost
<1>1. PaysInv => MessagePaysItsCost
  <2>1. SUFFICES ASSUME PaysInv PROVE MessagePaysItsCost
    OBVIOUS
  <2>2. phase = "forwarding" => \A e \in iter_node : table[<<e, e>>].second = 0
    BY <2>1, TableFacts DEF PaysInv, TypeInv, Computed
  <2>3. QED
    BY <2>1, <2>2, PaysItsCost DEF PaysInv
<1>2. PaysInv /\ [Next]_vars => PaysInv'
  BY PaysNext
<1>3. QED
  BY PaysInit, <1>1, <1>2, PTL DEF Spec

\* A message never loops: every node that forwards it hands it to one that has less
\* to pay for the rest of its way, and the costs are natural numbers.
THEOREM MessagesNeverLoop ==
    ASSUME LastUnused, RoutesBelowINF
    PROVE  Spec => [][Forward => Remaining' \in Nat /\ Remaining' < Remaining]_vars
<1>1. PaysInv /\ [Next]_vars => PaysInv'
  BY PaysNext
<1>2. PaysInv /\ [Next]_vars
        => [Forward => Remaining' \in Nat /\ Remaining' < Remaining]_vars
  BY PaysForward
<1>3. QED
  BY PaysInit, <1>1, <1>2, PTL DEF Spec

============================================================================
