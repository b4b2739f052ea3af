--------------------------- MODULE Routing_proofs ---------------------------
(***************************************************************************)
(* What the proofs about the two routing programs need in common: least    *)
(* elements and induction over the natural numbers, the cost matrix, the   *)
(* least costs of walks with so many links, which do not improve any more  *)
(* when there are as many links as nodes, and messages on their way.       *)
(***************************************************************************)
EXTENDS Routing, FiniteSetTheorems, WellFoundedInduction, TLAPS

\* A set of natural numbers that is not empty has a least element.
LEMMA MinOfNaturals ==
    ASSUME NEW S \in SUBSET Nat, S # {}
    PROVE  /\ Min(S) \in S
           /\ \A y \in S : Min(S) <= y
<1> DEFINE R == OpToRel(<, Nat)
<1>1. IsWellFoundedOn(R, Nat)
  BY NatLessThanWellFounded
<1>2. \A x, y \in Nat : x < y => <<x, y>> \in R
  BY DEF OpToRel
<1> HIDE DEF R
<1>3. PICK x \in S : \A y \in S : <<y, x>> \notin R
  BY <1>1, WFMin
<1>4. \A y \in S : x <= y
  <2>1. TAKE y \in S
  <2>2. x \in Nat /\ y \in Nat /\ ~ (y < x)
    BY <1>2, <1>3
  <2>3. QED
    BY <2>2
<1>5. QED
  BY <1>4 DEF Min

\* Of two integers, the smaller one is one of them.
LEMMA MinOfTwo ==
    ASSUME NEW a \in Int, NEW b \in Int
    PROVE  Min({a, b}) \in Int /\ Min({a, b}) \in {a, b} /\ Min({a, b}) <= a /\ Min({a, b}) <= b
<1>1. \E x \in {a, b} : \A y \in {a, b} : x <= y
  OBVIOUS
<1>2. Min({a, b}) \in {a, b} /\ \A y \in {a, b} : Min({a, b}) <= y
  BY <1>1 DEF Min
<1>3. QED
  BY <1>2

----------------------------------------------------------------------------
CostOrNone == Nat \cup {VAL_INF}

LEMMA CostFacts ==
    /\ VAL_INF \in Int /\ VAL_INF < 0 /\ CostOrNone \subseteq Int
    /\ \A x \in CostOrNone : x >= 0 <=> x \in Nat
    /\ Costs \subseteq Nat \ {0}
    /\ Costs \cup {VAL_INF} \subseteq CostOrNone
    /\ \A e \in Pairs : /\ e = <<e[1], e[2]>> /\ e[1] \in Ids /\ e[2] \in Ids
                        /\ e[1] # e[2]
  BY RoutingAssumption DEF CostOrNone, VAL_INF

\* What one line of a file does to a place of a matrix.
Joined(matrix, e, cost, i, j) ==
    IF {i, j} = {e[1], e[2]} THEN cost ELSE matrix[<<i, j>>]

LEMMA ConnectedMatrix ==
    ASSUME NEW matrix \in [Ids \X Ids -> CostOrNone], NEW e \in Pairs,
           NEW cost \in Costs \cup {VAL_INF}
    PROVE  /\ Connected(matrix, e, cost) \in [Ids \X Ids -> CostOrNone]
           /\ \A i, j \in Ids :
                Connected(matrix, e, cost)[<<i, j>>] = Joined(matrix, e, cost, i, j)
<1>1. /\ e = <<e[1], e[2]>> /\ e[1] \in Ids /\ e[2] \in Ids /\ e[1] # e[2]
      /\ cost \in CostOrNone
  BY CostFacts
<1>2. Connected(matrix, e, cost) \in [Ids \X Ids -> CostOrNone]
  BY <1>1 DEF Connected
<1>3. ASSUME NEW i \in Ids, NEW j \in Ids
      PROVE  Connected(matrix, e, cost)[<<i, j>>] = Joined(matrix, e, cost, i, j)
  <2>1. {i, j} = {e[1], e[2]} <=> <<i, j>> = e \/ <<i, j>> = <<e[2], e[1]>>
    BY <1>1
  <2>2. QED
    BY <1>1, <2>1 DEF Connected, Joined
<1>4. QED
  BY <1>2, <1>3

\* No file names the last node.
LastUnused == \A e \in Pairs : MAX_NODE \notin {e[1], e[2]}

\* Between the other nodes the cost matrix is what the files say, and every link
\* costs something.
MatrixInv ==
    /\ iter_node \subseteq Ids \ {MAX_NODE}
    /\ \A i, j \in Ids \ {MAX_NODE} : p[<<i, j>>] = links[<<i, j>>]
    /\ \A i \in Ids : links[<<i, i>>] = 0
    /\ \A i, j \in Ids : i # j => links[<<i, j>>] # 0

LEMMA MatrixStarts == RoutingInit => MatrixInv
<1> SUFFICES ASSUME RoutingInit PROVE MatrixInv
  OBVIOUS
<1>1. \A i, j \in Ids : links[<<i, j>>] = IF i = j THEN 0 ELSE VAL_INF
  BY DEF RoutingInit
<1>2. \A i, j \in Ids : p[<<i, j>>] =
          IF i = j \/ MAX_NODE \in {i, j} THEN 0 ELSE VAL_INF
  BY DEF RoutingInit, init_top
<1>3. \A i, j \in Ids \ {MAX_NODE} : p[<<i, j>>] = links[<<i, j>>]
  BY <1>1, <1>2
<1>4. VAL_INF # 0
  BY DEF VAL_INF
<1>5. QED
  BY <1>1, <1>3, <1>4 DEF RoutingInit, MatrixInv

\* A line of a file, of the topology or of the changes, keeps both matrices so.
LEMMA LineKeepsMatrix ==
    ASSUME LastUnused, MatrixInv,
           p \in [Ids \X Ids -> CostOrNone], links \in [Ids \X Ids -> CostOrNone],
           NEW e \in Pairs, NEW cost \in Costs \cup {VAL_INF},
           iter_node' \subseteq iter_node \cup {e[1], e[2]},
           p' = Connected(p, e, cost), links' = Connected(links, e, cost)
    PROVE  MatrixInv'
<1>1. /\ e[1] \in Ids \ {MAX_NODE} /\ e[2] \in Ids \ {MAX_NODE} /\ e[1] # e[2]
      /\ cost # 0
  BY CostFacts DEF LastUnused, VAL_INF
<1>2. \A i, j \in Ids : /\ p'[<<i, j>>] = Joined(p, e, cost, i, j)
                         /\ links'[<<i, j>>] = Joined(links, e, cost, i, j)
  BY ConnectedMatrix
<1>3. \A i \in Ids : {i, i} # {e[1], e[2]}
  BY <1>1
<1>4. iter_node' \subseteq Ids \ {MAX_NODE}
  BY <1>1 DEF MatrixInv
<1>5. \A i, j \in Ids \ {MAX_NODE} : p'[<<i, j>>] = links'[<<i, j>>]
  <2>1. TAKE i \in Ids \ {MAX_NODE}, j \in Ids \ {MAX_NODE}
  <2>2. p[<<i, j>>] = links[<<i, j>>] /\ i \in Ids /\ j \in Ids
    BY DEF MatrixInv
  <2>3. /\ p'[<<i, j>>] = Joined(p, e, cost, i, j)
        /\ links'[<<i, j>>] = Joined(links, e, cost, i, j)
    BY <1>2, <2>2
  <2>4. Joined(p, e, cost, i, j) = Joined(links, e, cost, i, j)
    BY <2>2 DEF Joined
  <2>5. QED
    BY <2>3, <2>4
<1>6. \A i \in Ids : links'[<<i, i>>] = 0
  BY <1>2, <1>3 DEF MatrixInv, Joined
<1>7. \A i, j \in Ids : i # j => links'[<<i, j>>] # 0
  BY <1>1, <1>2 DEF MatrixInv, Joined
<1>8. Ids' = Ids
  BY DEF Ids
<1>9. QED
  BY <1>4, <1>5, <1>6, <1>7, <1>8 DEF MatrixInv

----------------------------------------------------------------------------
(***************************************************************************)
(* The reference.  A recursive function is a CHOOSE of one that satisfies  *)
(* its equation; that there is one has to be shown before it can be        *)
(* unfolded.                                                               *)
(***************************************************************************)

\* Induction, for a set of numbers.
LEMMA Induction ==
    ASSUME NEW S, 0 \in S, \A n \in Nat : n \in S => n + 1 \in S
    PROVE  Nat \subseteq S
<1>1. SUFFICES ASSUME Nat \ S # {}
               PROVE  FALSE
  OBVIOUS
<1> DEFINE m == Min(Nat \ S)
<1>2. m \in Nat \ S /\ \A y \in Nat \ S : m <= y
  BY <1>1, MinOfNaturals
<1> HIDE DEF m
<1>3. m # 0 /\ m - 1 \in Nat /\ (m - 1) + 1 = m /\ ~ (m <= m - 1)
  BY <1>2
<1>4. m - 1 \in S
  BY <1>2, <1>3
<1>5. QED
  BY <1>2, <1>3, <1>4

\* Function g has the costs of walks of up to k links.
UpTo(N, q, g, k) ==
    g = [n \in 0..k |-> IF n = 0 THEN NoLink(N) ELSE OneMore(N, q, g[n - 1])]

LEMMA UpToEquation ==
    ASSUME NEW N, NEW q, NEW k, NEW g, UpTo(N, q, g, k), NEW n \in 0..k
    PROVE  g[n] = IF n = 0 THEN NoLink(N) ELSE OneMore(N, q, g[n - 1])
<1> DEFINE h == [i \in 0..k |-> IF i = 0 THEN NoLink(N) ELSE OneMore(N, q, g[i - 1])]
<1>1. h[n] = IF n = 0 THEN NoLink(N) ELSE OneMore(N, q, g[n - 1])
  OBVIOUS
<1>2. g = h
  BY DEF UpTo
<1>3. QED
  BY <1>1, <1>2, Zenon

LEMMA UpToExists ==
    ASSUME NEW N, NEW q
    PROVE  \A k \in Nat : \E g : UpTo(N, q, g, k)
<1> DEFINE S == {k \in Nat : \E g : UpTo(N, q, g, k)}
<1>1. 0 \in S
  <2> DEFINE g == [n \in 0..0 |-> NoLink(N)]
  <2>1. \A n \in 0..0 : n = 0
    OBVIOUS
  <2>2. UpTo(N, q, g, 0)
    BY <2>1 DEF UpTo
  <2>3. QED
    BY <2>2
<1>2. ASSUME NEW k \in Nat, k \in S
      PROVE  k + 1 \in S
  <2>1. PICK g : UpTo(N, q, g, k)
    BY <1>2
  <2> DEFINE h == [n \in 0..(k + 1) |->
                    IF n = 0 THEN NoLink(N) ELSE OneMore(N, q, g[n - 1])]
  <2>2. \A n \in 0..k : h[n] = g[n]
    <3>1. TAKE n \in 0..k
    <3>2. n \in 0..(k + 1)
      OBVIOUS
    <3>3. h[n] = IF n = 0 THEN NoLink(N) ELSE OneMore(N, q, g[n - 1])
      BY <3>2
    <3>4. QED
      BY <2>1, <3>3, UpToEquation
  <2>3. \A n \in 0..(k + 1) : n # 0 => n - 1 \in 0..k
    OBVIOUS
  <2>4. \A n \in 0..(k + 1) : n # 0 => h[n - 1] = g[n - 1]
    BY <2>2, <2>3, Zenon
  <2>5. h = [n \in 0..(k + 1) |-> IF n = 0 THEN NoLink(N) ELSE OneMore(N, q, h[n - 1])]
    <3>1. SUFFICES ASSUME NEW n \in 0..(k + 1)
                   PROVE  (IF n = 0 THEN NoLink(N) ELSE OneMore(N, q, g[n - 1])) =
                          (IF n = 0 THEN NoLink(N) ELSE OneMore(N, q, h[n - 1]))
      BY Zenon
    <3> HIDE DEF h
    <3>2. QED
      BY <2>4, Zenon
  <2> HIDE DEF h
  <2>6. k + 1 \in Nat
    OBVIOUS
  <2>7. QED
    BY <2>5, <2>6, Zenon DEF UpTo
<1>3. Nat \subseteq S
  <2> HIDE DEF S
  <2>1. QED
    BY <1>1, <1>2, Induction
<1>4. QED
  BY <1>3

LEMMA UpToUnique ==
    ASSUME NEW N, NEW q, NEW g, NEW h, NEW k \in Nat, NEW l \in Nat,
           UpTo(N, q, g, k), UpTo(N, q, h, l)
    PROVE  \A n \in Nat : n <= k /\ n <= l => g[n] = h[n]
<1> DEFINE S == {n \in Nat : n <= k /\ n <= l => g[n] = h[n]}
<1>1. 0 \in S
  <2>1. 0 \in 0..k /\ 0 \in 0..l
    OBVIOUS
  <2>2. g[0] = NoLink(N) /\ h[0] = NoLink(N)
    BY <2>1, UpToEquation
  <2>3. QED
    BY <2>2
<1>2. ASSUME NEW n \in Nat, n \in S
      PROVE  n + 1 \in S
  <2>1. SUFFICES ASSUME n + 1 <= k, n + 1 <= l
                 PROVE  g[n + 1] = h[n + 1]
    OBVIOUS
  <2>2. n + 1 \in 0..k /\ n + 1 \in 0..l /\ n <= k /\ n <= l /\ n + 1 # 0 /\ (n + 1) - 1 = n
    BY <2>1
  <2>3. g[n + 1] = OneMore(N, q, g[n]) /\ h[n + 1] = OneMore(N, q, h[n])
    BY <2>2, UpToEquation
  <2>4. g[n] = h[n]
    BY <1>2, <2>2
  <2>5. QED
    BY <2>3, <2>4
<1>3. Nat \subseteq S
  <2> HIDE DEF S
  <2>1. QED
    BY <1>1, <1>2, Induction
<1>4. QED
  BY <1>3

\* What Walk is.
IsWalk(N, q, W) ==
    W = [n \in Nat |-> IF n = 0 THEN NoLink(N) ELSE OneMore(N, q, W[n - 1])]

LEMMA WalkExists ==
    ASSUME NEW N, NEW q
    PROVE  \E W : IsWalk(N, q, W)
<1> DEFINE G(k) == CHOOSE g : UpTo(N, q, g, k)
           W == [n \in Nat |-> G(n)[n]]
<1>1. \A k \in Nat : UpTo(N, q, G(k), k)
  BY UpToExists, Zenon
<1> HIDE DEF G
<1>2. ASSUME NEW n \in Nat
      PROVE  G(n)[n] = IF n = 0 THEN NoLink(N) ELSE OneMore(N, q, W[n - 1])
  <2>1. G(n)[n] = IF n = 0 THEN NoLink(N) ELSE OneMore(N, q, G(n)[n - 1])
    <3>1. n \in 0..n
      OBVIOUS
    <3>2. QED
      BY <1>1, <3>1, UpToEquation
  <2>2. CASE n = 0
    BY <2>1, <2>2
  <2>3. CASE n # 0
    <3>1. n - 1 \in Nat /\ n - 1 <= n - 1 /\ n - 1 <= n
      BY <2>3
    <3>2. W[n - 1] = G(n - 1)[n - 1]
      BY <3>1
    <3>3. G(n - 1)[n - 1] = G(n)[n - 1]
      BY <1>1, <3>1, UpToUnique
    <3> HIDE DEF W
    <3>4. QED
      BY <2>1, <2>3, <3>2, <3>3
  <2>4. QED
    BY <2>2, <2>3
<1>3. W = [n \in Nat |-> IF n = 0 THEN NoLink(N) ELSE OneMore(N, q, W[n - 1])]
  <2>1. SUFFICES ASSUME NEW n \in Nat
                 PROVE  G(n)[n] = IF n = 0 THEN NoLink(N) ELSE OneMore(N, q, W[n - 1])
    BY Zenon
  <2>2. QED
    BY <1>2
<1>4. IsWalk(N, q, W)
  <2> HIDE DEF W
  <2>1. QED
    BY <1>3 DEF IsWalk
<1>5. QED
  BY <1>4, Zenon

\* So Walk satisfies its equation.
LEMMA WalkEquation == IsWalk(iter_node, links, Walk)
<1>1. \E W : IsWalk(iter_node, links, W)
  BY WalkExists
<1>2. Walk = CHOOSE W : IsWalk(iter_node, links, W)
  BY DEF Walk, IsWalk
<1>3. QED
  BY <1>1, <1>2, Zenon

----------------------------------------------------------------------------
\* The entries of a matrix between nodes N.
IsMatrix(N, q) == \A e, f \in N : q[<<e, f>>] \in CostOrNone

\* Cost x is there and not above y, if y is there.
NoWorse(x, y) == y >= 0 => x \in 0..y

LEMMA NoWorseFacts ==
    /\ \A x \in CostOrNone : NoWorse(x, x)
    /\ \A x, y, z \in CostOrNone : NoWorse(x, y) /\ NoWorse(y, z) => NoWorse(x, z)
    /\ \A x, y \in CostOrNone : NoWorse(x, y) /\ NoWorse(y, x) => x = y
<1>1. \A x \in CostOrNone : x = VAL_INF \/ x \in Nat
  BY DEF CostOrNone
<1>2. VAL_INF \in Int /\ VAL_INF < 0
  BY CostFacts
<1> HIDE DEF VAL_INF
<1>3. QED
  BY <1>1, <1>2 DEF NoWorse

LEMMA LowestFacts ==
    ASSUME NEW costs \in SUBSET CostOrNone
    PROVE  /\ Lowest(costs) \in CostOrNone
           /\ Lowest(costs) >= 0 => Lowest(costs) \in costs
           /\ \A c \in costs : NoWorse(Lowest(costs), c)
<1> DEFINE finite == {c \in costs : c >= 0}
<1>1. finite \in SUBSET Nat
  BY CostFacts
<1>2. Lowest(costs) = IF finite = {} THEN VAL_INF ELSE Min(finite)
  BY DEF Lowest
<1>3. CASE finite = {}
  <2>1. Lowest(costs) = VAL_INF
    BY <1>2, <1>3
  <2>2. \A c \in costs : ~ (c >= 0)
    BY <1>3
  <2>3. ~ (VAL_INF >= 0) /\ VAL_INF \in CostOrNone
    BY DEF VAL_INF, CostOrNone
  <2>4. QED
    BY <2>1, <2>2, <2>3 DEF NoWorse
<1>4. CASE finite # {}
  <2>1. Lowest(costs) = Min(finite)
    BY <1>2, <1>4
  <2>2. Min(finite) \in finite /\ \A c \in finite : Min(finite) <= c
    BY <1>1, <1>4, MinOfNaturals
  <2> DEFINE m == Min(finite)
  <2>3. m \in Nat /\ m \in costs
    BY <1>1, <2>2
  <2>4. \A c \in costs : c >= 0 => c \in Nat /\ m <= c
    BY <1>1, <2>2
  <2> HIDE DEF m, finite
  <2>5. Lowest(costs) = m
    BY <2>1 DEF m
  <2>6. \A c \in costs : NoWorse(m, c)
    BY <2>3, <2>4 DEF NoWorse
  <2>7. QED
    BY <2>3, <2>5, <2>6 DEF CostOrNone
<1>5. QED
  BY <1>3, <1>4

LEMMA AlongFacts ==
    ASSUME NEW x \in CostOrNone, NEW y \in CostOrNone
    PROVE  /\ Along(x, y) \in CostOrNone
           /\ Along(x, y) >= 0 => x >= 0 /\ y >= 0
           /\ x >= 0 /\ y >= 0 => Along(x, y) = x + y /\ x + y \in Nat
<1>1. /\ x \in Int /\ y \in Int
      /\ x >= 0 => x \in Nat
      /\ y >= 0 => y \in Nat
  BY CostFacts
<1>2. CASE x < 0 \/ y < 0
  <2>1. Along(x, y) = VAL_INF /\ ~ (VAL_INF >= 0) /\ ~ (x >= 0 /\ y >= 0)
    BY <1>1, <1>2 DEF Along, VAL_INF
  <2>2. QED
    BY <2>1 DEF CostOrNone
<1>3. CASE ~ (x < 0 \/ y < 0)
  <2>1. x \in Nat /\ y \in Nat /\ x >= 0 /\ y >= 0 /\ x + y \in Nat
    BY <1>1, <1>3
  <2>2. Along(x, y) = x + y
    BY <1>3 DEF Along
  <2>3. QED
    BY <2>1, <2>2 DEF CostOrNone
<1>4. QED
  BY <1>2, <1>3

\* A walk from s to e of n + 1 links that costs least has its last link from w.
LastLink(q, W, n, s, e, w) ==
    /\ W[n][<<s, w>>] >= 0
    /\ q[<<w, e>>] >= 0
    /\ W[n + 1][<<s, e>>] = W[n][<<s, w>>] + q[<<w, e>>]

\* How the costs of walks of n + 1 links come from those of n links.
LEMMA WalkSteps ==
    ASSUME NEW N, NEW q, IsMatrix(N, q), NEW W, IsWalk(N, q, W)
    PROVE  /\ \A s, e \in N : W[0][<<s, e>>] = IF s = e THEN 0 ELSE VAL_INF
           /\ \A n \in Nat : \A s, e \in N : W[n][<<s, e>>] \in CostOrNone
           /\ \A n \in Nat : \A s, w, e \in N :
                W[n][<<s, w>>] >= 0 /\ q[<<w, e>>] >= 0 =>
                    NoWorse(W[n + 1][<<s, e>>], W[n][<<s, w>>] + q[<<w, e>>])
           /\ \A n \in Nat : \A s, e \in N :
                W[n + 1][<<s, e>>] >= 0 => \E w \in N : LastLink(q, W, n, s, e, w)
<1>1. W[0] = NoLink(N) /\ \A n \in Nat : W[n + 1] = OneMore(N, q, W[n])
  <2> DEFINE V == [n \in Nat |-> IF n = 0 THEN NoLink(N) ELSE OneMore(N, q, W[n - 1])]
  <2>1. /\ V[0] = NoLink(N)
        /\ \A n \in Nat : V[n + 1] = OneMore(N, q, W[n])
    <3>1. \A n \in Nat : n + 1 \in Nat /\ n + 1 # 0 /\ (n + 1) - 1 = n
      OBVIOUS
    <3>2. QED
      BY <3>1
  <2>2. W = V
    BY DEF IsWalk
  <2> HIDE DEF V
  <2>3. QED
    BY <2>1, <2>2, Zenon
<1>2. \A s, e \in N : W[0][<<s, e>>] = IF s = e THEN 0 ELSE VAL_INF
  BY <1>1 DEF NoLink
<1> DEFINE Offers(n, s, e) == {Along(W[n][<<s, w>>], q[<<w, e>>]) : w \in N}
<1>3. ASSUME NEW n \in Nat, NEW s \in N, NEW e \in N
      PROVE  W[n + 1][<<s, e>>] = Lowest(Offers(n, s, e))
  <2> DEFINE at == <<s, e>>
             costs == {Along(W[n][<<at[1], w>>], q[<<w, at[2]>>]) : w \in N}
  <2>1. at \in N \X N /\ at[1] = s /\ at[2] = e
    OBVIOUS
  <2> HIDE DEF at
  <2>2. costs = Offers(n, s, e)
    BY <2>1
  <2>3. OneMore(N, q, W[n])[at] = Lowest(costs)
    BY <2>1 DEF OneMore
  <2> HIDE DEF costs, Offers
  <2>4. QED
    BY <1>1, <2>2, <2>3 DEF at
<1> DEFINE S == {n \in Nat : \A s, e \in N : W[n][<<s, e>>] \in CostOrNone}
<1>4. ASSUME NEW n \in Nat, n \in S, NEW s \in N, NEW e \in N
      PROVE  Offers(n, s, e) \subseteq CostOrNone
  <2>1. \A w \in N : W[n][<<s, w>>] \in CostOrNone /\ q[<<w, e>>] \in CostOrNone
    BY <1>4 DEF IsMatrix
  <2>2. \A w \in N : Along(W[n][<<s, w>>], q[<<w, e>>]) \in CostOrNone
    BY <2>1, AlongFacts
  <2>3. QED
    BY <2>2
<1>5. 0 \in S
  BY <1>2 DEF CostOrNone
<1>6. ASSUME NEW n \in Nat, n \in S
      PROVE  n + 1 \in S
  <2>1. ASSUME NEW s \in N, NEW e \in N
        PROVE  W[n + 1][<<s, e>>] \in CostOrNone
    <3> HIDE DEF Offers, S
    <3>1. QED
      BY <1>3, <1>4, <1>6, LowestFacts
  <2>2. QED
    BY <2>1
<1>7. \A n \in Nat : n \in S
  <2> HIDE DEF S
  <2>1. QED
    BY <1>5, <1>6, Induction
<1>8. ASSUME NEW n \in Nat, NEW s \in N, NEW w \in N, NEW e \in N,
             W[n][<<s, w>>] >= 0, q[<<w, e>>] >= 0
      PROVE  NoWorse(W[n + 1][<<s, e>>], W[n][<<s, w>>] + q[<<w, e>>])
  <2>1. W[n][<<s, w>>] \in CostOrNone /\ q[<<w, e>>] \in CostOrNone
    BY <1>7 DEF IsMatrix
  <2>2. W[n][<<s, w>>] + q[<<w, e>>] = Along(W[n][<<s, w>>], q[<<w, e>>])
    BY <1>8, <2>1, AlongFacts
  <2>3. W[n][<<s, w>>] + q[<<w, e>>] \in Offers(n, s, e)
    BY <2>2
  <2>4. Offers(n, s, e) \subseteq CostOrNone
    BY <1>4, <1>7
  <2> HIDE DEF Offers
  <2>5. QED
    BY <1>3, <2>3, <2>4, LowestFacts
<1>9. ASSUME NEW n \in Nat, NEW s \in N, NEW e \in N, W[n + 1][<<s, e>>] >= 0
      PROVE  \E w \in N : LastLink(q, W, n, s, e, w)
  <2>1. W[n + 1][<<s, e>>] \in Offers(n, s, e)
    <3>1. Offers(n, s, e) \subseteq CostOrNone
      BY <1>4, <1>7
    <3> HIDE DEF Offers
    <3>2. QED
      BY <1>3, <1>9, <3>1, LowestFacts
  <2>2. PICK w \in N : W[n + 1][<<s, e>>] = Along(W[n][<<s, w>>], q[<<w, e>>])
    BY <2>1
  <2>3. W[n][<<s, w>>] \in CostOrNone /\ q[<<w, e>>] \in CostOrNone
    BY <1>7 DEF IsMatrix
  <2>4. W[n][<<s, w>>] >= 0 /\ q[<<w, e>>] >= 0
    BY <1>9, <2>2, <2>3, AlongFacts
  <2>5. QED
    BY <2>2, <2>3, <2>4, AlongFacts DEF LastLink
<1>10. QED
  BY <1>2, <1>7, <1>8, <1>9

\* No link from a node to itself costs anything.
IsFree(N, q) == \A e \in N : q[<<e, e>>] = 0

\* A walk may stay where it is: with more links the costs do not rise.
LEMMA WalkGrows ==
    ASSUME NEW N, NEW q, IsMatrix(N, q), IsFree(N, q), NEW W, IsWalk(N, q, W)
    PROVE  /\ \A n, k \in Nat : \A s, e \in N : NoWorse(W[n + k][<<s, e>>], W[n][<<s, e>>])
           /\ \A n \in Nat : \A s \in N : W[n][<<s, s>>] = 0
<1>1. \A n \in Nat : \A s, e \in N : W[n][<<s, e>>] \in CostOrNone
  BY WalkSteps
<1>2. ASSUME NEW n \in Nat, NEW s \in N, NEW e \in N
      PROVE  NoWorse(W[n + 1][<<s, e>>], W[n][<<s, e>>])
  <2>1. CASE W[n][<<s, e>>] >= 0
    <3> DEFINE x == W[n][<<s, e>>]
    <3>1. x >= 0 /\ x \in Nat /\ q[<<e, e>>] = 0 /\ 0 >= 0
      BY <1>1, <2>1, CostFacts DEF IsFree
    <3>2. NoWorse(W[n + 1][<<s, e>>], x + q[<<e, e>>])
      BY <3>1, WalkSteps
    <3> HIDE DEF x
    <3>3. x + q[<<e, e>>] = x
      BY <3>1
    <3>4. QED
      BY <3>2, <3>3 DEF x
  <2>2. QED
    BY <2>1 DEF NoWorse
<1>3. ASSUME NEW n \in Nat, NEW s \in N, NEW e \in N
      PROVE  \A k \in Nat : NoWorse(W[n + k][<<s, e>>], W[n][<<s, e>>])
  <2> DEFINE S == {k \in Nat : NoWorse(W[n + k][<<s, e>>], W[n][<<s, e>>])}
  <2>1. 0 \in S
    BY <1>1, NoWorseFacts
  <2>2. ASSUME NEW k \in Nat, k \in S
        PROVE  k + 1 \in S
    <3>1. n + k \in Nat /\ n + (k + 1) = (n + k) + 1 /\ (n + k) + 1 \in Nat
      OBVIOUS
    <3>2. NoWorse(W[(n + k) + 1][<<s, e>>], W[n + k][<<s, e>>])
      BY <1>2, <3>1
    <3>3. NoWorse(W[(n + k) + 1][<<s, e>>], W[n][<<s, e>>])
      BY <1>1, <2>2, <3>1, <3>2, NoWorseFacts
    <3>4. QED
      BY <3>1, <3>3
  <2>3. Nat \subseteq S
    <3> HIDE DEF S
    <3>1. QED
      BY <2>1, <2>2, Induction
  <2>4. QED
    BY <2>3
<1>4. ASSUME NEW n \in Nat, NEW s \in N
      PROVE  W[n][<<s, s>>] = 0
  <2>1. W[0][<<s, s>>] = 0
    BY WalkSteps
  <2>2. NoWorse(W[0 + n][<<s, s>>], W[0][<<s, s>>])
    BY <1>3
  <2>3. 0 + n = n
    OBVIOUS
  <2>4. QED
    BY <2>1, <2>2, <2>3 DEF NoWorse
<1>5. QED
  BY <1>3, <1>4

\* A walk can be put together, and taken apart, at its first link as well.
LEMMA WalkFront ==
    ASSUME NEW N, NEW q, IsMatrix(N, q), IsFree(N, q), NEW W, IsWalk(N, q, W)
    PROVE  /\ \A n \in Nat : \A s, c, e \in N :
                q[<<s, c>>] >= 0 /\ W[n][<<c, e>>] >= 0 =>
                    NoWorse(W[n + 1][<<s, e>>], q[<<s, c>>] + W[n][<<c, e>>])
           /\ \A n \in Nat : \A s, e \in N :
                W[n + 1][<<s, e>>] >= 0 =>
                    \E c \in N : /\ q[<<s, c>>] >= 0 /\ W[n][<<c, e>>] >= 0
                                 /\ q[<<s, c>>] + W[n][<<c, e>>] \in 0..W[n + 1][<<s, e>>]
<1>1. /\ \A n \in Nat : \A s, e \in N : W[n][<<s, e>>] \in CostOrNone
      /\ \A s, e \in N : q[<<s, e>>] \in CostOrNone
      /\ \A x \in CostOrNone : x >= 0 => x \in Nat
  BY WalkSteps, CostFacts DEF IsMatrix
<1>2. ASSUME NEW s \in N, NEW c \in N
      PROVE  \A n \in Nat : \A w \in N :
                q[<<s, c>>] >= 0 /\ W[n][<<c, w>>] >= 0 =>
                    NoWorse(W[n + 1][<<s, w>>], q[<<s, c>>] + W[n][<<c, w>>])
  <2> DEFINE S == {n \in Nat : \A w \in N :
                q[<<s, c>>] >= 0 /\ W[n][<<c, w>>] >= 0 =>
                    NoWorse(W[n + 1][<<s, w>>], q[<<s, c>>] + W[n][<<c, w>>])}
  <2>1. 0 \in S
    <3>1. ASSUME NEW w \in N, q[<<s, c>>] >= 0, W[0][<<c, w>>] >= 0
          PROVE  NoWorse(W[0 + 1][<<s, w>>], q[<<s, c>>] + W[0][<<c, w>>])
      <4>1. c = w /\ W[0][<<c, w>>] = 0
        BY <3>1, WalkSteps DEF VAL_INF
      <4>2. W[0][<<s, s>>] = 0 /\ 0 >= 0
        BY WalkSteps
      <4>3. NoWorse(W[0 + 1][<<s, w>>], W[0][<<s, s>>] + q[<<s, w>>])
        BY <3>1, <4>1, <4>2, WalkSteps
      <4>4. q[<<s, w>>] \in Nat
        BY <1>1, <3>1, <4>1
      <4>5. W[0][<<s, s>>] + q[<<s, w>>] = q[<<s, c>>] + W[0][<<c, w>>]
        BY <4>1, <4>2, <4>4
      <4>6. QED
        BY <4>3, <4>5
    <3>2. QED
      BY <3>1
  <2>2. ASSUME NEW n \in Nat, n \in S
        PROVE  n + 1 \in S
    <3>1. ASSUME NEW w \in N, q[<<s, c>>] >= 0, W[n + 1][<<c, w>>] >= 0
          PROVE  NoWorse(W[(n + 1) + 1][<<s, w>>], q[<<s, c>>] + W[n + 1][<<c, w>>])
      <4>1. PICK v \in N : LastLink(q, W, n, c, w, v)
        BY <3>1, WalkSteps
      <4> DEFINE a == q[<<s, c>>]
                 b == W[n][<<c, v>>]
                 d == q[<<v, w>>]
                 x == W[n + 1][<<s, v>>]
                 y == W[(n + 1) + 1][<<s, w>>]
      <4>1a. b >= 0 /\ d >= 0 /\ W[n + 1][<<c, w>>] = b + d
        BY <4>1 DEF LastLink
      <4>2. a \in Nat /\ b \in Nat /\ d \in Nat /\ x \in CostOrNone /\ n + 1 \in Nat
        BY <1>1, <3>1, <4>1a
      <4>3. NoWorse(x, a + b)
        BY <2>2, <3>1, <4>1a
      <4>4. x >= 0 /\ d >= 0 => NoWorse(y, x + d)
        BY <4>2, WalkSteps
      <4> HIDE DEF a, b, d, x, y
      <4>6. x \in Nat /\ x <= a + b /\ x >= 0
        BY <4>2, <4>3 DEF NoWorse
      <4>7. y \in 0..(x + d)
        BY <4>2, <4>4, <4>6 DEF NoWorse
      <4>8. y \in 0..(a + (b + d))
        BY <4>2, <4>6, <4>7
      <4>9. QED
        BY <4>1a, <4>8 DEF NoWorse, a, y
    <3>2. QED
      BY <3>1
  <2>3. Nat \subseteq S
    <3> HIDE DEF S
    <3>1. QED
      BY <2>1, <2>2, Induction
  <2>4. QED
    BY <2>3
<1>3. ASSUME NEW s \in N
      PROVE  \A n \in Nat : \A e \in N :
                W[n + 1][<<s, e>>] >= 0 =>
                    \E c \in N : /\ q[<<s, c>>] >= 0 /\ W[n][<<c, e>>] >= 0
                                 /\ q[<<s, c>>] + W[n][<<c, e>>] \in 0..W[n + 1][<<s, e>>]
  <2> DEFINE Splits(n, e) ==
                W[n + 1][<<s, e>>] >= 0 =>
                    \E c \in N : /\ q[<<s, c>>] >= 0 /\ W[n][<<c, e>>] >= 0
                                 /\ q[<<s, c>>] + W[n][<<c, e>>] \in 0..W[n + 1][<<s, e>>]
             S == {n \in Nat : \A e \in N : Splits(n, e)}
  <2>1. 0 \in S
    <3>1. ASSUME NEW e \in N, W[0 + 1][<<s, e>>] >= 0
          PROVE  \E c \in N : /\ q[<<s, c>>] >= 0 /\ W[0][<<c, e>>] >= 0
                              /\ q[<<s, c>>] + W[0][<<c, e>>] \in 0..W[0 + 1][<<s, e>>]
      <4>0. PICK w \in N : LastLink(q, W, 0, s, e, w)
        BY <3>1, WalkSteps
      <4>1. /\ W[0][<<s, w>>] >= 0 /\ q[<<w, e>>] >= 0
            /\ W[0 + 1][<<s, e>>] = W[0][<<s, w>>] + q[<<w, e>>]
        BY <4>0 DEF LastLink
      <4>2. s = w /\ W[0][<<s, w>>] = 0
        BY <4>1, WalkSteps DEF VAL_INF
      <4>3. q[<<s, e>>] \in Nat /\ q[<<s, e>>] >= 0
        BY <1>1, <4>1, <4>2
      <4>4. W[0][<<e, e>>] = 0
        BY WalkSteps
      <4>5. /\ q[<<s, e>>] + W[0][<<e, e>>] \in 0..W[0 + 1][<<s, e>>]
            /\ W[0][<<e, e>>] >= 0
        BY <4>1, <4>2, <4>3, <4>4
      <4>6. QED
        BY <4>3, <4>5
    <3>2. QED
      BY <3>1
  <2>2. ASSUME NEW n \in Nat, n \in S
        PROVE  n + 1 \in S
    <3>1. ASSUME NEW e \in N, W[(n + 1) + 1][<<s, e>>] >= 0
          PROVE  \E c \in N : /\ q[<<s, c>>] >= 0 /\ W[n + 1][<<c, e>>] >= 0
                              /\ q[<<s, c>>] + W[n + 1][<<c, e>>] \in 0..W[(n + 1) + 1][<<s, e>>]
      <4>1. PICK w \in N : LastLink(q, W, n + 1, s, e, w)
        <5>1. n + 1 \in Nat
          OBVIOUS
        <5>2. QED
          BY <3>1, <5>1, WalkSteps
      <4>2. PICK c \in N : /\ q[<<s, c>>] >= 0 /\ W[n][<<c, w>>] >= 0
                           /\ q[<<s, c>>] + W[n][<<c, w>>] \in 0..W[n + 1][<<s, w>>]
        BY <2>2, <4>1 DEF LastLink
      <4> DEFINE a == q[<<s, c>>]
                 b == W[n][<<c, w>>]
                 d == q[<<w, e>>]
                 x == W[n + 1][<<s, w>>]
                 y == W[n + 1][<<c, e>>]
      <4>3. /\ a \in Nat /\ b \in Nat /\ d \in Nat /\ x \in Nat
            /\ a + b \in 0..x /\ a >= 0 /\ W[(n + 1) + 1][<<s, e>>] = x + d
        <5>1. n + 1 \in Nat
          OBVIOUS
        <5>2. QED
          BY <1>1, <4>1, <4>2, <5>1 DEF LastLink
      <4>4. NoWorse(y, b + d)
        BY <4>1, <4>2, WalkSteps DEF LastLink
      <4> HIDE DEF a, b, d, x, y
      <4>5. y \in 0..(b + d)
        BY <4>3, <4>4 DEF NoWorse
      <4>6. y >= 0 /\ a + y \in 0..(x + d)
        BY <4>3, <4>5
      <4>7. QED
        BY <4>3, <4>6 DEF a, y
    <3>2. QED
      BY <3>1
  <2>3. Nat \subseteq S
    <3> HIDE DEF S
    <3>1. QED
      BY <2>1, <2>2, Induction
  <2>4. QED
    BY <2>3
<1>4. QED
  BY <1>2, <1>3

----------------------------------------------------------------------------
(***************************************************************************)
(* Costs that are handed down node by node from s are those of walks: each *)
(* node on the way has a lower cost, so that no walk has more links than   *)
(* there are other nodes.                                                  *)
(***************************************************************************)

\* Node v, at a lower cost, and its link to e account for the cost of e.
From(w, r, e, v) ==
    /\ w[<<v, e>>] >= 0
    /\ r[v] >= 0
    /\ r[v] < r[e]
    /\ r[v] + w[<<v, e>>] <= r[e]

\* The nodes below e.  A node that comes from v has one more of them than v.
Lower(N, r, e) == {v \in N : r[v] >= 0 /\ r[v] < r[e]}

LEMMA LowerFacts ==
    ASSUME NEW N, IsFiniteSet(N), NEW r, \A e \in N : r[e] \in CostOrNone
    PROVE  /\ \A e \in N : /\ Lower(N, r, e) \subseteq N \ {e}
                          /\ IsFiniteSet(Lower(N, r, e))
                          /\ Cardinality(Lower(N, r, e)) \in Nat
           /\ \A e, v \in N : r[v] >= 0 /\ r[v] < r[e] =>
                    Cardinality(Lower(N, r, v)) < Cardinality(Lower(N, r, e))
<1>1. \A e \in N : r[e] \in Int
  BY CostFacts
<1>2. \A e \in N : Lower(N, r, e) \subseteq N \ {e}
  BY <1>1 DEF Lower
<1>3. \A e \in N : IsFiniteSet(Lower(N, r, e)) /\ Cardinality(Lower(N, r, e)) \in Nat
  <2>1. TAKE e \in N
  <2>2. IsFiniteSet(Lower(N, r, e))
    BY FS_Subset DEF Lower
  <2>3. QED
    BY <2>2, FS_CardinalityType
<1>4. ASSUME NEW e \in N, NEW v \in N, r[v] >= 0, r[v] < r[e]
      PROVE  Cardinality(Lower(N, r, v)) < Cardinality(Lower(N, r, e))
  <2>1. /\ Lower(N, r, v) \subseteq Lower(N, r, e)
        /\ v \in Lower(N, r, e) /\ v \notin Lower(N, r, v)
    BY <1>1, <1>4 DEF Lower
  <2>2. Lower(N, r, v) # Lower(N, r, e)
    BY <2>1
  <2>3. Cardinality(Lower(N, r, v)) <= Cardinality(Lower(N, r, e))
    BY <1>3, <2>1, FS_Subset
  <2>4. Cardinality(Lower(N, r, v)) # Cardinality(Lower(N, r, e))
    BY <1>3, <2>1, <2>2, FS_Subset
  <2>5. QED
    BY <1>3, <2>3, <2>4
<1>5. QED
  BY <1>2, <1>3, <1>4

\* D has the costs of walks from s, by their number of links.
Extends(N, w, D, s) ==
    /\ \A n \in Nat : D[n][s] = 0
    /\ \A n \in Nat : \A v \in N : D[n][v] \in CostOrNone
    /\ \A n \in Nat : \A v, e \in N :
            D[n][v] >= 0 /\ w[<<v, e>>] >= 0 => NoWorse(D[n + 1][e], D[n][v] + w[<<v, e>>])

LEMMA Attained ==
    ASSUME NEW N, IsFiniteSet(N), NEW w, IsMatrix(N, w), NEW s \in N,
           NEW D, Extends(N, w, D, s),
           NEW r, \A e \in N : r[e] \in CostOrNone, r[s] = 0,
           \A e \in N \ {s} : r[e] >= 0 => \E v \in N : From(w, r, e, v)
    PROVE  \A e \in N : NoWorse(D[Cardinality(N) - 1][e], r[e])
<1> DEFINE S == {n \in Nat : \A e \in N : Cardinality(Lower(N, r, e)) <= n => NoWorse(D[n][e], r[e])}
<1>1. \A e \in N : /\ r[e] \in Int
                   /\ \A v \in N : w[<<v, e>>] \in Int
  BY CostFacts DEF IsMatrix
<1>3. \A e \in N : /\ Lower(N, r, e) \subseteq N \ {e}
                   /\ IsFiniteSet(Lower(N, r, e))
                   /\ Cardinality(Lower(N, r, e)) \in Nat
  BY LowerFacts
<1>4. ASSUME NEW e \in N, NEW v \in N, From(w, r, e, v)
      PROVE  Cardinality(Lower(N, r, v)) < Cardinality(Lower(N, r, e))
  BY <1>4, LowerFacts DEF From
<1>5. \A n \in Nat : NoWorse(D[n][s], r[s])
  BY DEF Extends, NoWorse
<1>6. 0 \in S
  <2>1. ASSUME NEW e \in N, Cardinality(Lower(N, r, e)) <= 0
        PROVE  NoWorse(D[0][e], r[e])
    <3>1. CASE e = s
      BY <1>5, <3>1
    <3>2. CASE ~ (r[e] >= 0)
      BY <3>2 DEF NoWorse
    <3>3. CASE e # s /\ r[e] >= 0
      <4>1. PICK v \in N : From(w, r, e, v)
        BY <3>3
      <4>2. Cardinality(Lower(N, r, v)) < Cardinality(Lower(N, r, e))
        BY <1>4, <4>1
      <4>3. QED
        BY <1>3, <2>1, <4>2
    <3>4. QED
      BY <3>1, <3>2, <3>3
  <2>2. QED
    BY <2>1
<1>7. ASSUME NEW n \in Nat, n \in S
      PROVE  n + 1 \in S
  <2>1. ASSUME NEW e \in N, Cardinality(Lower(N, r, e)) <= n + 1
        PROVE  NoWorse(D[n + 1][e], r[e])
    <3>1. CASE e = s
      <4>1. n + 1 \in Nat
        OBVIOUS
      <4>2. QED
        BY <1>5, <3>1, <4>1
    <3>2. CASE ~ (r[e] >= 0)
      BY <3>2 DEF NoWorse
    <3>3. CASE e # s /\ r[e] >= 0
      <4>1. PICK v \in N : From(w, r, e, v)
        BY <3>3
      <4>2. Cardinality(Lower(N, r, v)) < Cardinality(Lower(N, r, e))
        BY <1>4, <4>1
      <4>3. Cardinality(Lower(N, r, v)) <= n
        BY <1>3, <2>1, <4>2
      <4>4. NoWorse(D[n][v], r[v])
        BY <1>7, <4>3
      <4> DEFINE a == D[n][v]
                 b == w[<<v, e>>]
                 x == r[v]
                 y == r[e]
                 z == D[n + 1][e]
      <4>5. b >= 0 /\ x >= 0 /\ x + b <= y /\ x \in Int /\ y \in Int /\ b \in Int
        BY <1>1, <4>1 DEF From
      <4>6. a \in 0..x
        BY <4>4, <4>5 DEF NoWorse
      <4>7. a >= 0 /\ b >= 0 => NoWorse(z, a + b)
        BY DEF Extends
      <4> HIDE DEF a, b, x, y, z
      <4>8. a >= 0 /\ a + b >= 0 /\ a \in Int
        BY <4>5, <4>6
      <4>9. z \in 0..(a + b)
        BY <4>5, <4>7, <4>8 DEF NoWorse
      <4>10. z \in 0..y
        BY <4>5, <4>6, <4>9
      <4>11. QED
        BY <4>10 DEF NoWorse, y, z
    <3>4. QED
      BY <3>1, <3>2, <3>3
  <2>2. QED
    BY <2>1
<1>8. \A n \in Nat : n \in S
  <2> HIDE DEF S
  <2>1. QED
    BY <1>6, <1>7, Induction
<1>9. ASSUME NEW e \in N
      PROVE  NoWorse(D[Cardinality(N) - 1][e], r[e])
  <2>1. /\ IsFiniteSet(N \ {e}) /\ Cardinality(N) \in Nat
        /\ Cardinality(N \ {e}) = Cardinality(N) - 1
        /\ Cardinality(N \ {e}) \in Nat
    <3>1. IsFiniteSet(N \ {e})
      BY FS_Subset
    <3>2. QED
      BY <3>1, FS_RemoveElement, FS_CardinalityType
  <2>2. Cardinality(Lower(N, r, e)) <= Cardinality(N \ {e})
    BY <1>3, <2>1, FS_Subset
  <2>3. Cardinality(N) - 1 \in S /\ Cardinality(Lower(N, r, e)) <= Cardinality(N) - 1
    BY <1>8, <2>1, <2>2
  <2>4. QED
    BY <2>3
<1>10. QED
  BY <1>9

\* The same for the costs of walks from a node ...
LEMMA AttainedFrom ==
    ASSUME NEW N, IsFiniteSet(N), NEW q, IsMatrix(N, q), IsFree(N, q),
           NEW W, IsWalk(N, q, W), NEW s \in N,
           NEW r, \A e \in N : r[e] \in CostOrNone, r[s] = 0,
           \A e \in N \ {s} : r[e] >= 0 => \E v \in N : From(q, r, e, v)
    PROVE  \A e \in N : NoWorse(W[Cardinality(N) - 1][<<s, e>>], r[e])
<1> DEFINE D == [n \in Nat |-> [e \in N |-> W[n][<<s, e>>]]]
<1>1. \A n \in Nat : \A e \in N : D[n][e] = W[n][<<s, e>>]
  OBVIOUS
<1>2. \A n \in Nat : n + 1 \in Nat
  OBVIOUS
<1> HIDE DEF D
<1>3. ASSUME NEW n \in Nat, NEW v \in N, NEW e \in N, D[n][v] >= 0, q[<<v, e>>] >= 0
      PROVE  NoWorse(D[n + 1][e], D[n][v] + q[<<v, e>>])
  <2>1. NoWorse(W[n + 1][<<s, e>>], W[n][<<s, v>>] + q[<<v, e>>])
    BY <1>1, <1>3, WalkSteps
  <2>2. QED
    BY <1>1, <1>2, <2>1
<1>4. ASSUME NEW n \in Nat
      PROVE  D[n][s] = 0 /\ \A v \in N : D[n][v] \in CostOrNone
  <2>1. W[n][<<s, s>>] = 0
    BY WalkGrows
  <2>2. ASSUME NEW v \in N
        PROVE  W[n][<<s, v>>] \in CostOrNone
    BY WalkSteps
  <2>3. QED
    BY <1>1, <2>1, <2>2
<1>5. Extends(N, q, D, s)
  BY <1>3, <1>4 DEF Extends
<1>6. Cardinality(N) - 1 \in Nat
  <2>1. Cardinality(N) \in Nat /\ Cardinality(N) # 0
    BY FS_CardinalityType, FS_EmptySet
  <2>2. QED
    BY <2>1
<1>7. \A e \in N : NoWorse(D[Cardinality(N) - 1][e], r[e])
  BY <1>5, Attained
<1>8. QED
  BY <1>1, <1>6, <1>7

\* ... and to a node, when costs are handed down against the links.
LEMMA AttainedTo ==
    ASSUME NEW N, IsFiniteSet(N), NEW q, IsMatrix(N, q), IsFree(N, q),
           NEW W, IsWalk(N, q, W), NEW s \in N,
           NEW w, w = [x \in N \X N |-> q[<<x[2], x[1]>>]],
           NEW r, \A e \in N : r[e] \in CostOrNone, r[s] = 0,
           \A e \in N \ {s} : r[e] >= 0 => \E v \in N : From(w, r, e, v)
    PROVE  \A e \in N : NoWorse(W[Cardinality(N) - 1][<<e, s>>], r[e])
<1> DEFINE D == [n \in Nat |-> [e \in N |-> W[n][<<e, s>>]]]
<1>1. \A n \in Nat : \A e \in N : D[n][e] = W[n][<<e, s>>]
  OBVIOUS
<1>2. \A n \in Nat : n + 1 \in Nat
  OBVIOUS
<1>3. \A v, e \in N : w[<<v, e>>] = q[<<e, v>>]
  OBVIOUS
<1> HIDE DEF D
<1>4. /\ \A n \in Nat : \A v, e \in N : W[n][<<v, e>>] \in CostOrNone
      /\ \A v, e \in N : q[<<v, e>>] \in CostOrNone
  BY WalkSteps DEF IsMatrix
<1>5. ASSUME NEW n \in Nat, NEW v \in N, NEW e \in N, D[n][v] >= 0, w[<<v, e>>] >= 0
      PROVE  NoWorse(D[n + 1][e], D[n][v] + w[<<v, e>>])
  <2>1. NoWorse(W[n + 1][<<e, s>>], q[<<e, v>>] + W[n][<<v, s>>])
    BY <1>1, <1>3, <1>5, WalkFront
  <2>2. q[<<e, v>>] + W[n][<<v, s>>] = W[n][<<v, s>>] + q[<<e, v>>]
    <3>1. \A x, y \in CostOrNone : x + y = y + x
      BY CostFacts
    <3>2. QED
      BY <1>4, <3>1
  <2>3. QED
    BY <1>1, <1>2, <1>3, <2>1, <2>2
<1>6. ASSUME NEW n \in Nat
      PROVE  D[n][s] = 0 /\ \A v \in N : D[n][v] \in CostOrNone
  <2>1. W[n][<<s, s>>] = 0
    BY WalkGrows
  <2>2. ASSUME NEW v \in N
        PROVE  W[n][<<v, s>>] \in CostOrNone
    BY WalkSteps
  <2>3. QED
    BY <1>1, <2>1, <2>2
<1>7. Extends(N, w, D, s)
  BY <1>5, <1>6 DEF Extends
<1>8. Cardinality(N) - 1 \in Nat
  <2>1. Cardinality(N) \in Nat /\ Cardinality(N) # 0
    BY FS_CardinalityType, FS_EmptySet
  <2>2. QED
    BY <2>1
<1>9. IsMatrix(N, w)
  BY <1>3, <1>4 DEF IsMatrix
<1>10. \A e \in N : NoWorse(D[Cardinality(N) - 1][e], r[e])
  BY <1>7, <1>9, Attained
<1>11. QED
  BY <1>1, <1>8, <1>10

\* Costs that no link improves are not above those of any walk, as long as the
\* walk's costs are below those the links were looked at for.
LEMMA Closing ==
    ASSUME NEW N, NEW q, IsMatrix(N, q), NEW W, IsWalk(N, q, W), NEW s \in N,
           NEW bound \in Nat, NEW top \in Nat,
           \A n \in Nat : n <= top => \A e \in N : W[n][<<s, e>>] < bound,
           NEW r, \A e \in N : r[e] \in CostOrNone, r[s] = 0,
           \A v, e \in N : r[v] \in 0..(bound - 1) /\ q[<<v, e>>] >= 0 =>
                NoWorse(r[e], r[v] + q[<<v, e>>])
    PROVE  \A n \in Nat : n <= top + 1 => \A e \in N : NoWorse(r[e], W[n][<<s, e>>])
<1> DEFINE S == {n \in Nat : n <= top + 1 => \A e \in N : NoWorse(r[e], W[n][<<s, e>>])}
<1>1. /\ \A n \in Nat : \A e \in N : W[n][<<s, e>>] \in CostOrNone
      /\ \A v, e \in N : q[<<v, e>>] \in CostOrNone
      /\ \A x \in CostOrNone : x \in Int
  BY WalkSteps, CostFacts DEF IsMatrix
<1>2. 0 \in S
  <2>1. ASSUME NEW e \in N
        PROVE  NoWorse(r[e], W[0][<<s, e>>])
    <3>1. W[0][<<s, e>>] = IF s = e THEN 0 ELSE VAL_INF
      BY WalkSteps
    <3>2. QED
      BY <3>1 DEF NoWorse, VAL_INF
  <2>2. QED
    BY <2>1
<1>3. ASSUME NEW n \in Nat, n \in S
      PROVE  n + 1 \in S
  <2>1. ASSUME NEW e \in N, n <= top, W[n + 1][<<s, e>>] >= 0
        PROVE  NoWorse(r[e], W[n + 1][<<s, e>>])
    <3>1. PICK v \in N : LastLink(q, W, n, s, e, v)
      BY <2>1, WalkSteps
    <3> DEFINE a == W[n][<<s, v>>]
               b == q[<<v, e>>]
               x == r[v]
               y == r[e]
    <3>2. /\ a >= 0 /\ b >= 0 /\ W[n + 1][<<s, e>>] = a + b
          /\ a \in Int /\ b \in Int /\ x \in Int /\ y \in Int
      BY <1>1, <3>1 DEF LastLink
    <3>3. a < bound /\ NoWorse(x, a)
      BY <1>3, <2>1
    <3>4. x \in 0..(bound - 1) /\ b >= 0 => NoWorse(y, x + b)
      OBVIOUS
    <3> HIDE DEF a, b, x, y
    <3>5. x \in 0..a /\ x \in 0..(bound - 1) /\ x + b >= 0
      BY <3>2, <3>3 DEF NoWorse
    <3>6. y \in 0..(x + b)
      BY <3>2, <3>4, <3>5 DEF NoWorse
    <3>7. y \in 0..(a + b)
      BY <3>2, <3>5, <3>6
    <3>8. QED
      BY <3>2, <3>7 DEF NoWorse, y
  <2>2. QED
    BY <2>1 DEF NoWorse
<1>4. Nat \subseteq S
  <2> HIDE DEF S
  <2>1. QED
    BY <1>2, <1>3, Induction
<1>5. QED
  BY <1>4

\* If n links cost less than INF for every cost of the files, so does a walk.
LEMMA WalkBounded ==
    ASSUME NEW N, NEW q, IsMatrix(N, q), NEW W, IsWalk(N, q, W),
           NEW M \in Nat \ {0}, NEW bound \in Nat \ {0},
           \A v, e \in N : q[<<v, e>>] * M <= bound
    PROVE  \A n \in Nat : n < M => \A s, e \in N : W[n][<<s, e>>] < bound
<1>1. /\ \A n \in Nat : \A s, e \in N : W[n][<<s, e>>] \in CostOrNone
      /\ \A v, e \in N : q[<<v, e>>] \in CostOrNone
      /\ \A x \in CostOrNone : x \in Int
  BY WalkSteps, CostFacts DEF IsMatrix
<1>2. ASSUME NEW s \in N
      PROVE  \A n \in Nat : \A e \in N : W[n][<<s, e>>] * M <= n * bound
  <2> DEFINE S == {n \in Nat : \A e \in N : W[n][<<s, e>>] * M <= n * bound}
  <2>1. 0 \in S
    <3>1. ASSUME NEW e \in N
          PROVE  W[0][<<s, e>>] * M <= 0 * bound
      <4>1. W[0][<<s, e>>] = 0 \/ W[0][<<s, e>>] = VAL_INF
        BY WalkSteps
      <4>2. 0 * M <= 0 * bound /\ VAL_INF * M <= 0 * bound
        BY DEF VAL_INF
      <4>3. QED
        BY <4>1, <4>2
    <3>2. QED
      BY <3>1
  <2>2. ASSUME NEW n \in Nat, n \in S
        PROVE  n + 1 \in S
    <3>1. ASSUME NEW e \in N
          PROVE  W[n + 1][<<s, e>>] * M <= (n + 1) * bound
      <4> DEFINE z == W[n + 1][<<s, e>>]
      <4>1. z \in Int
        <5>1. n + 1 \in Nat
          OBVIOUS
        <5>2. QED
          BY <1>1, <5>1
      <4>2. CASE z >= 0
        <5>1. PICK v \in N : LastLink(q, W, n, s, e, v)
          BY <4>2, WalkSteps
        <5> DEFINE a == W[n][<<s, v>>]
                   b == q[<<v, e>>]
        <5>2. z = a + b /\ a \in Int /\ b \in Int
          BY <1>1, <5>1 DEF LastLink
        <5>3. a * M <= n * bound /\ b * M <= bound
          BY <2>2
        <5> HIDE DEF a, b, z
        <5>4. z * M = a * M + b * M /\ (n + 1) * bound = n * bound + bound
          BY <5>2
        <5>5. a * M \in Int /\ b * M \in Int /\ n * bound \in Int
          BY <5>2
        <5>6. z * M <= (n + 1) * bound
          BY <5>3, <5>4, <5>5
        <5>7. QED
          BY <5>6 DEF z
      <4>3. CASE z < 0
        <5> HIDE DEF z
        <5>1. z * M <= 0 /\ (n + 1) * bound >= 0
          BY <4>1, <4>3
        <5>2. QED
          BY <4>1, <5>1 DEF z
      <4>4. QED
        <5> HIDE DEF z
        <5>1. z >= 0 \/ z < 0
          BY <4>1
        <5>2. QED
          BY <4>2, <4>3, <5>1
    <3>2. QED
      BY <3>1
  <2>3. Nat \subseteq S
    <3> HIDE DEF S
    <3>1. QED
      BY <2>1, <2>2, Induction
  <2>4. QED
    BY <2>3
<1>3. ASSUME NEW n \in Nat, n < M, NEW s \in N, NEW e \in N
      PROVE  W[n][<<s, e>>] < bound
  <2> DEFINE z == W[n][<<s, e>>]
  <2>1. z * M <= n * bound /\ z \in Int
    BY <1>1, <1>2
  <2> HIDE DEF z
  <2>2. n * bound < M * bound
    BY <1>3
  <2>3. z >= bound => z * M >= bound * M
    BY <2>1
  <2>4. M * bound = bound * M
    OBVIOUS
  <2>5. z < bound
    BY <2>1, <2>2, <2>3, <2>4
  <2>6. QED
    BY <2>5 DEF z
<1>4. QED
  BY <1>3

----------------------------------------------------------------------------
(***************************************************************************)
(* The links of the files and the costs of walks along them.               *)
(***************************************************************************)

\* Links have the costs that the files give.
LinksOK ==
    /\ links \in [Ids \X Ids -> CostOrNone]
    /\ \A e \in Ids \X Ids : links[e] \in Costs \cup {0, VAL_INF}

\* INF is more than any route costs: so the programs use it.
RoutesBelowINF == \A c \in Costs : c * MAX_NODE <= INF

LEMMA LinksStart == RoutingInit => LinksOK
<1> SUFFICES ASSUME RoutingInit PROVE LinksOK
  OBVIOUS
<1>1. links = [e \in Ids \X Ids |-> IF e[1] = e[2] THEN 0 ELSE VAL_INF]
  BY DEF RoutingInit
<1>2. QED
  BY <1>1 DEF LinksOK, CostOrNone

LEMMA LineKeepsLinks ==
    ASSUME LinksOK, NEW e \in Pairs, NEW cost \in Costs \cup {VAL_INF},
           links' = Connected(links, e, cost)
    PROVE  LinksOK'
<1>1. links' \in [Ids \X Ids -> CostOrNone]
  BY ConnectedMatrix DEF LinksOK
<1>2. \A i \in Ids \X Ids : links'[i] \in {links[i], cost}
  BY DEF LinksOK, Connected
<1>3. Ids' = Ids /\ CostOrNone' = CostOrNone
  BY DEF Ids, CostOrNone, VAL_INF
<1>4. \A i \in Ids \X Ids : links'[i] \in Costs \cup {0, VAL_INF}
  <2>1. TAKE i \in Ids \X Ids
  <2>2. links[i] \in Costs \cup {0, VAL_INF}
    BY DEF LinksOK
  <2>3. QED
    BY <1>2, <2>2
<1>5. QED
  BY <1>1, <1>3, <1>4 DEF LinksOK, VAL_INF

\* The links between the nodes are a matrix without loops.
LEMMA LinkFacts ==
    ASSUME LinksOK, MatrixInv
    PROVE  /\ IsMatrix(iter_node, links)
           /\ IsFree(iter_node, links)
           /\ IsFiniteSet(iter_node)
           /\ Cardinality(iter_node) \in Nat
           /\ iter_node # {} => Cardinality(iter_node) - 1 \in Nat
           /\ Cardinality(iter_node) <= MAX_NODE
           /\ \A v, e \in iter_node : links[<<v, e>>] >= 0 /\ v # e => links[<<v, e>>] > 0
<1>1. iter_node \subseteq Ids
  BY DEF MatrixInv
<1>2. IsMatrix(iter_node, links)
  BY <1>1 DEF LinksOK, IsMatrix
<1>3. IsFree(iter_node, links)
  BY <1>1 DEF MatrixInv, IsFree
<1>4. IsFiniteSet(Ids) /\ Cardinality(Ids) = MAX_NODE
  <2>1. 1 \in Int /\ MAX_NODE \in Nat /\ (MAX_NODE = 0 <=> 1 > MAX_NODE) /\ MAX_NODE - 1 + 1 = MAX_NODE
    BY RoutingAssumption
  <2>2. QED
    BY <2>1, FS_Interval DEF Ids
<1>5. /\ IsFiniteSet(iter_node) /\ Cardinality(iter_node) \in Nat
      /\ Cardinality(iter_node) <= MAX_NODE
  BY <1>1, <1>4, FS_Subset, FS_CardinalityType
<1>6. iter_node # {} => Cardinality(iter_node) - 1 \in Nat
  <2>1. iter_node # {} => Cardinality(iter_node) # 0
    BY <1>5, FS_EmptySet
  <2>2. QED
    BY <1>5, <2>1
<1>7. ASSUME NEW v \in iter_node, NEW e \in iter_node, links[<<v, e>>] >= 0, v # e
      PROVE  links[<<v, e>>] > 0
  <2>1. links[<<v, e>>] # 0 /\ links[<<v, e>>] \in Int
    BY <1>1, <1>2, <1>7, CostFacts DEF MatrixInv, IsMatrix
  <2>2. QED
    BY <1>7, <2>1
<1>8. QED
  BY <1>2, <1>3, <1>5, <1>6, <1>7

\* Walks between the nodes cost less than INF.
LEMMA WalksBelowINF ==
    ASSUME LinksOK, MatrixInv, RoutesBelowINF
    PROVE  \A n \in Nat : n < MAX_NODE => \A s, e \in iter_node : Walk[n][<<s, e>>] < INF
<1>1. CASE iter_node = {}
  BY <1>1
<1>2. CASE iter_node # {}
  <2>1. MAX_NODE \in Nat \ {0}
    <3>1. Cardinality(iter_node) \in Nat /\ Cardinality(iter_node) <= MAX_NODE
          /\ Cardinality(iter_node) - 1 \in Nat
      BY <1>2, LinkFacts
    <3>2. QED
      BY <3>1, RoutingAssumption
  <2>2. ASSUME NEW v \in iter_node, NEW e \in iter_node
        PROVE  links[<<v, e>>] * MAX_NODE <= INF
    <3>1. links[<<v, e>>] \in Costs \cup {0, VAL_INF}
      BY DEF LinksOK, MatrixInv
    <3>2. 0 * MAX_NODE <= INF /\ VAL_INF * MAX_NODE <= INF
      BY RoutingAssumption DEF VAL_INF
    <3>3. QED
      BY <3>1, <3>2 DEF RoutesBelowINF
  <2>3. IsMatrix(iter_node, links) /\ INF \in Nat \ {0}
    BY LinkFacts, RoutingAssumption
  <2>4. QED
    BY <2>1, <2>2, <2>3, WalkEquation, WalkBounded
<1>3. QED
  BY <1>1, <1>2

\* What is left to pay, by the table of the node that has the message.
Remaining == table[<<msg.at, msg.to>>].second

\* What a message has paid and what is left to pay make up its cost, which is
\* below INF.
Pays ==
    phase = "forwarding" =>
        /\ msg \in [at : iter_node, to : iter_node, cost : 0..(INF - 1), paid : Nat]
        /\ Remaining \in Nat
        /\ msg.paid + Remaining = msg.cost

\* The link to the next hop and the entry of the next hop make up an entry.
HopAccounts(s, e) ==
    LET hop == table[<<s, e>>].first IN
    /\ hop \in iter_node
    /\ links[<<s, hop>>] \in Nat \ {0}
    /\ table[<<hop, e>>].second \in Nat
    /\ table[<<s, e>>].second = links[<<s, hop>>] + table[<<hop, e>>].second

LEMMA SendPays ==
    ASSUME Send,
           \A s, e \in iter_node :
                table[<<s, e>>].second > 0 => table[<<s, e>>].second \in 0..(INF - 1)
    PROVE  Pays'
<1>1. PICK s \in iter_node, e \in iter_node :
        /\ table[<<s, e>>].second > 0
        /\ msg' = [at |-> s, to |-> e, cost |-> table[<<s, e>>].second, paid |-> 0]
  BY DEF Send
<1> DEFINE cost == table[<<s, e>>].second
<1>2. table' = table /\ iter_node' = iter_node /\ cost \in 0..(INF - 1)
  BY <1>1 DEF Send
<1>3. /\ msg'.at = s /\ msg'.to = e /\ msg'.cost = cost /\ msg'.paid = 0
      /\ msg' = [at |-> s, to |-> e, cost |-> cost, paid |-> 0]
  BY <1>1
<1>4. Remaining' = cost
  BY <1>2, <1>3 DEF Remaining
<1> HIDE DEF cost
<1>5. cost \in Nat /\ 0 + cost = cost
  BY <1>2, RoutingAssumption
<1>6. msg' \in [at : iter_node, to : iter_node, cost : 0..(INF - 1), paid : Nat]
  BY <1>2, <1>3
<1>7. QED
  BY <1>2, <1>3, <1>4, <1>5, <1>6 DEF Pays

LEMMA ForwardPays ==
    ASSUME Pays, Forward, HopAccounts(msg.at, msg.to)
    PROVE  Pays' /\ Remaining' \in Nat /\ Remaining' < Remaining
<1> DEFINE at == msg.at
           to == msg.to
           hop == table[<<at, to>>].first
           link == links[<<at, hop>>]
           rest == table[<<hop, to>>].second
           paid == Min({INF, msg.paid + link})
<1>1. /\ phase = "forwarding" /\ table' = table /\ iter_node' = iter_node
      /\ msg' = [msg EXCEPT !.at = hop, !.paid = paid]
  BY DEF Forward
<1>2. /\ msg \in [at : iter_node, to : iter_node, cost : 0..(INF - 1), paid : Nat]
      /\ Remaining \in Nat /\ msg.paid + Remaining = msg.cost
  BY <1>1 DEF Pays
<1>3. hop \in iter_node /\ link \in Nat \ {0} /\ rest \in Nat /\ Remaining = link + rest
  BY DEF HopAccounts, Remaining
<1>4. paid = msg.paid + link
  <2>1. msg.paid \in Nat /\ msg.cost \in 0..(INF - 1)
    BY <1>2
  <2> HIDE DEF link, rest
  <2>2. INF \in Int /\ msg.paid + link \in Int /\ msg.paid + link < INF
    BY <1>2, <1>3, <2>1, RoutingAssumption
  <2>3. Min({INF, msg.paid + link}) \in {INF, msg.paid + link}
        /\ Min({INF, msg.paid + link}) <= msg.paid + link
    BY <2>2, MinOfTwo
  <2>4. QED
    BY <2>2, <2>3 DEF link
<1> HIDE DEF hop, link, rest, paid
<1>5. /\ msg'.at = hop /\ msg'.to = to /\ msg'.paid = paid /\ msg'.cost = msg.cost
  BY <1>1, <1>2
<1>6. paid \in Nat /\ paid + rest = msg.cost /\ rest < Remaining
  <2>1. msg.paid \in Nat
    BY <1>2
  <2>2. QED
    BY <1>2, <1>3, <1>4, <2>1
<1>7. msg' \in [at : iter_node, to : iter_node, cost : 0..(INF - 1), paid : Nat]
  BY <1>1, <1>2, <1>3, <1>6
<1>8. Remaining' = rest
  BY <1>1, <1>5 DEF Remaining, rest
<1>9. QED
  BY <1>1, <1>3, <1>5, <1>6, <1>7, <1>8 DEF Pays

\* At the end of its way a message has nothing left to pay.
LEMMA PaysItsCost ==
    ASSUME Pays, phase = "forwarding" => \A e \in iter_node : table[<<e, e>>].second = 0
    PROVE  MessagePaysItsCost
<1> SUFFICES ASSUME phase = "forwarding"
             PROVE  msg.paid + (IF msg.at = msg.to THEN 0 ELSE table[<<msg.at, msg.to>>].second)
                        = msg.cost
  BY DEF MessagePaysItsCost
<1>1. /\ msg \in [at : iter_node, to : iter_node, cost : 0..(INF - 1), paid : Nat]
      /\ msg.paid + Remaining = msg.cost
  BY DEF Pays
<1>2. CASE msg.at = msg.to
  <2>1. Remaining = 0
    BY <1>1, <1>2 DEF Remaining
  <2>2. QED
    BY <1>1, <1>2, <2>1
<1>3. CASE msg.at # msg.to
  BY <1>1, <1>3 DEF Remaining
<1>4. QED
  BY <1>2, <1>3

============================================================================
