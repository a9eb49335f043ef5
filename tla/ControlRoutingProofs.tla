------------------------- MODULE ControlRoutingProofs -------------------------
(***************************************************************************)
(* Proofs about ControlRouting: packets follow the control tree, for every *)
(* tree, any number of nodes, links, edits and publications, and any       *)
(* mixture of old and new configurations.                                  *)
(***************************************************************************)
EXTENDS ControlRouting, Integers, Sequences, FiniteSetTheorems, WellFoundedInduction, TLAPS

-----------------------------------------------------------------------------
(* Numbers.                                                                *)

Smaller == {p \in Nat \X Nat : p[1] < p[2]}

LEMMA SmallerWellFounded == IsWellFoundedOn(Smaller, Nat)
<1>1. Smaller = OpToRel(<, Nat)
  BY DEF Smaller, OpToRel
<1> QED
  BY <1>1, NatLessThanWellFounded

LEMMA Least ==
  ASSUME NEW S, S \subseteq Nat, S # {}
  PROVE  \E x \in S : \A y \in S : x <= y
<1>1. PICK x \in S : \A y \in S : <<y, x>> \notin Smaller
  BY SmallerWellFounded, WFMin
<1>2. ASSUME NEW y \in S, y < x PROVE FALSE
  <2>1. <<y, x>> \in Smaller
    BY <1>2 DEF Smaller
  <2> QED
    BY <1>1, <2>1
<1> QED
  BY <1>2

\* Induction up to a number, for a set instead of a predicate.
LEMMA UpTo ==
  ASSUME NEW k \in Nat, NEW S, 0 \in S, \A i \in 0 .. k - 1 : i \in S => i + 1 \in S
  PROVE  0 .. k \subseteq S
<1> DEFINE Bad == {i \in 0 .. k : i \notin S}
<1> SUFFICES ASSUME Bad # {} PROVE FALSE
  OBVIOUS
<1>0. Bad \subseteq Nat
  OBVIOUS
<1>1. PICK i \in Bad : \A j \in Bad : i <= j
  <2> HIDE DEF Bad
  <2> QED
    BY <1>0, Least
<1>2. i \in Nat /\ i # 0 /\ i - 1 \in 0 .. k - 1 /\ i - 1 \notin Bad
  BY <1>1
<1> QED
  BY <1>1, <1>2

LEMMA MinIn == ASSUME NEW S, S \subseteq Nat, S # {} PROVE Min(S) \in S
<1>1. \E x \in S : \A y \in S : x <= y
  BY Least
<1> QED
  BY <1>1 DEF Min

LEMMA MaxIn ==
  ASSUME NEW S, S \subseteq Nat, S # {}, NEW b \in Nat, \A x \in S : x <= b
  PROVE  Max(S) \in S /\ \A x \in S : x <= Max(S)
<1> DEFINE T == {b - x : x \in S}
<1>1. T \subseteq Nat /\ T # {}
  <2>1. \A x \in S : x \in Nat /\ x <= b
    OBVIOUS
  <2>2. \A x \in S : b - x \in Nat
    BY <2>1
  <2>3. T \subseteq Nat
    BY <2>2, Zenon
  <2>4. T # {}
    BY Zenon
  <2> QED
    BY <2>3, <2>4
<1>2. PICK t \in T : \A u \in T : t <= u
  BY <1>1, Least
<1>3. PICK x \in S : t = b - x
  OBVIOUS
<1>4. \A y \in S : x >= y
  BY <1>2, <1>3
<1>5. \A y \in S : Max(S) >= y /\ Max(S) \in S
  BY <1>3, <1>4 DEF Max
<1> QED
  BY <1>5

-----------------------------------------------------------------------------
(* A packet's way is well defined.                                         *)

Walk(f, k, src, a, checked) ==
  f = [i \in 0 .. k |-> IF i = 0 THEN src ELSE Forward(f[i - 1], src, a, checked)]

LEMMA WalkExists ==
  ASSUME NEW src, NEW a, NEW checked, NEW k \in Nat
  PROVE  \E f : Walk(f, k, src, a, checked)
<1> DEFINE Good == {j \in Nat : \E f : Walk(f, j, src, a, checked)}
<1>1. 0 \in Good
  <2> DEFINE f == [i \in 0 .. 0 |-> src]
  <2>1. Walk(f, 0, src, a, checked)
    BY DEF Walk
  <2> QED
    BY <2>1
<1>2. ASSUME NEW j \in Nat, j \in Good PROVE j + 1 \in Good
  <2>1. PICK f : Walk(f, j, src, a, checked)
    BY <1>2
  <2> DEFINE h == [i \in 0 .. j + 1 |-> IF i <= j THEN f[i] ELSE Forward(f[j], src, a, checked)]
  <2>2. ASSUME NEW i \in 0 .. j + 1
        PROVE  h[i] = IF i = 0 THEN src ELSE Forward(h[i - 1], src, a, checked)
    <3>1. CASE i = 0
      BY <2>1, <3>1 DEF Walk
    <3>2. CASE i # 0 /\ i <= j
      <4>1. f[i] = Forward(f[i - 1], src, a, checked)
        BY <2>1, <3>2 DEF Walk
      <4>2. h[i] = f[i] /\ h[i - 1] = f[i - 1]
        BY <3>2
      <4> QED
        BY <3>2, <4>1, <4>2
    <3>3. CASE i = j + 1
      <4>1. h[i] = Forward(f[j], src, a, checked) /\ h[i - 1] = f[j]
        BY <3>3
      <4> QED
        BY <3>3, <4>1
    <3> QED
      BY <3>1, <3>2, <3>3
  <2>3. h = [i \in 0 .. j + 1 |-> h[i]]
    OBVIOUS
  <2> HIDE DEF h
  <2>4. Walk(h, j + 1, src, a, checked)
    BY <2>2, <2>3 DEF Walk
  <2> QED
    BY <2>4
<1>3. 0 .. k \subseteq Good
  <2> HIDE DEF Good
  <2> QED
    BY <1>1, <1>2, UpTo
<1> QED
  BY <1>3

\* The holders of a packet, one after the other.
Way(f, src, a, checked) ==
  /\ f[0] = src
  /\ \A k \in 0 .. Cardinality(Node) - 1 : f[k + 1] = Forward(f[k], src, a, checked)
  /\ Holder(src, a, checked) = f[Cardinality(Node)]

LEMMA NodesCounted == Cardinality(Node) \in Nat
BY RoutingAssumption, FS_CardinalityType

LEMMA WayFollowed ==
  ASSUME NEW src, NEW a, NEW checked
  PROVE  \E f : Way(f, src, a, checked)
<1> DEFINE N == Cardinality(Node)
<1> DEFINE at == CHOOSE f : Walk(f, N, src, a, checked)
<1>1. Walk(at, N, src, a, checked)
  <2>1. \E f : Walk(f, N, src, a, checked)
    BY NodesCounted, WalkExists
  <2> QED
    BY <2>1, Zenon
<1>2. Holder(src, a, checked) = at[N]
  BY DEF Holder, Walk
<1> HIDE DEF N, at
<1>3. at[0] = src
  BY <1>1, NodesCounted DEF N, Walk
<1>4. \A k \in 0 .. N - 1 : at[k + 1] = Forward(at[k], src, a, checked)
  BY <1>1, NodesCounted DEF N, Walk
<1>5. at[0] = src /\ (\A k \in 0 .. N - 1 : at[k + 1] = Forward(at[k], src, a, checked)) /\ Holder(src, a, checked) = at[N]
  BY <1>2, <1>3, <1>4
<1>6. Way(at, src, a, checked)
  BY <1>5 DEF N, Way
<1> QED
  BY <1>6

-----------------------------------------------------------------------------
(* The inductive invariant.                                                *)

\* Nodes that have ever been enrolled.
Given == {n \in Node : addr[n] # NULL}

Bounded(S) == \E b \in Nat : \A i \in S : i <= b

Status == {"Pending", "Active", "Disabled"}

Config(cfg) ==
  /\ DOMAIN cfg \subseteq Nat \ {0} /\ Bounded(DOMAIN cfg)
  /\ \A i \in DOMAIN cfg : cfg[i].peer \in Node /\ cfg[i].allowed \subseteq Addr

RowsTypeOK ==
  /\ alive \subseteq Given
  /\ parent \in [Node -> Node \cup {NULL}]
  /\ addr \in [Node -> Addr \cup {NULL}]
  /\ DOMAIN links \subseteq Nat \ {0} /\ Bounded(DOMAIN links)
  /\ \A i \in DOMAIN links :
       links[i] \in [ends : Pair, status : Status] /\ links[i].ends \subseteq Given

RoutingTypeOK ==
  /\ RowsTypeOK
  /\ joining \subseteq alive \ {Controller}
  /\ asked \in [Pair -> Nat] /\ \A pair \in Pair : asked[pair] > 0 => pair \subseteq Given
  /\ DOMAIN desired = Node /\ \A n \in Node : desired[n] # NULL => Config(desired[n])
  /\ dev \in [Node -> [Node -> (SUBSET Addr) \cup {NULL}]]
  /\ route \in [Node -> [Addr -> Node \cup {NULL}]]
  /\ reused \subseteq Addr /\ raced \in BOOLEAN

\* The nodes that were ever enrolled are a tree below the controller, in which
\* those that are left are closed upward.
Family ==
  /\ Controller \in alive /\ parent[Controller] = NULL
  /\ \A n \in Given \ {Controller} : parent[n] \in Given
  /\ \A n \in alive \ {Controller} : parent[n] \in alive
  /\ \A S \in SUBSET (Given \ {Controller}) : S # {} => \E n \in S : parent[n] \notin S

\* An address is that of one row, and of one node ever unless it was reused.
Addresses ==
  /\ \A n, m \in alive : addr[n] = addr[m] => n = m
  /\ \A n, m \in Given : addr[n] = addr[m] /\ addr[n] \notin reused => n = m

\* From p fewer edges of the tree are left to m than from n.
Closer(n, p, m) ==
  /\ p \in Given
  /\ ControlTreePath(p, m) \subseteq ControlTreePath(n, m)
  /\ ControlTreePath(p, m) # ControlTreePath(n, m)

\* Sending to p what is for the address a brings it closer.
Leads(n, p, a) ==
  /\ n \in Given /\ \E m \in Given : addr[m] = a
  /\ a \notin reused => \A m \in Given : addr[m] = a => Closer(n, p, m)

\* A configuration of n allows an address on one link, toward its node.
Guides(n, cfg) ==
  \A i \in DOMAIN cfg : \A a \in cfg[i].allowed :
    /\ Leads(n, cfg[i].peer, a)
    /\ \A j \in DOMAIN cfg : a \in cfg[j].allowed => j = i

Configs == \A n \in Node : desired[n] # NULL => Guides(n, desired[n])

\* What a device allows, the kernel sends there.
Devices ==
  \A n, p \in Node : dev[n][p] # NULL =>
    \A a \in dev[n][p] : route[n][a] = p /\ Leads(n, p, a)

\* Creations that do not overlap leave one link between two nodes.
Creations ==
  ~raced =>
    /\ \A i, j \in DOMAIN links : links[i].ends = links[j].ends => i = j
    /\ \A pair \in Pair : Creating(pair) => ~Between(pair)
    /\ \A pair \in Pair : asked[pair] <= 1
    /\ \A n \in joining : asked[{n, parent[n]}] = 0
    /\ \A n, m \in joining : {n, parent[n]} = {m, parent[m]} => n = m

RoutingInv == RoutingTypeOK /\ Family /\ Addresses /\ Configs /\ Devices /\ Creations

\* Finitely many numbers are bounded.
LEMMA FiniteBounded ==
  ASSUME NEW S, IsFiniteSet(S), NEW f \in [S -> Nat]
  PROVE  Bounded({f[x] : x \in S})
<1>1. PICK seq \in Seq(S) : \A x \in S : \E k \in 1 .. Len(seq) : seq[k] = x
  BY DEF IsFiniteSet
<1>2. Len(seq) \in Nat /\ \A k \in 1 .. Len(seq) : f[seq[k]] \in Nat
  OBVIOUS
<1> DEFINE Below(k, b) == \A j \in 1 .. k : f[seq[j]] <= b
<1> DEFINE Good == {k \in 0 .. Len(seq) : \E b \in Nat : Below(k, b)}
<1>3. 0 \in Good
  <2>1. Below(0, 0) /\ 0 \in 0 .. Len(seq)
    BY <1>2
  <2> QED
    BY <2>1
<1>4. ASSUME NEW k \in 0 .. Len(seq) - 1, k \in Good PROVE k + 1 \in Good
  <2>1. PICK b \in Nat : Below(k, b)
    BY <1>4
  <2>2. f[seq[k + 1]] \in Nat /\ k + 1 \in 0 .. Len(seq)
    BY <1>2
  <2> DEFINE c == IF b <= f[seq[k + 1]] THEN f[seq[k + 1]] ELSE b
  <2>3. c \in Nat /\ b <= c /\ f[seq[k + 1]] <= c
    BY <2>2
  <2> HIDE DEF c
  <2>4. ASSUME NEW j \in 1 .. k + 1 PROVE f[seq[j]] <= c
    <3>1. CASE j = k + 1
      BY <2>3, <3>1
    <3>2. CASE j # k + 1
      <4>1. j \in 1 .. k /\ j \in 1 .. Len(seq)
        BY <1>2, <3>2
      <4>2. f[seq[j]] \in Nat /\ f[seq[j]] <= b
        BY <1>2, <2>1, <4>1
      <4> QED
        BY <2>3, <4>2
    <3> QED
      BY <3>1, <3>2
  <2>5. Below(k + 1, c)
    BY <2>4
  <2> HIDE DEF Below
  <2> QED
    BY <2>2, <2>3, <2>5
<1>5. 0 .. Len(seq) \subseteq Good
  <2> HIDE DEF Good
  <2> QED
    BY <1>2, <1>3, <1>4, UpTo
<1>6. PICK b \in Nat : Below(Len(seq), b)
  <2>1. Len(seq) \in Good
    <3> HIDE DEF Good
    <3> QED
      BY <1>2, <1>5
  <2> QED
    BY <2>1
<1>7. ASSUME NEW x \in S PROVE f[x] <= b
  BY <1>1, <1>6
<1> QED
  BY <1>7 DEF Bounded

-----------------------------------------------------------------------------
(* The tree.                                                               *)

UpClosed(S) == \A m \in S : parent[m] # NULL => parent[m] \in S

LEMMA AboveLeast ==
  ASSUME NEW n \in Node, NEW S \in SUBSET Node, n \in S, UpClosed(S)
  PROVE  Above(n) \subseteq S
BY DEF Above, UpClosed

LEMMA AboveClosed ==
  ASSUME RowsTypeOK, NEW n \in Node
  PROVE  n \in Above(n) /\ Above(n) \subseteq Node /\ UpClosed(Above(n))
<1>1. n \in Above(n) /\ Above(n) \subseteq Node
  BY DEF Above
<1>2. ASSUME NEW m \in Above(n), parent[m] # NULL PROVE parent[m] \in Above(n)
  <2>1. m \in Node /\ parent[m] \in Node
    BY <1>1, <1>2, RoutingAssumption DEF RowsTypeOK
  <2> QED
    BY <1>2, <2>1 DEF Above
<1> QED
  BY <1>1, <1>2 DEF UpClosed

LEMMA AboveWithin ==
  ASSUME RowsTypeOK, NEW n \in Node, NEW x \in Above(n)
  PROVE  Above(x) \subseteq Above(n)
BY AboveClosed, AboveLeast

\* Above a node are the node itself and what is above its parent.
LEMMA AboveParent ==
  ASSUME RowsTypeOK, NEW n \in Node, parent[n] # NULL
  PROVE  parent[n] \in Node /\ Above(n) = {n} \cup Above(parent[n])
<1> DEFINE p == parent[n]
<1>1. p \in Node
  BY DEF RowsTypeOK
<1>2. p \in Above(n)
  BY AboveClosed DEF UpClosed
<1>3. Above(p) \subseteq Above(n) /\ n \in Above(n)
  BY <1>2, AboveWithin, AboveClosed
<1>4. p \in Above(p) /\ Above(p) \subseteq Node /\ UpClosed(Above(p))
  BY <1>1, AboveClosed
<1>5. Above(n) \subseteq {n} \cup Above(p)
  <2>1. UpClosed({n} \cup Above(p))
    BY <1>4 DEF UpClosed
  <2> HIDE DEF p
  <2> QED
    BY <1>4, <2>1, AboveLeast
<1> QED
  BY <1>1, <1>3, <1>5

LEMMA AboveRoot ==
  ASSUME RowsTypeOK, NEW n \in Node, parent[n] = NULL
  PROVE  Above(n) = {n}
<1>1. UpClosed({n})
  BY DEF UpClosed
<1> QED
  BY <1>1, AboveLeast, AboveClosed

\* Every node but the lowest is above as the parent of another.
LEMMA AboveFrom ==
  ASSUME RowsTypeOK, NEW n \in Node, NEW y \in Above(n), y # n
  PROVE  \E x \in Above(n) : parent[x] = y
<1> SUFFICES ASSUME \A x \in Above(n) : parent[x] # y PROVE FALSE
  OBVIOUS
<1> DEFINE S == Above(n) \ {y}
<1>1. n \in S /\ S \subseteq Node /\ UpClosed(S)
  BY AboveClosed DEF UpClosed
<1>2. Above(n) \subseteq S
  <2> HIDE DEF S
  <2> QED
    BY <1>1, AboveLeast
<1> QED
  BY <1>2

LEMMA GivenParent ==
  ASSUME RowsTypeOK, Family, NEW n \in Given
  PROVE  /\ n \in Node
         /\ n # Controller => parent[n] # NULL /\ parent[n] \in Given
         /\ Above(n) \subseteq Given
         /\ n \in alive => Above(n) \subseteq alive
<1>1. Given \subseteq Node /\ alive \subseteq Given
  BY DEF Given, RowsTypeOK
<1>2. \A m \in Given \ {Controller} : parent[m] # NULL
  BY <1>1, RoutingAssumption DEF Family
<1>3. UpClosed(Given) /\ UpClosed(alive)
  BY <1>1 DEF UpClosed, Family
<1>4. Above(n) \subseteq Given
  BY <1>1, <1>3, AboveLeast
<1>5. n \in alive => Above(n) \subseteq alive
  BY <1>1, <1>3, AboveLeast
<1> QED
  BY <1>1, <1>2, <1>4, <1>5 DEF Family

LEMMA ControllerAbove ==
  ASSUME RowsTypeOK, Family, NEW n \in Given
  PROVE  Controller \in Above(n)
<1> SUFFICES ASSUME Controller \notin Above(n) PROVE FALSE
  OBVIOUS
<1>1. n \in Above(n) /\ Above(n) \subseteq Given \ {Controller} /\ UpClosed(Above(n))
  BY GivenParent, AboveClosed
<1>2. PICK x \in Above(n) : parent[x] \notin Above(n)
  BY <1>1 DEF Family
<1>3. parent[x] # NULL
  BY <1>1, GivenParent
<1> QED
  BY <1>1, <1>2, <1>3 DEF UpClosed

\* No node is above its parent.
LEMMA NoCycle ==
  ASSUME RowsTypeOK, Family, NEW n \in Given \ {Controller}
  PROVE  n \notin Above(parent[n])
<1> SUFFICES ASSUME n \in Above(parent[n]) PROVE FALSE
  OBVIOUS
<1> DEFINE S == {x \in Above(n) : n \in Above(x)}
<1>1. n \in Above(n) /\ Above(n) \subseteq Given /\ UpClosed(Above(n)) /\ Given \subseteq Node
  BY GivenParent, AboveClosed DEF Given
<1>2. Above(Controller) = {Controller}
  BY AboveRoot, RoutingAssumption DEF Family
<1>3. S \subseteq Given \ {Controller} /\ S # {}
  BY <1>1, <1>2
<1>4. PICK x \in S : parent[x] \notin S
  <2> HIDE DEF S
  <2> QED
    BY <1>3 DEF Family
<1>5. x \in Given \ {Controller} /\ x \in Above(n) /\ n \in Above(x)
  BY <1>3
<1>6. parent[x] # NULL /\ parent[x] \in Above(n)
  BY <1>1, <1>5, GivenParent DEF UpClosed
<1>7. n \in Above(parent[x])
  <2>1. Above(x) = {x} \cup Above(parent[x])
    BY <1>1, <1>5, <1>6, AboveParent
  <2> QED
    BY <1>5, <2>1
<1> QED
  BY <1>4, <1>6, <1>7

\* Of two nodes above a third, one is above the other.
LEMMA Chain ==
  ASSUME RowsTypeOK, NEW n \in Node, NEW x \in Above(n), NEW y \in Above(n)
  PROVE  x \in Above(y) \/ y \in Above(x)
<1> DEFINE S == Above(x) \cup {z \in Above(n) : x \in Above(z)}
<1>1. n \in Above(n) /\ Above(n) \subseteq Node /\ UpClosed(Above(n))
  BY AboveClosed
<1>2. x \in Above(x) /\ Above(x) \subseteq Node /\ UpClosed(Above(x))
  BY <1>1, AboveClosed
<1>3. ASSUME NEW z \in S, parent[z] # NULL PROVE parent[z] \in S
  <2>1. CASE z \in Above(x)
    BY <1>2, <1>3, <2>1 DEF UpClosed
  <2>2. CASE z \notin Above(x)
    <3>1. z \in Above(n) /\ x \in Above(z) /\ z # x
      BY <1>2, <2>2
    <3>2. Above(z) = {z} \cup Above(parent[z])
      BY <1>1, <1>3, <3>1, AboveParent
    <3>3. parent[z] \in Above(n)
      BY <1>1, <1>3, <3>1 DEF UpClosed
    <3> QED
      BY <3>1, <3>2, <3>3
  <2> QED
    BY <2>1, <2>2
<1>4. UpClosed(S) /\ n \in S /\ S \subseteq Node
  BY <1>1, <1>2, <1>3 DEF UpClosed
<1>5. Above(n) \subseteq S
  <2> HIDE DEF S
  <2> QED
    BY <1>4, AboveLeast
<1> QED
  BY <1>5

\* A node has one child above any node.
LEMMA OneChild ==
  ASSUME RowsTypeOK, Family, NEW n \in Given, NEW x \in Above(n), NEW y \in Above(n),
         x # Controller, parent[x] = parent[y]
  PROVE  x = y
<1> SUFFICES ASSUME x # y PROVE FALSE
  OBVIOUS
<1>1. n \in Node /\ Above(n) \subseteq Given /\ Given \subseteq Node
  BY GivenParent DEF Given
<1>2. parent[x] # NULL /\ y # Controller
  BY <1>1, GivenParent DEF Family
<1>3. Above(x) = {x} \cup Above(parent[x]) /\ Above(y) = {y} \cup Above(parent[x])
  BY <1>1, <1>2, AboveParent
<1>4. x \notin Above(parent[x]) /\ y \notin Above(parent[x])
  BY <1>1, <1>2, NoCycle
<1>5. x \in Above(y) \/ y \in Above(x)
  BY <1>1, Chain
<1> QED
  BY <1>3, <1>4, <1>5

-----------------------------------------------------------------------------
(* Paths and first hops.                                                   *)

LEMMA PathOf ==
  ASSUME RowsTypeOK, Family, NEW n \in Given, NEW m \in Given
  PROVE  ControlTreePath(n, m) = (Above(n) \ Above(m)) \cup (Above(m) \ Above(n))
<1>1. Controller \in Above(n) \cap Above(m)
  BY ControllerAbove
<1> QED
  BY <1>1 DEF ControlTreePath

LEMMA PathBetween ==
  ASSUME RowsTypeOK, Family, NEW n \in Given, NEW m \in Given, n # m
  PROVE  ControlTreePath(n, m) # {}
<1> SUFFICES ASSUME Above(n) = Above(m) PROVE FALSE
  BY PathOf
<1>1. n \in Node /\ m \in Node /\ n \in Above(m) /\ m \in Above(n)
  BY GivenParent, AboveClosed
<1>2. m # Controller
  BY <1>1, AboveRoot DEF Family
<1>3. parent[m] \in Node /\ Above(m) = {m} \cup Above(parent[m]) /\ m \notin Above(parent[m])
  BY <1>1, <1>2, GivenParent, AboveParent, NoCycle
<1>4. Above(n) \subseteq Above(parent[m])
  BY <1>1, <1>3, AboveWithin
<1> QED
  BY <1>1, <1>3, <1>4

\* The edge from e to its parent joins n and p.
Edge(n, p, e) ==
  \/ /\ e = p /\ parent[p] = n
     /\ Above(p) = {p} \cup Above(n) /\ p \notin Above(n)
  \/ /\ e = n /\ parent[n] = p
     /\ Above(n) = {n} \cup Above(p) /\ n \notin Above(p)

LEMMA EdgeAt ==
  ASSUME RowsTypeOK, Family, NEW e \in Given \ {Controller}
  PROVE  Edge(e, parent[e], e) /\ Edge(parent[e], e, e)
BY GivenParent, AboveParent, NoCycle DEF Edge

\* The first hop crosses an edge of the path.
LEMMA HopCrosses ==
  ASSUME RowsTypeOK, Family, NEW n \in Given, NEW m \in Given, n # m
  PROVE  /\ FirstHop(n, m) \in Given /\ FirstHop(n, m) # n
         /\ n \in alive /\ m \in alive => FirstHop(n, m) \in alive
         /\ \E e \in ControlTreePath(n, m) : Edge(n, FirstHop(n, m), e)
<1> DEFINE p == FirstHop(n, m)
<1> DEFINE down == {x \in Above(m) : parent[x] = n}
<1>1. /\ n \in Node /\ m \in Node /\ n # NULL /\ n \in Above(n)
      /\ Above(n) \subseteq Given /\ Above(m) \subseteq Given
      /\ n \in alive => Above(n) \subseteq alive
      /\ m \in alive => Above(m) \subseteq alive
      /\ UpClosed(Above(n)) /\ UpClosed(Above(m))
  BY GivenParent, AboveClosed, RoutingAssumption
<1>2. ControlTreePath(n, m) = (Above(n) \ Above(m)) \cup (Above(m) \ Above(n))
  BY PathOf
<1>3. CASE n \in Above(m)
  <2>1. down # {}
    BY <1>1, <1>3, AboveFrom
  <2>2. p \in down
    <3>1. p = CHOOSE x \in down : TRUE
      BY <2>1 DEF FirstHop
    <3> HIDE DEF p, down
    <3> QED
      BY <2>1, <3>1
  <2>3. p \in Above(m) /\ parent[p] = n
    BY <2>2
  <2>4. p \in Given \ {Controller}
    BY <1>1, <2>3 DEF Family
  <2>5. Edge(n, p, p) /\ p # n
    <3> HIDE DEF p
    <3>1. Above(p) = {p} \cup Above(n) /\ p \notin Above(n)
      BY <1>1, <2>3, <2>4, GivenParent, AboveParent, NoCycle
    <3> QED
      BY <1>1, <2>3, <3>1 DEF Edge
  <2>6. p \in ControlTreePath(n, m)
    <3> HIDE DEF p
    <3>1. p \notin Above(n)
      BY <2>3, <2>4, NoCycle
    <3> QED
      BY <1>2, <2>3, <3>1
  <2> HIDE DEF p
  <2>7. n \in alive /\ m \in alive => p \in alive
    BY <1>1, <2>3
  <2> QED
    BY <2>4, <2>5, <2>6, <2>7 DEF p
<1>4. CASE n \notin Above(m)
  <2>1. down = {}
    BY <1>1, <1>4 DEF UpClosed
  <2>2. p = parent[n]
    BY <2>1 DEF FirstHop
  <2>3. n # Controller
    BY <1>4, ControllerAbove
  <2>4. p \in Given /\ p # NULL /\ p \in Above(n)
    BY <1>1, <2>2, <2>3, GivenParent DEF UpClosed
  <2>5. Edge(n, p, n)
    BY <2>2, <2>3, EdgeAt
  <2>6. p # n /\ n \in ControlTreePath(n, m)
    <3>1. n \notin Above(p) /\ p \in Above(p)
      BY <2>2, <2>3, <2>4, NoCycle, GivenParent, AboveClosed
    <3> QED
      BY <1>1, <1>2, <1>4, <3>1
  <2> HIDE DEF p
  <2>7. n \in alive /\ m \in alive => p \in alive
    BY <1>1, <2>4
  <2> QED
    BY <2>4, <2>5, <2>6, <2>7 DEF p
<1> QED
  BY <1>3, <1>4

\* Crossing an edge takes it off the path, or adds it.
LEMMA PathAcross ==
  ASSUME RowsTypeOK, Family, NEW n \in Given, NEW p \in Given, NEW e, Edge(n, p, e),
         NEW s \in Given
  PROVE  /\ e \in ControlTreePath(n, s) => ControlTreePath(p, s) = ControlTreePath(n, s) \ {e}
         /\ e \notin ControlTreePath(n, s) => ControlTreePath(p, s) = ControlTreePath(n, s) \cup {e}
<1>1. ControlTreePath(n, s) = (Above(n) \ Above(s)) \cup (Above(s) \ Above(n))
  BY PathOf
<1>2. ControlTreePath(p, s) = (Above(p) \ Above(s)) \cup (Above(s) \ Above(p))
  BY PathOf
<1> QED
  BY <1>1, <1>2 DEF Edge

\* The first hop brings a packet closer.
LEMMA HopCloser ==
  ASSUME RowsTypeOK, Family, NEW n \in Given, NEW m \in Given, n # m
  PROVE  Closer(n, FirstHop(n, m), m)
<1>1. PICK e \in ControlTreePath(n, m) : Edge(n, FirstHop(n, m), e)
  BY HopCrosses
<1>2. ControlTreePath(FirstHop(n, m), m) = ControlTreePath(n, m) \ {e}
  BY <1>1, HopCrosses, PathAcross
<1> QED
  BY <1>1, <1>2, HopCrosses DEF Closer

\* From where a packet has come it would come back the same way.
LEMMA HopBack ==
  ASSUME RowsTypeOK, Family, NEW n \in Given, NEW p \in Given, NEW e, Edge(n, p, e),
         NEW s \in Given, e \notin ControlTreePath(n, s)
  PROVE  FirstHop(p, s) = n
<1> DEFINE down == {x \in Above(s) : parent[x] = p}
<1>1. /\ n \in Node /\ p \in Node /\ n # NULL /\ p # NULL /\ s \in Node
      /\ n \in Above(n) /\ p \in Above(p) /\ UpClosed(Above(s)) /\ Above(s) \subseteq Given
  BY GivenParent, AboveClosed, RoutingAssumption
<1>2. ControlTreePath(n, s) = (Above(n) \ Above(s)) \cup (Above(s) \ Above(n))
  BY PathOf
<1>3. CASE e = p /\ parent[p] = n /\ p \notin Above(n)
  <2>1. p \notin Above(s)
    BY <1>2, <1>3
  <2>2. down = {}
    BY <1>1, <2>1 DEF UpClosed
  <2> QED
    BY <1>3, <2>2 DEF FirstHop
<1>4. CASE e = n /\ parent[n] = p
  <2>1. n \in Above(s)
    BY <1>1, <1>2, <1>4
  <2>2. n # Controller
    BY <1>1, <1>4 DEF Family
  <2>3. down = {n}
    BY <1>4, <2>1, <2>2, OneChild
  <2> QED
    BY <2>3 DEF FirstHop
<1> QED
  BY <1>3, <1>4 DEF Edge

\* A node that is enrolled changes no path between those there.
LEMMA PathStable ==
  ASSUME RowsTypeOK, Family, parent' \in [Node -> Node \cup {NULL}],
         \A x \in Given : parent'[x] = parent[x], NEW n \in Given, NEW m \in Given
  PROVE  ControlTreePath(n, m)' = ControlTreePath(n, m)
<1>1. ASSUME NEW y \in Given PROVE Above(y)' = Above(y)
  <2>1. y \in Node /\ y \in Above(y) /\ Above(y) \subseteq Given /\ UpClosed(Above(y)) /\ Given \subseteq Node
    BY GivenParent, AboveClosed DEF Given
  <2>2. Above(y)' \subseteq Above(y)
    <3>1. \A z \in Above(y) : parent'[z] # NULL => parent'[z] \in Above(y)
      BY <2>1 DEF UpClosed
    <3>2. \A S \in SUBSET Node :
            y \in S /\ (\A z \in S : parent'[z] # NULL => parent'[z] \in S) => Above(y)' \subseteq S
      BY DEF Above
    <3> QED
      BY <2>1, <3>1, <3>2
  <2>3. Above(y) \subseteq Above(y)'
    <3> DEFINE T == Above(y) \cap Above(y)'
    <3>1. y \in T /\ T \subseteq Node
      BY <2>1 DEF Above
    <3>2. ASSUME NEW z \in T, parent[z] # NULL PROVE parent[z] \in T
      <4>1. parent[z] \in Above(y) /\ parent'[z] = parent[z] /\ z \in Node /\ parent[z] \in Node
        BY <2>1, <3>2 DEF UpClosed
      <4>2. z \in Above(y)'
        OBVIOUS
      <4>3. parent'[z] \in Above(y)'
        BY <3>2, <4>1, <4>2 DEF Above
      <4> QED
        BY <4>1, <4>3
    <3>3. UpClosed(T)
      BY <3>2 DEF UpClosed
    <3> HIDE DEF T
    <3>4. Above(y) \subseteq T
      BY <2>1, <3>1, <3>3, AboveLeast
    <3> QED
      BY <3>4 DEF T
  <2> QED
    BY <2>2, <2>3
<1>2. Above(n)' = Above(n) /\ Above(m)' = Above(m)
  BY <1>1
<1> QED
  BY <1>2 DEF ControlTreePath

-----------------------------------------------------------------------------
(* What a publication compiles.                                            *)

LEMMA PairOf ==
  ASSUME NEW pair \in Pair, NEW n \in pair
  PROVE  \E p \in Node \ {n} : pair = {n, p} /\ p = CHOOSE q \in pair : q # n
<1>1. PICK a \in Node, b \in Node : a # b /\ pair = {a, b}
  BY DEF Pair
<1>2. \E p \in Node \ {n} : pair = {n, p}
  BY <1>1
<1>3. PICK p \in Node \ {n} : pair = {n, p}
  BY <1>2
<1>4. \E q \in pair : q # n
  BY <1>3
<1>5. (CHOOSE q \in pair : q # n) \in pair /\ (CHOOSE q \in pair : q # n) # n
  BY <1>4
<1> QED
  BY <1>3, <1>5

LEMMA LinkBothWays ==
  ASSUME NEW a, NEW b, NEW c, NEW d, {a, b} = {c, d}
  PROVE  LinkToward(a, b) = LinkToward(c, d)
BY DEF LinkToward

\* A next hop is an enabled link to the next node of a path that has a link
\* for every edge, and there is one for every such path.
LEMMA NextHopOnPath ==
  ASSUME RowsTypeOK, Family, NEW n \in Given, NEW m \in Given, n # m
  PROVE  LET open == \A e \in ControlTreePath(n, m) : HasDirectLink(e, parent[e])
         IN /\ ~open => ControlNextHop(n, m) = 0
            /\ open => ControlNextHop(n, m) \in LinkToward(n, FirstHop(n, m)) \ {0}
<1> DEFINE open == \A e \in ControlTreePath(n, m) : HasDirectLink(e, parent[e])
<1> DEFINE p == FirstHop(n, m)
<1>1. ControlTreePath(n, m) # {}
  BY PathBetween
<1>2. ~open => ControlNextHop(n, m) = 0
  BY DEF ControlNextHop
<1>3. ASSUME open PROVE ControlNextHop(n, m) \in LinkToward(n, p) \ {0}
  <2>1. ControlNextHop(n, m) = Min(LinkToward(n, p))
    BY <1>1, <1>3 DEF ControlNextHop
  <2>2. PICK e \in ControlTreePath(n, m) : Edge(n, p, e)
    BY HopCrosses
  <2>3. {n, p} = {e, parent[e]}
    BY <2>2 DEF Edge
  <2>4. LinkToward(n, p) # {}
    BY <1>3, <2>3, LinkBothWays DEF HasDirectLink
  <2>5. LinkToward(n, p) \subseteq Nat \ {0}
    BY DEF LinkToward, RowsTypeOK
  <2> HIDE DEF p
  <2>6. Min(LinkToward(n, p)) \in LinkToward(n, p)
    BY <2>4, <2>5, MinIn
  <2> QED
    BY <2>1, <2>5, <2>6
<1> QED
  BY <1>2, <1>3

LEMMA CompiledLinks ==
  ASSUME RowsTypeOK, Family, NEW n \in alive
  PROVE  LET cfg == Compile(n, alive) IN
         /\ DOMAIN cfg = {j \in DOMAIN links : n \in links[j].ends /\ links[j].status # "Disabled"}
         /\ \A i \in DOMAIN cfg :
              /\ cfg[i].peer \in Node \ {n} /\ links[i].ends = {n, cfg[i].peer}
              /\ cfg[i].allowed = {addr[m] : m \in {x \in alive \ {n} : ControlNextHop(n, x) = i}}
<1> DEFINE hops == {[to |-> m, link |-> ControlNextHop(n, m)] : m \in alive \ {n}}
<1> DEFINE dom == {j \in DOMAIN links : n \in links[j].ends /\ links[j].status # "Disabled"}
<1> DEFINE cfg == Compile(n, alive)
<1>1. cfg = [i \in dom |-> [peer    |-> CHOOSE p \in links[i].ends : p # n,
                            allowed |-> {addr[h.to] : h \in {g \in hops : g.link = i}}]]
  BY DEF Compile
<1>2. ASSUME NEW i \in dom
      PROVE  /\ cfg[i].peer \in Node \ {n} /\ links[i].ends = {n, cfg[i].peer}
             /\ cfg[i].allowed = {addr[m] : m \in {x \in alive \ {n} : ControlNextHop(n, x) = i}}
  <2>1. cfg[i].peer = (CHOOSE p \in links[i].ends : p # n)
        /\ cfg[i].allowed = {addr[h.to] : h \in {g \in hops : g.link = i}}
    <3> HIDE DEF hops, cfg
    <3> QED
      BY <1>1
  <2>2. links[i].ends \in Pair /\ n \in links[i].ends
    BY DEF RowsTypeOK
  <2>3. cfg[i].peer \in Node \ {n} /\ links[i].ends = {n, cfg[i].peer}
    <3> HIDE DEF cfg
    <3> QED
      BY <2>1, <2>2, PairOf
  <2>4. {addr[h.to] : h \in {g \in hops : g.link = i}}
          = {addr[m] : m \in {x \in alive \ {n} : ControlNextHop(n, x) = i}}
    <3>1. ASSUME NEW m \in {x \in alive \ {n} : ControlNextHop(n, x) = i}
          PROVE  \E h \in {g \in hops : g.link = i} : addr[m] = addr[h.to]
      <4> DEFINE h == [to |-> m, link |-> ControlNextHop(n, m)]
      <4>1. h \in hops /\ h.link = i /\ h.to = m
        OBVIOUS
      <4> HIDE DEF h, hops
      <4> QED
        BY <4>1
    <3>2. ASSUME NEW h \in {g \in hops : g.link = i}
          PROVE  \E m \in {x \in alive \ {n} : ControlNextHop(n, x) = i} : addr[h.to] = addr[m]
      <4>1. PICK m \in alive \ {n} : h = [to |-> m, link |-> ControlNextHop(n, m)]
        OBVIOUS
      <4>2. h.to = m /\ h.link = ControlNextHop(n, m) /\ h.link = i
        BY <4>1
      <4> HIDE DEF hops
      <4> QED
        BY <4>2
    <3> HIDE DEF hops
    <3> QED
      BY <3>1, <3>2
  <2> QED
    BY <2>1, <2>3, <2>4
<1>3. DOMAIN cfg = dom
  <2> HIDE DEF hops
  <2> QED
    BY <1>1
<1> HIDE DEF hops, cfg
<1> QED
  BY <1>2, <1>3 DEF cfg

LEMMA CompiledGuides ==
  ASSUME RowsTypeOK, Family, Addresses, NEW n \in alive
  PROVE  Config(Compile(n, alive)) /\ Guides(n, Compile(n, alive))
<1> DEFINE cfg == Compile(n, alive)
<1>1. /\ DOMAIN cfg = {j \in DOMAIN links : n \in links[j].ends /\ links[j].status # "Disabled"}
      /\ \A i \in DOMAIN cfg :
           /\ cfg[i].peer \in Node \ {n} /\ links[i].ends = {n, cfg[i].peer}
           /\ cfg[i].allowed = {addr[m] : m \in {x \in alive \ {n} : ControlNextHop(n, x) = i}}
  BY CompiledLinks
<1> HIDE DEF cfg
<1>2. /\ alive \subseteq Given /\ Given \subseteq Node
      /\ \A m \in alive : addr[m] \in Addr
      /\ DOMAIN links \subseteq Nat \ {0} /\ Bounded(DOMAIN links)
  BY DEF RowsTypeOK, Given
<1>3. Config(cfg)
  <2>1. DOMAIN cfg \subseteq Nat \ {0} /\ Bounded(DOMAIN cfg)
    BY <1>1, <1>2 DEF Bounded
  <2>2. ASSUME NEW i \in DOMAIN cfg PROVE cfg[i].peer \in Node /\ cfg[i].allowed \subseteq Addr
    BY <1>1, <1>2
  <2> QED
    BY <2>1, <2>2 DEF Config
<1>4. ASSUME NEW i \in DOMAIN cfg, NEW a \in cfg[i].allowed
      PROVE  /\ Leads(n, cfg[i].peer, a)
             /\ \A j \in DOMAIN cfg : a \in cfg[j].allowed => j = i
  <2>1. PICK m \in alive \ {n} : ControlNextHop(n, m) = i /\ a = addr[m]
    BY <1>1
  <2>2. i \in LinkToward(n, FirstHop(n, m))
    <3>1. i # 0
      BY <1>1, <1>2
    <3> QED
      BY <1>2, <2>1, <3>1, NextHopOnPath
  <2>3. cfg[i].peer = FirstHop(n, m)
    <3>1. links[i].ends = {n, FirstHop(n, m)} /\ links[i].ends = {n, cfg[i].peer}
      BY <1>1, <2>2 DEF LinkToward
    <3>2. FirstHop(n, m) # n
      BY <1>2, <2>1, HopCrosses
    <3> QED
      BY <3>1, <3>2
  <2>4. Leads(n, cfg[i].peer, a)
    <3>1. Closer(n, cfg[i].peer, m)
      BY <1>2, <2>1, <2>3, HopCloser
    <3>2. ASSUME a \notin reused, NEW x \in Given, addr[x] = a PROVE x = m
      BY <1>2, <2>1, <3>2 DEF Addresses
    <3> QED
      BY <1>2, <2>1, <3>1, <3>2 DEF Leads
  <2>5. ASSUME NEW j \in DOMAIN cfg, a \in cfg[j].allowed PROVE j = i
    <3>1. PICK x \in alive \ {n} : ControlNextHop(n, x) = j /\ a = addr[x]
      BY <1>1, <2>5
    <3>2. x = m
      BY <2>1, <3>1 DEF Addresses
    <3> QED
      BY <2>1, <3>1, <3>2
  <2> QED
    BY <2>4, <2>5
<1>5. Guides(n, cfg)
  BY <1>4 DEF Guides
<1> QED
  BY <1>3, <1>5 DEF cfg

-----------------------------------------------------------------------------
(* What an agent makes of its configuration.                               *)

LEMMA ReconciledDevice ==
  ASSUME NEW n \in Node, Config(desired[n]), NEW p \in Node
  PROVE  /\ Reconcile(n)[p] \in (SUBSET Addr) \cup {NULL}
         /\ Reconcile(n)[p] # NULL =>
              \E i \in DOMAIN desired[n] :
                /\ desired[n][i].peer = p /\ desired[n][i].allowed = Reconcile(n)[p]
                /\ \A k \in DOMAIN desired[n] : desired[n][k].peer = p => k <= i
         /\ (\E i \in DOMAIN desired[n] : desired[n][i].peer = p) => Reconcile(n)[p] # NULL
<1> DEFINE cfg == desired[n]
<1> DEFINE mine == {k \in DOMAIN cfg : cfg[k].peer = p}
<1>1. Reconcile(n)[p] = IF mine = {} THEN NULL ELSE cfg[Max(mine)].allowed
  BY DEF Reconcile
<1>2. ASSUME mine # {}
      PROVE  Max(mine) \in DOMAIN cfg /\ cfg[Max(mine)].peer = p /\ \A k \in mine : k <= Max(mine)
  <2>1. mine \subseteq Nat
    BY DEF Config
  <2>2. PICK b \in Nat : \A k \in mine : k <= b
    BY DEF Config, Bounded
  <2>3. Max(mine) \in mine /\ \A k \in mine : k <= Max(mine)
    <3> HIDE DEF mine
    <3> QED
      BY <1>2, <2>1, <2>2, MaxIn
  <2> QED
    BY <2>3
<1>3. ASSUME mine # {} PROVE cfg[Max(mine)].allowed \in SUBSET Addr
  BY <1>2, <1>3 DEF Config
<1>4. ASSUME mine # {} PROVE cfg[Max(mine)].allowed # NULL
  BY <1>3, <1>4, RoutingAssumption
<1>5. ASSUME NEW i \in DOMAIN cfg, cfg[i].peer = p PROVE mine # {}
  BY <1>5
<1>6. ASSUME Reconcile(n)[p] # NULL
      PROVE  \E i \in DOMAIN cfg : cfg[i].peer = p /\ cfg[i].allowed = Reconcile(n)[p]
                                   /\ \A k \in DOMAIN cfg : cfg[k].peer = p => k <= i
  <2>1. mine # {}
    BY <1>1, <1>6
  <2>2. \A k \in DOMAIN cfg : cfg[k].peer = p => k \in mine
    OBVIOUS
  <2> HIDE DEF mine
  <2> QED
    BY <1>1, <1>2, <2>1, <2>2
<1> HIDE DEF mine
<1> QED
  BY <1>1, <1>3, <1>4, <1>5, <1>6

LEMMA RoutedOn ==
  ASSUME NEW n \in Node, Config(desired[n]), Guides(n, desired[n]), NEW a \in Addr,
         NEW old \in Node \cup {NULL}
  PROVE  /\ RouteTo(n, a, old) \in Node \cup {NULL}
         /\ \A i \in DOMAIN desired[n] :
              a \in desired[n][i].allowed => RouteTo(n, a, old) = desired[n][i].peer
<1> DEFINE cfg == desired[n]
<1> DEFINE carriers == {k \in DOMAIN cfg : a \in cfg[k].allowed}
<1>1. CASE carriers = {}
  <2>1. RouteTo(n, a, old) \in {old, NULL}
    BY <1>1 DEF RouteTo
  <2> QED
    BY <1>1, <2>1
<1>2. CASE carriers # {}
  <2>1. RouteTo(n, a, old) = cfg[Max(carriers)].peer
    BY <1>2 DEF RouteTo
  <2>2. carriers \subseteq Nat
    BY DEF Config
  <2>3. PICK b \in Nat : \A k \in carriers : k <= b
    BY DEF Config, Bounded
  <2>4. Max(carriers) \in carriers
    <3> HIDE DEF carriers
    <3> QED
      BY <1>2, <2>2, <2>3, MaxIn
  <2>5. cfg[Max(carriers)].peer \in Node
    BY <2>4 DEF Config
  <2>6. ASSUME NEW i \in DOMAIN cfg, a \in cfg[i].allowed PROVE i = Max(carriers)
    BY <2>4, <2>6 DEF Guides
  <2> QED
    BY <2>1, <2>5, <2>6
<1> QED
  BY <1>1, <1>2

\* A device and the routes that a node sets up together agree.
LEMMA AppliedAgree ==
  ASSUME NEW n \in Node, Config(desired[n]), Guides(n, desired[n]), NEW p \in Node,
         Reconcile(n)[p] # NULL, NEW a \in Reconcile(n)[p], NEW old \in Node \cup {NULL}
  PROVE  RouteTo(n, a, old) = p /\ Leads(n, p, a)
<1>1. PICK i \in DOMAIN desired[n] :
        desired[n][i].peer = p /\ desired[n][i].allowed = Reconcile(n)[p]
  BY ReconciledDevice
<1>2. a \in Addr
  BY <1>1 DEF Config
<1>3. RouteTo(n, a, old) = p
  BY <1>1, <1>2, RoutedOn
<1>4. Leads(n, p, a)
  BY <1>1 DEF Guides
<1> QED
  BY <1>3, <1>4

-----------------------------------------------------------------------------
(* The invariant holds at first.                                           *)

LEMMA FirstRows ==
  ASSUME RoutingInit
  PROVE  RowsTypeOK /\ Family /\ Addresses /\ Given = alive
<1>1. /\ alive = DOMAIN Founder \cup {Controller} /\ alive \subseteq Node
      /\ Controller \notin DOMAIN Founder
  BY RoutingAssumption DEF RoutingInit
<1>2. \A n \in Node : parent[n] = IF n \in DOMAIN Founder THEN Founder[n] ELSE NULL
  BY DEF RoutingInit
<1>3. \A n \in Node : addr[n] = IF n \in alive THEN FirstAddr[n] ELSE NULL
  BY DEF RoutingInit
<1>4. \A n \in alive : FirstAddr[n] \in Addr /\ FirstAddr[n] # NULL
  BY <1>1, RoutingAssumption
<1>5. Given = alive
  BY <1>1, <1>3, <1>4 DEF Given
<1>6. /\ parent \in [Node -> Node \cup {NULL}]
      /\ addr \in [Node -> Addr \cup {NULL}]
  <2>1. \A n \in DOMAIN Founder : Founder[n] \in Node
    BY <1>1, RoutingAssumption
  <2> QED
    BY <1>1, <1>4, <2>1 DEF RoutingInit
<1>7. DOMAIN links = {FirstLink[n] : n \in DOMAIN Founder}
  BY DEF RoutingInit
<1>8. DOMAIN links \subseteq Nat \ {0} /\ Bounded(DOMAIN links)
  <2>1. DOMAIN links \subseteq Nat \ {0}
    BY <1>7, RoutingAssumption
  <2>2. IsFiniteSet(DOMAIN Founder)
    BY <1>1, RoutingAssumption, FS_Subset
  <2>3. Bounded(DOMAIN links)
    <3>1. FirstLink \in [DOMAIN Founder -> Nat]
      BY RoutingAssumption
    <3> QED
      BY <1>7, <2>2, <3>1, FiniteBounded
  <2> QED
    BY <2>1, <2>3
<1>9. ASSUME NEW i \in DOMAIN links
      PROVE  links[i] \in [ends : Pair, status : Status] /\ links[i].ends \subseteq Given
  <2>1. PICK n \in DOMAIN Founder : links[i] = [ends |-> {n, Founder[n]}, status |-> "Active"]
    <3> DEFINE n == CHOOSE n \in DOMAIN Founder : FirstLink[n] = i
    <3>1. n \in DOMAIN Founder
      BY <1>7
    <3>2. links[i] = [ends |-> {n, Founder[n]}, status |-> "Active"]
      BY <1>7 DEF RoutingInit
    <3> QED
      BY <3>1, <3>2
  <2>2. n \in alive /\ Founder[n] \in alive /\ Founder[n] # n
    <3>1. \E x \in {n} : Founder[x] \notin {n}
      BY RoutingAssumption
    <3> QED
      BY <1>1, <3>1, RoutingAssumption
  <2>3. {n, Founder[n]} \in Pair
    BY <1>1, <2>2 DEF Pair
  <2>4. links[i] \in [ends : Pair, status : Status]
    BY <2>1, <2>3 DEF Status
  <2>5. links[i].ends = {n, Founder[n]}
    BY <2>1
  <2> QED
    BY <1>5, <2>2, <2>4, <2>5
<1>10. Family
  <2>1. Controller \in alive /\ parent[Controller] = NULL
    BY <1>1, <1>2
  <2>2. \A n \in alive \ {Controller} : parent[n] \in alive
    BY <1>1, <1>2, RoutingAssumption
  <2>3. ASSUME NEW S \in SUBSET (Given \ {Controller}), S # {} PROVE \E n \in S : parent[n] \notin S
    <3>1. S \in SUBSET DOMAIN Founder /\ S \subseteq Node
      BY <1>1, <1>5
    <3>2. PICK n \in S : Founder[n] \notin S
      BY <2>3, <3>1, RoutingAssumption
    <3> QED
      BY <1>2, <3>1, <3>2
  <2> QED
    BY <1>5, <2>1, <2>2, <2>3 DEF Family
<1>11. Addresses
  <2>1. ASSUME NEW n \in alive, NEW m \in alive, addr[n] = addr[m] PROVE n = m
    <3>1. FirstAddr[n] = FirstAddr[m] /\ DOMAIN FirstAddr = alive
      BY <1>1, <1>3, <2>1, RoutingAssumption
    <3> QED
      BY <3>1, RoutingAssumption DEF OneToOne
  <2> QED
    BY <1>5, <2>1 DEF Addresses
<1> QED
  BY <1>5, <1>6, <1>8, <1>9, <1>10, <1>11 DEF RowsTypeOK

LEMMA FirstConfigs ==
  ASSUME RoutingInit
  PROVE  RoutingTypeOK /\ Configs /\ Devices
<1>1. RowsTypeOK /\ Family /\ Addresses /\ Given = alive /\ alive \subseteq Node
  BY FirstRows DEF Given
<1>2. /\ DOMAIN desired = Node
      /\ \A n \in Node : desired[n] = IF n \in alive THEN Compile(n, alive) ELSE NULL
  BY DEF RoutingInit
<1>3. ASSUME NEW n \in Node, desired[n] # NULL
      PROVE  n \in alive /\ Config(desired[n]) /\ Guides(n, desired[n])
  BY <1>1, <1>2, <1>3, CompiledGuides
<1>4. ASSUME NEW n \in alive PROVE Config(desired[n]) /\ Guides(n, desired[n])
  BY <1>1, <1>2, CompiledGuides
<1>5. /\ dev = [n \in Node |-> IF n \in alive THEN Reconcile(n) ELSE [p \in Node |-> NULL]]
      /\ route = [n \in Node |-> [a \in Addr |-> IF n \in alive THEN RouteTo(n, a, NULL) ELSE NULL]]
  BY DEF RoutingInit
<1>6. ASSUME NEW n \in Node PROVE dev[n] \in [Node -> (SUBSET Addr) \cup {NULL}]
  <2>1. CASE n \in alive
    <3>1. dev[n] = Reconcile(n)
      BY <1>5, <2>1
    <3>2. Reconcile(n) = [p \in Node |-> Reconcile(n)[p]]
      BY DEF Reconcile
    <3>3. \A p \in Node : Reconcile(n)[p] \in (SUBSET Addr) \cup {NULL}
      BY <1>4, <2>1, ReconciledDevice
    <3> QED
      BY <3>1, <3>2, <3>3
  <2>2. CASE n \notin alive
    BY <1>5, <2>2
  <2> QED
    BY <2>1, <2>2
<1>7. ASSUME NEW n \in Node PROVE route[n] \in [Addr -> Node \cup {NULL}]
  <2>1. CASE n \in alive
    <3>1. route[n] = [a \in Addr |-> RouteTo(n, a, NULL)]
      BY <1>5, <2>1
    <3>2. \A a \in Addr : RouteTo(n, a, NULL) \in Node \cup {NULL}
      BY <1>4, <2>1, RoutedOn
    <3> QED
      BY <3>1, <3>2
  <2>2. CASE n \notin alive
    BY <1>5, <2>2
  <2> QED
    BY <2>1, <2>2
<1>8. RoutingTypeOK
  <2>1. dev \in [Node -> [Node -> (SUBSET Addr) \cup {NULL}]]
    BY <1>5, <1>6
  <2>2. route \in [Node -> [Addr -> Node \cup {NULL}]]
    BY <1>5, <1>7
  <2>3. joining = {} /\ asked = [pair \in Pair |-> 0] /\ reused = {} /\ raced = FALSE
    BY DEF RoutingInit
  <2>4. asked \in [Pair -> Nat] /\ \A pair \in Pair : ~ (asked[pair] > 0)
    BY <2>3
  <2> QED
    BY <1>1, <1>2, <1>3, <2>1, <2>2, <2>3, <2>4 DEF RoutingTypeOK
<1>9. Configs
  BY <1>3 DEF Configs
<1>10. ASSUME NEW n \in Node, NEW p \in Node, dev[n][p] # NULL, NEW a \in dev[n][p]
       PROVE  route[n][a] = p /\ Leads(n, p, a)
  <2>1. n \in alive /\ dev[n] = Reconcile(n)
    BY <1>5, <1>10
  <2>2. a \in Addr
    BY <1>10, <1>6
  <2>3. route[n][a] = RouteTo(n, a, NULL)
    BY <1>5, <2>1, <2>2
  <2> QED
    BY <1>4, <1>10, <2>1, <2>3, AppliedAgree
<1>11. Devices
  BY <1>10 DEF Devices
<1> QED
  BY <1>8, <1>9, <1>11

LEMMA FirstCreations ==
  ASSUME RoutingInit
  PROVE  Creations
<1>1. joining = {} /\ asked = [pair \in Pair |-> 0]
  BY DEF RoutingInit
<1>2. \A pair \in Pair : asked[pair] = 0 /\ ~Creating(pair)
  BY <1>1 DEF Creating
<1>3. ASSUME NEW i \in DOMAIN links, NEW j \in DOMAIN links, links[i].ends = links[j].ends
      PROVE  i = j
  <2>1. DOMAIN links = {FirstLink[n] : n \in DOMAIN Founder}
    BY DEF RoutingInit
  <2>2. ASSUME NEW k \in DOMAIN links
        PROVE  \E n \in DOMAIN Founder : FirstLink[n] = k /\ links[k].ends = {n, Founder[n]}
    <3> DEFINE n == CHOOSE n \in DOMAIN Founder : FirstLink[n] = k
    <3>1. n \in DOMAIN Founder /\ FirstLink[n] = k
      BY <2>1
    <3>2. links[k] = [ends |-> {n, Founder[n]}, status |-> "Active"]
      BY <2>1 DEF RoutingInit
    <3>3. links[k].ends = {n, Founder[n]}
      BY <3>2
    <3> HIDE DEF n
    <3> QED
      BY <3>1, <3>3
  <2>3. PICK n \in DOMAIN Founder : FirstLink[n] = i /\ links[i].ends = {n, Founder[n]}
    BY <2>2
  <2>4. PICK m \in DOMAIN Founder : FirstLink[m] = j /\ links[j].ends = {m, Founder[m]}
    BY <2>2
  <2>5. \E x \in {n, m} : Founder[x] \notin {n, m}
    BY RoutingAssumption
  <2>6. n = m
    BY <1>3, <2>3, <2>4, <2>5
  <2> QED
    BY <2>3, <2>4, <2>6
<1> QED
  BY <1>1, <1>2, <1>3 DEF Creations

LEMMA RoutingInvInit == RoutingInit => RoutingInv
BY FirstRows, FirstConfigs, FirstCreations DEF RoutingInv

-----------------------------------------------------------------------------
(* Every step keeps the rows a tree.                                       *)

LEMMA LinkAdded ==
  ASSUME RowsTypeOK, NEW pair \in Pair, NEW status \in Status, AddLink(pair, status)
  PROVE  \E new \in Nat \ {0} :
           /\ new \notin DOMAIN links /\ DOMAIN links' = DOMAIN links \cup {new}
           /\ links'[new] = [ends |-> pair, status |-> status]
           /\ \A i \in DOMAIN links : links'[i] = links[i]
           /\ Bounded(DOMAIN links')
<1> DEFINE D == DOMAIN links \cup {0}
<1> DEFINE new == Max(D) + 1
<1>1. PICK b \in Nat : \A i \in DOMAIN links : i <= b
  BY DEF RowsTypeOK, Bounded
<1>2. D \subseteq Nat /\ D # {} /\ \A i \in D : i <= b
  BY <1>1 DEF RowsTypeOK
<1>3. Max(D) \in D /\ \A i \in D : i <= Max(D)
  <2> HIDE DEF D
  <2> QED
    BY <1>2, MaxIn
<1>4. new \in Nat \ {0} /\ new \notin DOMAIN links /\ \A i \in DOMAIN links : i <= new
  <2>1. \A i \in DOMAIN links : i \in Nat /\ i <= Max(D)
    BY <1>2, <1>3
  <2> QED
    BY <1>2, <1>3, <2>1
<1>5. links' = [i \in DOMAIN links \cup {new} |->
                  IF i = new THEN [ends |-> pair, status |-> status] ELSE links[i]]
  BY DEF AddLink
<1> HIDE DEF new
<1>6. Bounded(DOMAIN links')
  BY <1>4, <1>5 DEF Bounded
<1> QED
  BY <1>4, <1>5, <1>6

LEMMA Enrolled ==
  ASSUME RowsTypeOK, NEW n \in Node, NEW p \in Node, Enroll(n, p)
  PROVE  /\ n \notin Given /\ p \in alive /\ Given' = Given \cup {n} /\ alive' = alive \cup {n}
         /\ parent' \in [Node -> Node \cup {NULL}] /\ parent'[n] = p
         /\ addr'[n] \in Addr /\ addr'[n] \notin {addr[m] : m \in alive}
         /\ reused' = IF \E m \in Given : addr[m] = addr'[n] THEN reused \cup {addr'[n]} ELSE reused
         /\ \A m \in Node \ {n} : parent'[m] = parent[m] /\ addr'[m] = addr[m]
<1> DEFINE a == Min(Addr \ {addr[m] : m \in alive})
<1>1. /\ n \notin alive /\ addr[n] = NULL /\ p \in alive
      /\ alive' = alive \cup {n} /\ parent' = [parent EXCEPT ![n] = p] /\ links' = links
      /\ addr' = [addr EXCEPT ![n] = a]
      /\ reused' = IF \E m \in Node : addr[m] = a THEN reused \cup {a} ELSE reused
  BY DEF Enroll
<1>2. a \in Addr \ {addr[m] : m \in alive}
  <2>1. \A m \in alive : addr[m] \in Addr
    BY DEF RowsTypeOK, Given
  <2>2. Addr \ {addr[m] : m \in alive} # {} /\ Addr \subseteq Nat
    BY <2>1, RoutingAssumption DEF Enroll
  <2> QED
    BY <2>2, MinIn
<1> HIDE DEF a
<1>3. a # NULL
  BY <1>2, RoutingAssumption
<1>4. addr'[n] = a /\ \A m \in Node \ {n} : addr'[m] = addr[m]
  BY <1>1 DEF RowsTypeOK
<1>5. parent'[n] = p /\ (\A m \in Node \ {n} : parent'[m] = parent[m])
      /\ parent' \in [Node -> Node \cup {NULL}]
  BY <1>1 DEF RowsTypeOK
<1>6. n \notin Given /\ Given' = Given \cup {n}
  BY <1>1, <1>3, <1>4 DEF Given
<1>7. (\E m \in Node : addr[m] = a) <=> \E m \in Given : addr[m] = a
  BY <1>3 DEF Given
<1> QED
  BY <1>1, <1>2, <1>4, <1>5, <1>6, <1>7

LEMMA RowsStep ==
  ASSUME RoutingTypeOK, Family, [RoutingNext]_routingVars
  PROVE  RowsTypeOK'
<1>1. RowsTypeOK /\ Given \subseteq Node /\ joining \subseteq alive \ {Controller}
      /\ {"Pending", "Active", "Disabled"} = Status
  BY DEF RoutingTypeOK, Given, Status
<1>2. ASSUME UNCHANGED dbVars PROVE RowsTypeOK'
  BY <1>1, <1>2 DEF RowsTypeOK, Given, dbVars
<1>3. ASSUME UNCHANGED <<alive, parent, addr>>, NEW pair \in Pair, NEW status \in Status,
             pair \subseteq Given, AddLink(pair, status)
      PROVE  RowsTypeOK'
  <2>1. PICK new \in Nat \ {0} :
           /\ new \notin DOMAIN links /\ DOMAIN links' = DOMAIN links \cup {new}
           /\ links'[new] = [ends |-> pair, status |-> status]
           /\ \A i \in DOMAIN links : links'[i] = links[i]
           /\ Bounded(DOMAIN links')
    BY <1>1, <1>3, LinkAdded
  <2>2. links'[new] \in [ends : Pair, status : Status] /\ links'[new].ends = pair
    BY <2>1
  <2>3. Given' = Given
    BY <1>3 DEF Given
  <2> QED
    BY <1>1, <1>3, <2>1, <2>2, <2>3 DEF RowsTypeOK
<1>4. ASSUME NEW n \in Node, NEW p \in Node, Enroll(n, p) PROVE RowsTypeOK'
  <2>1. /\ Given' = Given \cup {n} /\ alive' = alive \cup {n} /\ links' = links
        /\ parent' \in [Node -> Node \cup {NULL}] /\ addr'[n] \in Addr
        /\ \A m \in Node \ {n} : addr'[m] = addr[m]
        /\ addr' = [addr EXCEPT ![n] = addr'[n]]
    <3>1. PICK a : addr' = [addr EXCEPT ![n] = a]
      BY <1>4, Zenon DEF Enroll
    <3>2. addr'[n] = a
      BY <1>1, <3>1 DEF RowsTypeOK
    <3>3. links' = links
      BY <1>4 DEF Enroll
    <3> QED
      BY <1>1, <1>4, <3>1, <3>2, <3>3, Enrolled
  <2>2. addr' \in [Node -> Addr \cup {NULL}]
    BY <1>1, <2>1 DEF RowsTypeOK
  <2> QED
    BY <1>1, <2>1, <2>2 DEF RowsTypeOK
<1>5. ASSUME NEW n \in Node, JoinLink(n) PROVE RowsTypeOK'
  <2>1. n \in alive \ {Controller} /\ parent[n] \in alive /\ AddLink({n, parent[n]}, "Active")
        /\ UNCHANGED <<alive, parent, addr>>
    BY <1>1, <1>5 DEF JoinLink, Family
  <2>2. n \in Given /\ parent[n] \in Given /\ parent[n] # n
    <3>1. n \in Given \ {Controller}
      BY <1>1, <2>1 DEF RowsTypeOK
    <3>2. n \notin Above(parent[n]) /\ parent[n] \in Given
      BY <1>1, <3>1, NoCycle, GivenParent
    <3>3. n \in Above(n)
      BY <1>1, <3>1, AboveClosed
    <3> QED
      BY <3>1, <3>2, <3>3
  <2>3. {n, parent[n]} \in Pair
    BY <1>1, <2>2 DEF Pair
  <2> QED
    BY <1>1, <1>3, <2>1, <2>2, <2>3
<1>6. ASSUME NEW pair \in Pair, NEW status \in {"Pending", "Active"}, CreateLink(pair, status)
      PROVE  RowsTypeOK'
  <2>1. CASE pair \subseteq alive
    <3>1. AddLink(pair, status) /\ UNCHANGED <<alive, parent, addr>> /\ pair \subseteq Given
          /\ status \in Status
      BY <1>1, <1>6, <2>1 DEF CreateLink, RowsTypeOK
    <3> QED
      BY <1>3, <3>1
  <2>2. CASE ~ (pair \subseteq alive)
    BY <1>2, <1>6, <2>2 DEF CreateLink, dbVars
  <2> QED
    BY <2>1, <2>2
<1>7. ASSUME NEW i \in DOMAIN links, NEW on \in BOOLEAN, SetLinkEnabled(i, on) PROVE RowsTypeOK'
  <2> DEFINE st == IF on THEN "Active" ELSE "Disabled"
  <2>1. links' = [links EXCEPT ![i].status = st] /\ UNCHANGED <<alive, parent, addr>>
    BY <1>7 DEF SetLinkEnabled
  <2>2. st \in Status
    BY <1>1
  <2>3. ASSUME NEW j \in DOMAIN links
        PROVE  links'[j] \in [ends : Pair, status : Status] /\ links'[j].ends = links[j].ends
    BY <1>1, <2>1, <2>2 DEF RowsTypeOK
  <2>4. DOMAIN links' = DOMAIN links /\ Given' = Given
    BY <2>1 DEF Given
  <2> QED
    BY <1>1, <2>1, <2>3, <2>4 DEF RowsTypeOK
<1>8. ASSUME NEW i \in DOMAIN links, DeleteLink(i) PROVE RowsTypeOK'
  <2>1. links' = [j \in DOMAIN links \ {i} |-> links[j]] /\ UNCHANGED <<alive, parent, addr>>
    BY <1>8 DEF DeleteLink
  <2>2. Bounded(DOMAIN links')
    BY <1>1, <2>1 DEF RowsTypeOK, Bounded
  <2> QED
    BY <1>1, <2>1, <2>2 DEF RowsTypeOK, Given
<1>9. ASSUME NEW n \in Node, DeleteNode(n) PROVE RowsTypeOK'
  <2>1. links' = [i \in {j \in DOMAIN links : n \notin links[j].ends} |-> links[i]]
        /\ alive' = alive \ {n} /\ UNCHANGED <<parent, addr>>
    BY <1>9 DEF DeleteNode
  <2>2. Bounded(DOMAIN links')
    BY <1>1, <2>1 DEF RowsTypeOK, Bounded
  <2> QED
    BY <1>1, <2>1, <2>2 DEF RowsTypeOK, Given
<1>10. ASSUME NEW pair \in Pair, LinkExistsBetween(pair) PROVE RowsTypeOK'
  BY <1>2, <1>10 DEF LinkExistsBetween
<1>11. ASSUME NEW n \in Node, Apply(n) PROVE RowsTypeOK'
  BY <1>2, <1>11 DEF Apply
<1>12. ASSUME Publish PROVE RowsTypeOK'
  BY <1>2, <1>12 DEF Publish
<1>13. ASSUME UNCHANGED routingVars PROVE RowsTypeOK'
  BY <1>2, <1>13 DEF routingVars
<1> QED
  BY <1>4, <1>5, <1>6, <1>7, <1>8, <1>9, <1>10, <1>11, <1>12, <1>13 DEF RoutingNext

\* What a step does to the nodes: enrolls one, deletes one, or nothing.
LEMMA NodesStep ==
  ASSUME RoutingTypeOK, [RoutingNext]_routingVars
  PROVE  \/ \E n, p \in Node : Enroll(n, p)
         \/ UNCHANGED <<parent, addr, reused, alive>>
         \/ UNCHANGED <<parent, addr, reused>> /\ \E n \in Node : DeleteNode(n)
<1>1. CASE UNCHANGED routingVars
  BY <1>1 DEF routingVars, dbVars
<1>2. CASE RoutingNext
  BY <1>2 DEF RoutingNext, JoinLink, DeleteNode, Apply, LinkExistsBetween, CreateLink, DeleteLink,
              SetLinkEnabled, Publish, dbVars, kernelVars
<1> QED
  BY <1>1, <1>2

LEMMA FamilyStep ==
  ASSUME RoutingTypeOK, Family, Addresses, [RoutingNext]_routingVars
  PROVE  Family' /\ Addresses'
<1>1. RowsTypeOK /\ alive \subseteq Given /\ Given \subseteq Node
  BY DEF RoutingTypeOK, RowsTypeOK, Given
<1>2. ASSUME NEW n \in Node, NEW p \in Node, Enroll(n, p) PROVE Family' /\ Addresses'
  <2>1. /\ n \notin Given /\ p \in alive /\ Given' = Given \cup {n} /\ alive' = alive \cup {n}
        /\ parent' \in [Node -> Node \cup {NULL}] /\ parent'[n] = p
        /\ addr'[n] \in Addr /\ addr'[n] \notin {addr[m] : m \in alive}
        /\ reused' = IF \E m \in Given : addr[m] = addr'[n] THEN reused \cup {addr'[n]} ELSE reused
        /\ \A m \in Node \ {n} : parent'[m] = parent[m] /\ addr'[m] = addr[m]
    BY <1>1, <1>2, Enrolled
  <2>2. \A m \in Given : m # n /\ parent'[m] = parent[m] /\ addr'[m] = addr[m]
    BY <1>1, <2>1
  <2>3. ASSUME NEW S \in SUBSET (Given' \ {Controller}), S # {} PROVE \E x \in S : parent'[x] \notin S
    <3>1. CASE S = {n}
      BY <1>1, <2>1, <3>1
    <3>2. CASE S # {n}
      <4>1. S \ {n} \in SUBSET (Given \ {Controller}) /\ S \ {n} # {}
        BY <2>1, <2>3, <3>2
      <4>2. PICK x \in S \ {n} : parent[x] \notin S \ {n}
        BY <4>1 DEF Family
      <4>3. parent[x] \in Given
        BY <4>1 DEF Family
      <4> QED
        BY <2>1, <2>2, <4>1, <4>2, <4>3
    <3> QED
      BY <3>1, <3>2
  <2>4. Controller \in Given /\ n # Controller
    BY <1>1, <2>1 DEF Family
  <2>5. Family'
    BY <1>1, <2>1, <2>2, <2>3, <2>4 DEF Family
  <2>6. ASSUME NEW x \in alive', NEW y \in alive', addr'[x] = addr'[y] PROVE x = y
    BY <1>1, <2>1, <2>2, <2>6 DEF Addresses
  <2>7. ASSUME NEW x \in Given', NEW y \in Given', addr'[x] = addr'[y], addr'[x] \notin reused'
        PROVE  x = y
    <3>1. CASE x \in Given /\ y \in Given
      BY <2>1, <2>2, <2>7, <3>1 DEF Addresses
    <3>2. CASE ~(x \in Given /\ y \in Given)
      <4>1. x = n \/ y = n
        BY <2>1, <3>2
      <4>2. addr'[n] \notin reused'
        BY <2>7, <4>1
      <4>3. \A m \in Given : addr[m] # addr'[n]
        BY <2>1, <4>2
      <4> QED
        BY <2>1, <2>2, <2>7, <4>1, <4>3
    <3> QED
      BY <3>1, <3>2
  <2>8. Addresses'
    BY <2>6, <2>7 DEF Addresses
  <2> QED
    BY <2>5, <2>8
<1>3. ASSUME UNCHANGED <<parent, addr, reused, alive>> PROVE Family' /\ Addresses'
  BY <1>3 DEF Family, Addresses, Given
<1>4. ASSUME UNCHANGED <<parent, addr, reused>>, NEW n \in Node, DeleteNode(n)
      PROVE  Family' /\ Addresses'
  <2>1. Given' = Given /\ alive' = alive \ {n} /\ n # Controller /\ \A m \in alive : parent[m] # n
    BY <1>4 DEF DeleteNode, Given
  <2>2. Family'
    BY <1>4, <2>1 DEF Family
  <2>3. Addresses'
    BY <1>4, <2>1 DEF Addresses
  <2> QED
    BY <2>2, <2>3
<1> QED
  BY <1>2, <1>3, <1>4, NodesStep

\* What leads somewhere goes on leading there.
LEMMA LeadsStep ==
  ASSUME RoutingTypeOK, Family, [RoutingNext]_routingVars, NEW n, NEW p, NEW a, Leads(n, p, a)
  PROVE  Leads(n, p, a)'
<1>1. RowsTypeOK /\ Given \subseteq Node
  BY DEF RoutingTypeOK, Given
<1>2. ASSUME UNCHANGED <<parent, addr, reused>> PROVE Leads(n, p, a)'
  <2>1. Given' = Given /\ addr' = addr /\ reused' = reused
    BY <1>2 DEF Given
  <2>2. ASSUME NEW x PROVE Above(x)' = Above(x)
    BY <1>2 DEF Above
  <2>3. ASSUME NEW m PROVE /\ ControlTreePath(n, m)' = ControlTreePath(n, m)
                           /\ ControlTreePath(p, m)' = ControlTreePath(p, m)
    BY <2>2 DEF ControlTreePath
  <2>4. ASSUME NEW m PROVE Closer(n, p, m)' <=> Closer(n, p, m)
    BY <2>1, <2>3 DEF Closer
  <2> QED
    BY <2>1, <2>4 DEF Leads
<1>3. ASSUME NEW x \in Node, NEW y \in Node, Enroll(x, y) PROVE Leads(n, p, a)'
  <2>1. /\ x \notin Given /\ Given' = Given \cup {x}
        /\ parent' \in [Node -> Node \cup {NULL}]
        /\ reused' = IF \E m \in Given : addr[m] = addr'[x] THEN reused \cup {addr'[x]} ELSE reused
        /\ \A m \in Node \ {x} : parent'[m] = parent[m] /\ addr'[m] = addr[m]
    BY <1>1, <1>3, Enrolled
  <2>2. \A m \in Given : parent'[m] = parent[m] /\ addr'[m] = addr[m]
    BY <1>1, <2>1
  <2>3. n \in Given' /\ \E m \in Given' : addr'[m] = a
    BY <2>1, <2>2 DEF Leads
  <2>4. ASSUME a \notin reused', NEW m \in Given', addr'[m] = a PROVE Closer(n, p, m)'
    <3>1. m \in Given /\ addr[m] = a /\ a \notin reused
      BY <2>1, <2>2, <2>4 DEF Leads
    <3>2. n \in Given /\ Closer(n, p, m)
      BY <3>1 DEF Leads
    <3>3. p \in Given
      BY <3>2 DEF Closer
    <3>4. ControlTreePath(n, m)' = ControlTreePath(n, m) /\ ControlTreePath(p, m)' = ControlTreePath(p, m)
      BY <1>1, <2>1, <2>2, <3>1, <3>2, <3>3, PathStable
    <3> QED
      BY <2>1, <3>2, <3>4 DEF Closer
  <2> QED
    BY <2>3, <2>4 DEF Leads
<1> QED
  BY <1>2, <1>3, NodesStep

-----------------------------------------------------------------------------
(* Every step keeps what configurations and devices say.                   *)

LEMMA DesiredStep ==
  ASSUME RoutingTypeOK, [RoutingNext]_routingVars
  PROVE  /\ DOMAIN desired' = Node
         /\ \A n \in Node : \/ desired'[n] = desired[n]
                            \/ desired'[n] = NULL
                            \/ n \in alive /\ desired'[n] = Compile(n, alive)
<1>1. DOMAIN desired = Node
  BY DEF RoutingTypeOK
<1>2. CASE UNCHANGED desired
  BY <1>1, <1>2
<1>3. CASE Publish
  BY <1>3 DEF Publish
<1>4. CASE \E n \in Node : DeleteNode(n)
  BY <1>1, <1>4 DEF DeleteNode
<1> QED
  BY <1>2, <1>3, <1>4 DEF RoutingNext, Enroll, JoinLink, Apply, LinkExistsBetween, CreateLink,
     DeleteLink, SetLinkEnabled, routingVars

LEMMA KernelStep ==
  ASSUME RoutingTypeOK, [RoutingNext]_routingVars
  PROVE  UNCHANGED kernelVars \/ \E n \in Node : Apply(n)
BY DEF RoutingNext, Enroll, JoinLink, LinkExistsBetween, CreateLink, DeleteLink, SetLinkEnabled,
       DeleteNode, Publish, routingVars

LEMMA GuidesStep ==
  ASSUME RoutingTypeOK, Family, [RoutingNext]_routingVars, NEW n, NEW cfg, Guides(n, cfg)
  PROVE  Guides(n, cfg)'
<1>1. ASSUME NEW i \in DOMAIN cfg, NEW a \in cfg[i].allowed
      PROVE  /\ Leads(n, cfg[i].peer, a)'
             /\ \A j \in DOMAIN cfg : a \in cfg[j].allowed => j = i
  BY LeadsStep DEF Guides
<1> QED
  BY <1>1 DEF Guides

LEMMA ConfigsStep ==
  ASSUME RoutingInv, [RoutingNext]_routingVars
  PROVE  Configs' /\ \A n \in Node : desired'[n] # NULL => Config(desired'[n])
<1>1. RoutingTypeOK /\ RowsTypeOK /\ Family /\ Addresses /\ Configs
  BY DEF RoutingInv, RoutingTypeOK
<1>2. ASSUME NEW n \in Node, desired'[n] # NULL
      PROVE  Config(desired'[n]) /\ Guides(n, desired[n])'
  <2>1. PICK cfg : cfg = desired'[n]
    OBVIOUS
  <2>2. Config(cfg) /\ Guides(n, cfg)
    <3>1. CASE desired'[n] = desired[n]
      BY <1>1, <1>2, <2>1, <3>1 DEF RoutingTypeOK, Configs
    <3>2. CASE n \in alive /\ desired'[n] = Compile(n, alive)
      BY <1>1, <2>1, <3>2, CompiledGuides
    <3> QED
      BY <1>1, <1>2, <3>1, <3>2, DesiredStep
  <2>3. Guides(n, cfg)'
    BY <1>1, <2>2, GuidesStep
  <2>4. Guides(n, desired[n])'
    BY <2>1, <2>3 DEF Guides
  <2> QED
    BY <2>1, <2>2, <2>4
<1> QED
  BY <1>2 DEF Configs

LEMMA DevicesStep ==
  ASSUME RoutingInv, [RoutingNext]_routingVars
  PROVE  /\ dev' \in [Node -> [Node -> (SUBSET Addr) \cup {NULL}]]
         /\ route' \in [Node -> [Addr -> Node \cup {NULL}]]
         /\ Devices'
<1>1. /\ RoutingTypeOK /\ Family /\ Configs /\ Devices
      /\ dev \in [Node -> [Node -> (SUBSET Addr) \cup {NULL}]]
      /\ route \in [Node -> [Addr -> Node \cup {NULL}]]
  BY DEF RoutingInv, RoutingTypeOK
<1>2. CASE UNCHANGED kernelVars
  <2>1. dev' = dev /\ route' = route
    BY <1>2 DEF kernelVars
  <2>2. ASSUME NEW n \in Node, NEW p \in Node, dev[n][p] # NULL, NEW a \in dev[n][p]
        PROVE  route[n][a] = p /\ Leads(n, p, a)'
    BY <1>1, <2>2, LeadsStep DEF Devices
  <2>3. Devices'
    BY <2>1, <2>2 DEF Devices
  <2> QED
    BY <1>1, <2>1, <2>3
<1>3. CASE \E x \in Node : Apply(x)
  <2>1. PICK x \in Node : Apply(x)
    BY <1>3
  <2>2. /\ desired[x] # NULL /\ dev' = [dev EXCEPT ![x] = Reconcile(x)]
        /\ route' = [route EXCEPT ![x] = [a \in Addr |-> RouteTo(x, a, route[x][a])]]
    BY <2>1 DEF Apply
  <2>3. Config(desired[x]) /\ Guides(x, desired[x])
    BY <1>1, <2>2 DEF RoutingTypeOK, Configs
  <2>4. Reconcile(x) \in [Node -> (SUBSET Addr) \cup {NULL}]
    <3>1. Reconcile(x) = [p \in Node |-> Reconcile(x)[p]]
      BY DEF Reconcile
    <3>2. \A p \in Node : Reconcile(x)[p] \in (SUBSET Addr) \cup {NULL}
      BY <2>3, ReconciledDevice
    <3> QED
      BY <3>1, <3>2
  <2>5. \A a \in Addr : route[x][a] \in Node \cup {NULL}
    BY <1>1
  <2>6. [a \in Addr |-> RouteTo(x, a, route[x][a])] \in [Addr -> Node \cup {NULL}]
    BY <2>3, <2>5, RoutedOn
  <2>7. /\ dev' \in [Node -> [Node -> (SUBSET Addr) \cup {NULL}]]
        /\ route' \in [Node -> [Addr -> Node \cup {NULL}]]
    BY <1>1, <2>2, <2>4, <2>6
  <2>8. ASSUME NEW n \in Node, NEW p \in Node, dev'[n][p] # NULL, NEW a \in dev'[n][p]
        PROVE  route'[n][a] = p /\ Leads(n, p, a)'
    <3>1. route'[n][a] = p /\ Leads(n, p, a)
      <4>1. CASE n = x
        <5>1. dev'[x] = Reconcile(x)
          BY <1>1, <2>2
        <5>2. a \in Reconcile(x)[p] /\ Reconcile(x)[p] # NULL
          BY <2>8, <4>1, <5>1
        <5>3. a \in Addr
          BY <2>4, <5>2
        <5>4. route'[x][a] = RouteTo(x, a, route[x][a])
          BY <1>1, <2>2, <5>3
        <5> QED
          BY <2>3, <2>5, <4>1, <5>2, <5>3, <5>4, AppliedAgree
      <4>2. CASE n # x
        BY <1>1, <2>2, <2>8, <4>2 DEF Devices
      <4> QED
        BY <4>1, <4>2
    <3> QED
      BY <1>1, <3>1, LeadsStep
  <2>9. Devices'
    BY <2>8 DEF Devices
  <2> QED
    BY <2>7, <2>9
<1> QED
  BY <1>1, <1>2, <1>3, KernelStep

LEMMA TypeStep ==
  ASSUME RoutingInv, [RoutingNext]_routingVars
  PROVE  RoutingTypeOK'
<1>1. /\ RoutingTypeOK /\ RowsTypeOK /\ Family /\ Addresses /\ Controller \in alive
      /\ joining \subseteq alive \ {Controller} /\ asked \in [Pair -> Nat]
      /\ (\A pair \in Pair : asked[pair] > 0 => pair \subseteq Given)
      /\ alive \subseteq Given /\ reused \subseteq Addr /\ raced \in BOOLEAN
  BY DEF RoutingInv, RoutingTypeOK, RowsTypeOK, Family
<1>2. RowsTypeOK'
  BY <1>1, RowsStep
<1>3. Given \subseteq Given' /\ joining' \subseteq alive' \ {Controller} /\ reused' \subseteq Addr
  <2>1. ASSUME NEW n \in Node, NEW p \in Node, Enroll(n, p)
        PROVE  Given \subseteq Given' /\ joining' \subseteq alive' \ {Controller} /\ reused' \subseteq Addr
    <3>1. joining' = joining \cup {n} /\ n \notin alive
      BY <2>1 DEF Enroll
    <3> QED
      BY <1>1, <2>1, <3>1, Enrolled
  <2>2. ASSUME UNCHANGED <<parent, addr, reused, alive>>, joining' \subseteq joining
        PROVE  Given \subseteq Given' /\ joining' \subseteq alive' \ {Controller} /\ reused' \subseteq Addr
    BY <1>1, <2>2 DEF Given
  <2>3. ASSUME NEW n \in Node, DeleteNode(n)
        PROVE  Given \subseteq Given' /\ joining' \subseteq alive' \ {Controller} /\ reused' \subseteq Addr
    BY <1>1, <2>3 DEF DeleteNode, Given
  <2>4. joining' \subseteq joining \/ \E n, p \in Node : Enroll(n, p)
    BY DEF RoutingNext, JoinLink, DeleteNode, Apply, LinkExistsBetween, CreateLink, DeleteLink,
           SetLinkEnabled, Publish, routingVars
  <2> QED
    BY <1>1, <2>1, <2>2, <2>3, <2>4, NodesStep
<1>4. asked' \in [Pair -> Nat] /\ \A pair \in Pair : asked'[pair] > 0 => pair \subseteq Given
  <2>1. CASE UNCHANGED asked
    BY <1>1, <2>1
  <2>2. ASSUME NEW pair \in Pair, LinkExistsBetween(pair)
        PROVE  asked' \in [Pair -> Nat] /\ \A q \in Pair : asked'[q] > 0 => q \subseteq Given
    BY <1>1, <2>2 DEF LinkExistsBetween
  <2>3. ASSUME NEW pair \in Pair, NEW status \in {"Pending", "Active"}, CreateLink(pair, status)
        PROVE  asked' \in [Pair -> Nat] /\ \A q \in Pair : asked'[q] > 0 => q \subseteq Given
    <3>1. asked[pair] > 0 /\ asked' = [asked EXCEPT ![pair] = @ - 1]
      BY <2>3 DEF CreateLink
    <3>2. asked[pair] - 1 \in Nat
      BY <1>1, <3>1
    <3> QED
      BY <1>1, <3>1, <3>2
  <2> QED
    BY <2>1, <2>2, <2>3 DEF RoutingNext, Enroll, JoinLink, DeleteNode, Apply, DeleteLink,
       SetLinkEnabled, Publish, routingVars
<1>5. raced' \in BOOLEAN
  BY <1>1 DEF RoutingNext, Enroll, JoinLink, DeleteNode, Apply, LinkExistsBetween, CreateLink,
              DeleteLink, SetLinkEnabled, Publish, routingVars
<1>6. DOMAIN desired' = Node /\ \A n \in Node : desired'[n] # NULL => Config(desired'[n])
  BY <1>1, DesiredStep, ConfigsStep
<1>7. /\ dev' \in [Node -> [Node -> (SUBSET Addr) \cup {NULL}]]
      /\ route' \in [Node -> [Addr -> Node \cup {NULL}]]
  BY DevicesStep
<1> QED
  BY <1>2, <1>3, <1>4, <1>5, <1>6, <1>7 DEF RoutingTypeOK, Config

-----------------------------------------------------------------------------
(* Every step but overlapping creations keeps links unique.                *)

\* The part of Creations that is about one link.
LEMMA CreationsSame ==
  ASSUME Creations, ~raced, UNCHANGED <<joining, asked, parent>>,
         DOMAIN links' \subseteq DOMAIN links,
         \A i \in DOMAIN links' : links'[i].ends = links[i].ends
  PROVE  Creations'
<1>1. /\ \A i, j \in DOMAIN links : links[i].ends = links[j].ends => i = j
      /\ \A pair \in Pair : Creating(pair) => ~Between(pair)
      /\ \A pair \in Pair : asked[pair] <= 1
      /\ \A n \in joining : asked[{n, parent[n]}] = 0
      /\ \A n, m \in joining : {n, parent[n]} = {m, parent[m]} => n = m
  BY DEF Creations
<1>2. ASSUME NEW pair \in Pair PROVE (Creating(pair) => ~Between(pair))'
  BY <1>1 DEF Creating, Between
<1>3. \A i, j \in DOMAIN links' : links'[i].ends = links'[j].ends => i = j
  BY <1>1
<1> QED
  BY <1>1, <1>2, <1>3 DEF Creations

\* A creation that ends leaves the only link between its two nodes.
LEMMA CreationEnds ==
  ASSUME RowsTypeOK, Creations, ~raced, NEW pair \in Pair, NEW status \in Status, Creating(pair),
         AddLink(pair, status), parent' = parent, joining' \subseteq joining,
         \A q \in Pair : asked'[q] <= asked[q] /\ asked[q] \in Nat /\ asked'[q] \in Nat,
         ~Creating(pair)', \A n \in joining : {n, parent[n]} \in Pair
  PROVE  Creations'
<1>1. /\ \A i, j \in DOMAIN links : links[i].ends = links[j].ends => i = j
      /\ \A q \in Pair : Creating(q) => ~Between(q)
      /\ \A q \in Pair : asked[q] <= 1
      /\ \A n \in joining : asked[{n, parent[n]}] = 0
      /\ \A n, m \in joining : {n, parent[n]} = {m, parent[m]} => n = m
  BY DEF Creations
<1>2. PICK new \in Nat \ {0} :
        /\ new \notin DOMAIN links /\ DOMAIN links' = DOMAIN links \cup {new}
        /\ links'[new] = [ends |-> pair, status |-> status]
        /\ \A i \in DOMAIN links : links'[i] = links[i]
  BY LinkAdded
<1>3. links'[new].ends = pair /\ \A i \in DOMAIN links : links'[i].ends # pair /\ links'[i].ends = links[i].ends
  BY <1>1, <1>2 DEF Between
<1>4. \A i, j \in DOMAIN links' : links'[i].ends = links'[j].ends => i = j
  BY <1>1, <1>2, <1>3
<1>5. ASSUME NEW q \in Pair, Creating(q)' PROVE ~Between(q)'
  <2>1. Creating(q)
    <3>1. CASE asked'[q] > 0
      BY <3>1 DEF Creating
    <3>2. CASE \E n \in joining' : q = {n, parent'[n]}
      BY <3>2 DEF Creating
    <3> QED
      BY <1>5, <3>1, <3>2 DEF Creating
  <2>2. q # pair
    <3>1. ASSUME q = pair PROVE FALSE
      <4>1. asked'[pair] > 0 \/ \E n \in joining' : pair = {n, parent'[n]}
        BY <1>5, <3>1 DEF Creating
      <4> QED
        BY <4>1 DEF Creating
    <3> QED
      BY <3>1
  <2>3. \A i \in DOMAIN links : links[i].ends # q
    BY <1>1, <2>1 DEF Between
  <2> QED
    BY <1>2, <1>3, <2>2, <2>3 DEF Between
<1>6. \A q \in Pair : asked'[q] <= 1
  BY <1>1
<1>7. ASSUME NEW n \in joining' PROVE asked'[{n, parent'[n]}] = 0
  <2>1. {n, parent[n]} \in Pair /\ asked[{n, parent[n]}] = 0
    BY <1>1
  <2> QED
    BY <2>1
<1>8. \A n, m \in joining' : {n, parent'[n]} = {m, parent'[m]} => n = m
  BY <1>1
<1> QED
  BY <1>4, <1>5, <1>6, <1>7, <1>8 DEF Creations

LEMMA CreationsStep ==
  ASSUME RoutingInv, [RoutingNext]_routingVars
  PROVE  Creations'
<1> SUFFICES ASSUME ~raced' PROVE Creations'
  BY DEF Creations
<1>1. /\ RoutingTypeOK /\ RowsTypeOK /\ Family /\ Creations /\ {"Pending", "Active", "Disabled"} = Status
      /\ joining \subseteq alive \ {Controller} /\ alive \subseteq Given /\ Given \subseteq Node
      /\ asked \in [Pair -> Nat] /\ (\A pair \in Pair : asked[pair] > 0 => pair \subseteq Given)
  BY DEF RoutingInv, RoutingTypeOK, RowsTypeOK, Given, Status
<1>2. ~raced
  BY DEF RoutingNext, Enroll, JoinLink, DeleteNode, Apply, LinkExistsBetween, CreateLink,
         DeleteLink, SetLinkEnabled, Publish, routingVars
<1>3. /\ \A i, j \in DOMAIN links : links[i].ends = links[j].ends => i = j
      /\ \A pair \in Pair : Creating(pair) => ~Between(pair)
      /\ \A pair \in Pair : asked[pair] <= 1
      /\ \A n \in joining : asked[{n, parent[n]}] = 0
      /\ \A n, m \in joining : {n, parent[n]} = {m, parent[m]} => n = m
  BY <1>1, <1>2 DEF Creations
<1>4. ASSUME NEW n \in Given \ {Controller}
      PROVE  {n, parent[n]} \in Pair /\ parent[n] \in Given /\ parent[n] # n
  <2>1. n \in Node /\ parent[n] \in Given /\ n \notin Above(parent[n]) /\ n \in Above(n)
    BY <1>1, <1>4, NoCycle, GivenParent, AboveClosed
  <2> QED
    BY <1>1, <2>1 DEF Pair
<1>5. ASSUME UNCHANGED <<links, joining, asked, parent>> PROVE Creations'
  BY <1>1, <1>2, <1>5, CreationsSame
<1>6. ASSUME NEW n \in Node, NEW p \in Node, Enroll(n, p) PROVE Creations'
  <2>1. n \notin Given /\ p \in alive /\ parent'[n] = p /\ \A m \in Node \ {n} : parent'[m] = parent[m]
    BY <1>1, <1>6, Enrolled
  <2>2. links' = links /\ asked' = asked /\ joining' = joining \cup {n}
    BY <1>6 DEF Enroll
  <2>3. \A m \in joining : m \in Given \ {Controller} /\ parent'[m] = parent[m] /\ parent[m] \in Given /\ m # n
    BY <1>1, <1>4, <2>1
  <2>4. \A i \in DOMAIN links : links[i].ends # {n, p}
    BY <1>1, <2>1 DEF RowsTypeOK
  <2>5. {n, p} \in Pair /\ asked[{n, p}] = 0
    <3>1. {n, p} \in Pair
      BY <1>1, <2>1 DEF Pair
    <3> QED
      BY <1>1, <2>1, <3>1
  <2>6. ASSUME NEW pair \in Pair, Creating(pair)' PROVE ~Between(pair)'
    <3>1. asked[pair] > 0 \/ \E m \in joining' : pair = {m, parent'[m]}
      BY <2>2, <2>6 DEF Creating
    <3>2. pair = {n, p} \/ Creating(pair)
      BY <2>1, <2>2, <2>3, <3>1 DEF Creating
    <3> QED
      BY <1>3, <2>2, <2>4, <3>2 DEF Between
  <2>7. ASSUME NEW m \in joining' PROVE asked'[{m, parent'[m]}] = 0
    BY <1>3, <2>1, <2>2, <2>3, <2>5
  <2>8. ASSUME NEW x \in joining', NEW y \in joining', {x, parent'[x]} = {y, parent'[y]} PROVE x = y
    BY <1>3, <2>1, <2>2, <2>3, <2>8
  <2> QED
    BY <1>3, <2>2, <2>6, <2>7, <2>8 DEF Creations
<1>7. ASSUME NEW n \in Node, JoinLink(n) PROVE Creations'
  <2>1. /\ n \in joining /\ AddLink({n, parent[n]}, "Active") /\ joining' = joining \ {n}
        /\ parent' = parent /\ asked' = asked
    BY <1>7 DEF JoinLink
  <2>2. {n, parent[n]} \in Pair /\ Creating({n, parent[n]})
    BY <1>1, <1>4, <2>1 DEF Creating
  <2>3. ~Creating({n, parent[n]})'
    <3>1. asked'[{n, parent[n]}] = 0
      BY <1>3, <2>1
    <3>2. \A m \in joining' : {m, parent'[m]} # {n, parent[n]}
      BY <1>3, <2>1
    <3> QED
      BY <2>1, <3>1, <3>2 DEF Creating
  <2> DEFINE pair == {n, parent[n]}
  <2>4. AddLink(pair, "Active") /\ pair \in Pair /\ Creating(pair) /\ "Active" \in Status
    BY <1>1, <2>1, <2>2
  <2>5. \A q \in Pair : asked'[q] <= asked[q] /\ asked[q] \in Nat /\ asked'[q] \in Nat
    BY <1>1, <2>1
  <2>6. \A m \in joining : {m, parent[m]} \in Pair
    BY <1>1, <1>4
  <2>7. PICK q : q = pair
    OBVIOUS
  <2>8. q \in Pair /\ AddLink(q, "Active") /\ Creating(q) /\ ~Creating(q)'
    <3>1. ~Creating(q)'
      BY <2>1, <2>3, <2>7 DEF Creating
    <3> QED
      BY <2>4, <2>7, <3>1
  <2> QED
    BY <1>1, <1>2, <2>1, <2>4, <2>5, <2>6, <2>8, CreationEnds
<1>8. ASSUME NEW pair \in Pair, LinkExistsBetween(pair) PROVE Creations'
  <2>1. /\ ~Between(pair) /\ ~Creating(pair) /\ asked' = [asked EXCEPT ![pair] = @ + 1]
        /\ UNCHANGED <<links, parent, joining>>
    BY <1>8 DEF LinkExistsBetween, dbVars
  <2>2. asked[pair] = 0 /\ \A n \in joining : {n, parent[n]} # pair
    BY <1>1, <2>1 DEF Creating
  <2>3. asked'[pair] = 1 /\ \A q \in Pair \ {pair} : asked'[q] = asked[q]
    BY <1>1, <2>1, <2>2
  <2>4. ASSUME NEW q \in Pair, Creating(q)' PROVE ~Between(q)'
    <3>1. q = pair \/ Creating(q)
      BY <2>1, <2>3, <2>4 DEF Creating
    <3> QED
      BY <1>3, <2>1, <3>1 DEF Between
  <2>5. ASSUME NEW n \in joining' PROVE asked'[{n, parent'[n]}] = 0
    BY <1>1, <1>3, <1>4, <2>1, <2>2, <2>3
  <2>6. \A q \in Pair : asked'[q] <= 1
    BY <1>3, <2>3
  <2> QED
    BY <1>3, <2>1, <2>4, <2>5, <2>6 DEF Creations
<1>9. ASSUME NEW pair \in Pair, NEW status \in {"Pending", "Active"}, CreateLink(pair, status)
      PROVE  Creations'
  <2>1. /\ asked[pair] > 0 /\ asked' = [asked EXCEPT ![pair] = @ - 1]
        /\ parent' = parent /\ joining' = joining
    BY <1>9 DEF CreateLink
  <2>2. asked[pair] = 1 /\ Creating(pair)
    BY <1>1, <1>3, <2>1 DEF Creating
  <2>3. asked'[pair] = 0 /\ \A q \in Pair \ {pair} : asked'[q] = asked[q]
    BY <1>1, <2>1, <2>2
  <2>4. \A q \in Pair : asked'[q] <= asked[q] /\ asked[q] \in Nat /\ asked'[q] \in Nat
    BY <1>1, <2>2, <2>3
  <2>5. \A n \in joining : {n, parent[n]} # pair /\ {n, parent[n]} \in Pair
    BY <1>1, <1>3, <1>4, <2>1
  <2>6. CASE pair \subseteq alive
    <3>1. AddLink(pair, status) /\ status \in Status
      BY <1>1, <1>9, <2>6 DEF CreateLink
    <3>2. ~Creating(pair)'
      BY <2>1, <2>3, <2>5 DEF Creating
    <3> QED
      BY <1>1, <1>2, <2>1, <2>2, <2>4, <2>5, <3>1, <3>2, CreationEnds
  <2>7. CASE ~ (pair \subseteq alive)
    <3>1. links' = links
      BY <1>9, <2>7 DEF CreateLink
    <3>2. ASSUME NEW q \in Pair, Creating(q)' PROVE ~Between(q)'
      <4>1. Creating(q)
        BY <2>1, <2>4, <3>2 DEF Creating
      <4> QED
        BY <1>3, <3>1, <4>1 DEF Between
    <3>3. \A q \in Pair : asked'[q] <= 1
      BY <1>3, <2>4
    <3>4. \A n \in joining : asked'[{n, parent[n]}] = 0
      BY <1>3, <2>4, <2>5
    <3> QED
      BY <1>3, <2>1, <3>1, <3>2, <3>3, <3>4 DEF Creations
  <2> QED
    BY <2>6, <2>7
<1>10. ASSUME NEW i \in DOMAIN links, NEW on \in BOOLEAN, SetLinkEnabled(i, on) PROVE Creations'
  <2> DEFINE st == IF on THEN "Active" ELSE "Disabled"
  <2>1. links' = [links EXCEPT ![i].status = st] /\ UNCHANGED <<joining, asked, parent>>
    BY <1>10 DEF SetLinkEnabled
  <2>2. DOMAIN links' = DOMAIN links
    BY <2>1
  <2>3. ASSUME NEW j \in DOMAIN links' PROVE links'[j].ends = links[j].ends
    <3>1. links[j] \in [ends : Pair, status : Status]
      BY <1>1, <2>2 DEF RowsTypeOK
    <3> QED
      BY <2>1, <2>2, <3>1
  <2> QED
    BY <1>1, <1>2, <2>1, <2>2, <2>3, CreationsSame
<1>11. ASSUME NEW i \in DOMAIN links, DeleteLink(i) PROVE Creations'
  <2>1. links' = [j \in DOMAIN links \ {i} |-> links[j]] /\ UNCHANGED <<joining, asked, parent>>
    BY <1>11 DEF DeleteLink
  <2> QED
    BY <1>1, <1>2, <2>1, CreationsSame
<1>12. ASSUME NEW n \in Node, DeleteNode(n) PROVE Creations'
  <2>1. links' = [i \in {j \in DOMAIN links : n \notin links[j].ends} |-> links[i]]
        /\ UNCHANGED <<joining, asked, parent>>
    BY <1>12 DEF DeleteNode
  <2> QED
    BY <1>1, <1>2, <2>1, CreationsSame
<1>13. ASSUME NEW n \in Node, Apply(n) PROVE Creations'
  BY <1>5, <1>13 DEF Apply, dbVars
<1>14. ASSUME Publish PROVE Creations'
  BY <1>5, <1>14 DEF Publish, dbVars
<1>15. ASSUME UNCHANGED routingVars PROVE Creations'
  BY <1>5, <1>15 DEF routingVars, dbVars
<1> QED
  BY <1>6, <1>7, <1>8, <1>9, <1>10, <1>11, <1>12, <1>13, <1>14, <1>15 DEF RoutingNext

LEMMA RoutingInvStep == RoutingInv /\ [RoutingNext]_routingVars => RoutingInv'
<1> SUFFICES ASSUME RoutingInv, [RoutingNext]_routingVars PROVE RoutingInv'
  OBVIOUS
<1>1. RoutingTypeOK /\ Family /\ Addresses
  BY DEF RoutingInv
<1> QED
  BY <1>1, TypeStep, FamilyStep, ConfigsStep, DevicesStep, CreationsStep DEF RoutingInv

-----------------------------------------------------------------------------
(* No packet goes astray.                                                  *)

LEMMA PathFinite ==
  ASSUME RowsTypeOK, Family, NEW n \in Given, NEW m \in Given
  PROVE  /\ IsFiniteSet(ControlTreePath(n, m))
         /\ Cardinality(ControlTreePath(n, m)) \in Nat
         /\ Cardinality(ControlTreePath(n, m)) <= Cardinality(Node)
         /\ Cardinality(ControlTreePath(n, m)) = 0 => n = m
<1>1. ControlTreePath(n, m) \in SUBSET Node
  <2>1. Above(n) \subseteq Node /\ Above(m) \subseteq Node
    BY GivenParent, AboveClosed
  <2> QED
    BY <2>1, PathOf
<1>2. IsFiniteSet(ControlTreePath(n, m))
      /\ Cardinality(ControlTreePath(n, m)) <= Cardinality(Node)
  BY <1>1, FS_Subset, RoutingAssumption
<1>3. Cardinality(ControlTreePath(n, m)) \in Nat
  BY <1>2, FS_CardinalityType
<1>4. Cardinality(ControlTreePath(n, m)) = 0 => n = m
  BY <1>2, FS_EmptySet, PathBetween
<1> QED
  BY <1>2, <1>3, <1>4

LEMMA CloserShorter ==
  ASSUME RowsTypeOK, Family, NEW n \in Given, NEW p, NEW m \in Given, Closer(n, p, m)
  PROVE  /\ p \in Given
         /\ Cardinality(ControlTreePath(p, m)) < Cardinality(ControlTreePath(n, m))
<1>1. /\ p \in Given /\ ControlTreePath(p, m) \in SUBSET ControlTreePath(n, m)
      /\ ControlTreePath(p, m) # ControlTreePath(n, m)
  BY DEF Closer
<1>2. /\ Cardinality(ControlTreePath(p, m)) <= Cardinality(ControlTreePath(n, m))
      /\ Cardinality(ControlTreePath(p, m)) # Cardinality(ControlTreePath(n, m))
  BY <1>1, PathFinite, FS_Subset
<1> QED
  BY <1>1, <1>2, PathFinite

LEMMA AstrayInv == RoutingInv => NeverAstray
<1> SUFFICES ASSUME RoutingInv, NEW n \in Given, NEW m \in Given, addr[m] \notin reused
             PROVE  Holder(n, addr[m], FALSE) \in {NULL, m}
  BY DEF NeverAstray, Given
<1>1. /\ RoutingTypeOK /\ RowsTypeOK /\ Family /\ Addresses /\ Devices /\ Given \subseteq Node
      /\ route \in [Node -> [Addr -> Node \cup {NULL}]] /\ addr[m] \in Addr
  BY DEF RoutingInv, RoutingTypeOK, RowsTypeOK, Given
<1> DEFINE N == Cardinality(Node)
<1> DEFINE a == addr[m]
<1> DEFINE far(x) == Cardinality(ControlTreePath(x, m))
<1>2. PICK f : Way(f, n, a, FALSE)
  BY WayFollowed
<1>3. /\ f[0] = n /\ Holder(n, a, FALSE) = f[N] /\ N \in Nat
      /\ \A k \in 0 .. N - 1 : f[k + 1] = Forward(f[k], n, a, FALSE)
  BY <1>2, NodesCounted DEF Way
<1> DEFINE S == {k \in 0 .. N : f[k] \in {NULL, m} \/ (f[k] \in Given /\ far(f[k]) <= N - k)}
<1>4. 0 \in S
  BY <1>1, <1>3, PathFinite
<1>5. ASSUME NEW k \in 0 .. N - 1, k \in S PROVE k + 1 \in S
  <2> DEFINE x == f[k]
  <2>1. f[k + 1] = Forward(x, n, a, FALSE) /\ k + 1 \in 0 .. N
    <3> HIDE DEF N, a
    <3>1. k + 1 \in 0 .. N
      BY <1>3
    <3> QED
      BY <1>3, <3>1, Zenon
  <2>2. CASE x = NULL \/ x = m
    <3>1. f[k + 1] = x
      BY <2>1, <2>2 DEF Forward
    <3> QED
      BY <2>1, <2>2, <3>1
  <2>3. CASE x # NULL /\ x # m
    <3>1. x \in Given /\ far(x) <= N - k
      BY <1>5, <2>3
    <3>2. addr[x] # a
      BY <1>1, <2>3, <3>1 DEF Addresses
    <3> DEFINE p == route[x][a]
    <3>3. f[k + 1] \in {NULL, Sends(x, a)}
      BY <2>1, <2>3, <3>2 DEF Forward
    <3>4. ASSUME Sends(x, a) # NULL PROVE Sends(x, a) \in Given /\ far(Sends(x, a)) < far(x)
      <4>1. p # NULL /\ dev[x][p] # NULL /\ a \in dev[x][p] /\ Sends(x, a) = p
        BY <3>4 DEF Sends
      <4>2. p \in Node
        BY <1>1, <3>1, <4>1
      <4>3. Leads(x, p, a)
        BY <1>1, <3>1, <4>1, <4>2 DEF Devices
      <4>4. Closer(x, p, m)
        BY <4>3 DEF Leads
      <4> HIDE DEF p
      <4> QED
        BY <1>1, <3>1, <4>1, <4>4, CloserShorter
    <3>5. far(x) \in Nat
      BY <1>1, <3>1, PathFinite
    <3>6. ASSUME Sends(x, a) # NULL PROVE far(Sends(x, a)) \in Nat
      BY <1>1, <3>4, <3>6, PathFinite
    <3> HIDE DEF far, x, a
    <3>7. CASE f[k + 1] = NULL
      BY <2>1, <3>7
    <3>8. CASE f[k + 1] # NULL
      <4>1. f[k + 1] \in Given /\ far(f[k + 1]) < far(x) /\ far(f[k + 1]) \in Nat
        BY <3>3, <3>4, <3>6, <3>8
      <4> HIDE DEF N
      <4>2. far(f[k + 1]) <= N - (k + 1)
        BY <1>3, <3>1, <3>5, <4>1
      <4> QED
        BY <2>1, <4>1, <4>2
    <3> QED
      BY <3>7, <3>8
  <2> QED
    BY <2>2, <2>3
<1>6. N \in S
  <2> HIDE DEF S, N
  <2> QED
    BY <1>3, <1>4, <1>5, UpTo
<1>7. f[N] \in {NULL, m} \/ (f[N] \in Given /\ far(f[N]) <= 0)
  <2> HIDE DEF N, far
  <2> QED
    BY <1>3, <1>6
<1>8. ASSUME f[N] \in Given, far(f[N]) <= 0 PROVE f[N] = m
  BY <1>1, <1>8, PathFinite
<1> QED
  BY <1>3, <1>7, <1>8

-----------------------------------------------------------------------------
(* Once all is applied, packets arrive.                                    *)

LEMMA SettledConfig ==
  ASSUME RoutingInv, Settled, NEW n \in alive
  PROVE  LET cfg == desired[n] IN
         /\ DOMAIN cfg = {j \in DOMAIN links : n \in links[j].ends /\ links[j].status # "Disabled"}
         /\ \A k \in DOMAIN cfg :
              /\ cfg[k].peer \in Node \ {n} /\ links[k].ends = {n, cfg[k].peer}
              /\ cfg[k].allowed = {addr[x] : x \in {y \in alive \ {n} : ControlNextHop(n, y) = k}}
<1>1. RowsTypeOK /\ Family
  BY DEF RoutingInv, RoutingTypeOK
<1> DEFINE cfg == Compile(n, alive)
<1>2. /\ DOMAIN cfg = {j \in DOMAIN links : n \in links[j].ends /\ links[j].status # "Disabled"}
      /\ \A k \in DOMAIN cfg :
           /\ cfg[k].peer \in Node \ {n} /\ links[k].ends = {n, cfg[k].peer}
           /\ cfg[k].allowed = {addr[x] : x \in {y \in alive \ {n} : ControlNextHop(n, y) = k}}
  BY <1>1, CompiledLinks
<1>3. desired[n] = cfg
  BY DEF Settled
<1> HIDE DEF cfg
<1> QED
  BY <1>2, <1>3

\* A node sends to the first hop when there is a next hop, and its device allows
\* the address there.
LEMMA SettledSends ==
  ASSUME RoutingInv, Settled, ~raced, NEW n \in alive, NEW m \in alive, n # m,
         ControlNextHop(n, m) # 0
  PROVE  LET p == FirstHop(n, m) IN
         p \in alive /\ Sends(n, addr[m]) = p /\ dev[n][p] # NULL /\ addr[m] \in dev[n][p]
<1> DEFINE p == FirstHop(n, m)
<1> DEFINE i == ControlNextHop(n, m)
<1> DEFINE cfg == desired[n]
<1>1. /\ RoutingTypeOK /\ RowsTypeOK /\ Family /\ Devices /\ Given \subseteq Node /\ alive \subseteq Given
      /\ \A j, k \in DOMAIN links : links[j].ends = links[k].ends => j = k
  BY DEF RoutingInv, RoutingTypeOK, RowsTypeOK, Given, Creations
<1>2. desired[n] # NULL /\ cfg = Compile(n, alive) /\ dev[n] = Reconcile(n)
  BY DEF Settled
<1>3. p \in alive /\ p # n /\ p # NULL
  BY <1>1, HopCrosses, RoutingAssumption
<1>4. i \in LinkToward(n, p)
  BY <1>1, NextHopOnPath
<1>5. /\ DOMAIN cfg = {j \in DOMAIN links : n \in links[j].ends /\ links[j].status # "Disabled"}
      /\ \A k \in DOMAIN cfg :
           /\ cfg[k].peer \in Node \ {n} /\ links[k].ends = {n, cfg[k].peer}
           /\ cfg[k].allowed = {addr[x] : x \in {y \in alive \ {n} : ControlNextHop(n, y) = k}}
  BY SettledConfig
<1>6. i \in DOMAIN links /\ links[i].ends = {n, p} /\ links[i].status = "Active"
  BY <1>4 DEF LinkToward, Enabled
<1>7. addr[m] \in {addr[x] : x \in {y \in alive \ {n} : ControlNextHop(n, y) = i}}
  OBVIOUS
<1> HIDE DEF cfg, i, p
<1>8. i \in DOMAIN cfg /\ addr[m] \in cfg[i].allowed
  BY <1>5, <1>6, <1>7
<1>9. cfg[i].peer = p
  BY <1>3, <1>5, <1>6, <1>8
<1>10. Config(desired[n]) /\ n \in Node /\ p \in Node
  BY <1>1, <1>2, <1>3 DEF RoutingTypeOK
<1>11. Reconcile(n)[p] # NULL
  BY <1>8, <1>9, <1>10, ReconciledDevice DEF cfg
<1>12. PICK k \in DOMAIN cfg : cfg[k].peer = p /\ cfg[k].allowed = Reconcile(n)[p]
  BY <1>10, <1>11, ReconciledDevice DEF cfg
<1>13. k = i
  BY <1>1, <1>5, <1>6, <1>12
<1>14. dev[n][p] # NULL /\ addr[m] \in dev[n][p]
  BY <1>2, <1>8, <1>11, <1>12, <1>13
<1>15. route[n][addr[m]] = p
  BY <1>1, <1>10, <1>14 DEF Devices
<1>16. Sends(n, addr[m]) = p
  BY <1>3, <1>14, <1>15 DEF Sends
<1> QED
  BY <1>3, <1>14, <1>16 DEF p

\* Without a next hop it drops what is for the address.
LEMMA SettledDrops ==
  ASSUME RoutingInv, Settled, NEW n \in alive, NEW m \in alive, n # m,
         ControlNextHop(n, m) = 0
  PROVE  Sends(n, addr[m]) = NULL
<1> SUFFICES ASSUME Sends(n, addr[m]) # NULL PROVE FALSE
  OBVIOUS
<1> DEFINE p == route[n][addr[m]]
<1> DEFINE cfg == desired[n]
<1>1. /\ RoutingTypeOK /\ RowsTypeOK /\ Family /\ Addresses /\ Given \subseteq Node /\ alive \subseteq Given
      /\ DOMAIN links \subseteq Nat \ {0} /\ route \in [Node -> [Addr -> Node \cup {NULL}]]
      /\ addr[m] \in Addr
  BY DEF RoutingInv, RoutingTypeOK, RowsTypeOK, Given
<1>2. desired[n] # NULL /\ cfg = Compile(n, alive) /\ dev[n] = Reconcile(n)
  BY DEF Settled
<1>3. p # NULL /\ dev[n][p] # NULL /\ addr[m] \in dev[n][p]
  BY DEF Sends
<1>4. p \in Node /\ n \in Node /\ Config(desired[n])
  BY <1>1, <1>2, <1>3 DEF RoutingTypeOK
<1>5. /\ DOMAIN cfg = {j \in DOMAIN links : n \in links[j].ends /\ links[j].status # "Disabled"}
      /\ \A k \in DOMAIN cfg :
           /\ cfg[k].peer \in Node \ {n} /\ links[k].ends = {n, cfg[k].peer}
           /\ cfg[k].allowed = {addr[x] : x \in {y \in alive \ {n} : ControlNextHop(n, y) = k}}
  BY SettledConfig
<1> HIDE DEF p
<1>6. PICK i \in DOMAIN cfg : cfg[i].allowed = Reconcile(n)[p]
  BY <1>2, <1>3, <1>4, ReconciledDevice
<1> HIDE DEF cfg
<1>7. PICK x \in alive \ {n} : ControlNextHop(n, x) = i /\ addr[x] = addr[m]
  BY <1>2, <1>3, <1>5, <1>6
<1>8. x = m
  BY <1>7 , <1>1 DEF Addresses
<1> QED
  BY <1>1, <1>5, <1>7, <1>8

\* Where a packet of n for m is along the path between them.
OnPath(n, m, x) ==
  /\ x \in alive
  /\ ControlTreePath(x, n) \cap ControlTreePath(x, m) = {}
  /\ ControlTreePath(x, n) \cup ControlTreePath(x, m) = ControlTreePath(n, m)

LEMMA PathSymmetric ==
  ASSUME RowsTypeOK, Family, NEW n \in Given, NEW m \in Given
  PROVE  ControlTreePath(n, m) = ControlTreePath(m, n) /\ ControlTreePath(n, n) = {}
<1>1. /\ ControlTreePath(n, m) = (Above(n) \ Above(m)) \cup (Above(m) \ Above(n))
      /\ ControlTreePath(m, n) = (Above(m) \ Above(n)) \cup (Above(n) \ Above(m))
      /\ ControlTreePath(n, n) = (Above(n) \ Above(n)) \cup (Above(n) \ Above(n))
  BY PathOf
<1> QED
  BY <1>1

\* It moves on along the path, and the next node takes it.
LEMMA SettledForwards ==
  ASSUME RoutingInv, Settled, ~raced, NEW n \in alive, NEW m \in alive, n # m,
         ControlNextHop(n, m) # 0, NEW x, OnPath(n, m, x), x # m
  PROVE  LET p == FirstHop(x, m) IN
         /\ Forward(x, n, addr[m], TRUE) = p /\ OnPath(n, m, p)
         /\ Cardinality(ControlTreePath(p, m)) < Cardinality(ControlTreePath(x, m))
<1> DEFINE p == FirstHop(x, m)
<1>1. /\ RowsTypeOK /\ Family /\ Addresses /\ Given \subseteq Node /\ alive \subseteq Given
      /\ x \in alive /\ x # NULL
  BY RoutingAssumption DEF RoutingInv, RoutingTypeOK, RowsTypeOK, Given, OnPath
<1>2. \A e \in ControlTreePath(n, m) : HasDirectLink(e, parent[e])
  BY <1>1, NextHopOnPath
<1>3. PICK e \in ControlTreePath(x, m) : Edge(x, p, e)
  BY <1>1, HopCrosses
<1>4. p \in alive /\ p # x
  BY <1>1, HopCrosses
<1>5. Closer(x, p, m)
  BY <1>1, HopCloser
<1> HIDE DEF p
<1>6. e \notin ControlTreePath(x, n)
  BY <1>3 DEF OnPath
<1>7. ControlTreePath(p, m) = ControlTreePath(x, m) \ {e}
      /\ ControlTreePath(p, n) = ControlTreePath(x, n) \cup {e}
  BY <1>1, <1>3, <1>4, <1>6, PathAcross
<1>8. OnPath(n, m, p)
  BY <1>3, <1>4, <1>6, <1>7 DEF OnPath
<1>9. Sends(x, addr[m]) = p
  <2>1. \A q \in ControlTreePath(x, m) : HasDirectLink(q, parent[q])
    BY <1>2 DEF OnPath
  <2>2. ControlNextHop(x, m) # 0
    BY <1>1, <2>1, NextHopOnPath
  <2> QED
    BY <1>1, <2>2, SettledSends DEF p
<1>10. Takes(p, x, addr[n])
  <2>1. p # n
    BY <1>1, <1>7, PathSymmetric
  <2>2. \A q \in ControlTreePath(p, n) : HasDirectLink(q, parent[q])
    BY <1>2, <1>8 DEF OnPath
  <2>3. ControlNextHop(p, n) # 0
    BY <1>1, <1>4, <2>1, <2>2, NextHopOnPath
  <2>4. FirstHop(p, n) = x
    BY <1>1, <1>3, <1>4, <1>6, HopBack
  <2>5. dev[p][x] # NULL /\ addr[n] \in dev[p][x]
    BY <1>4, <2>1, <2>3, <2>4, SettledSends
  <2> QED
    BY <2>5 DEF Takes
<1>11. addr[x] # addr[m]
  BY <1>1 DEF Addresses
<1>12. p # NULL
  BY <1>1, <1>4, RoutingAssumption
<1>13. Forward(x, n, addr[m], TRUE) = p
  BY <1>1, <1>9, <1>10, <1>11, <1>12 DEF Forward
<1>14. Cardinality(ControlTreePath(p, m)) < Cardinality(ControlTreePath(x, m))
  BY <1>1, <1>5, CloserShorter
<1> QED
  BY <1>8, <1>13, <1>14 DEF p

LEMMA DeliversInv == RoutingInv => SettledDelivers
<1> SUFFICES ASSUME RoutingInv, Settled, ~raced, NEW n \in alive, NEW m \in alive, n # m,
                    ControlNextHop(n, m) # 0
             PROVE  Holder(n, addr[m], TRUE) = m
  BY SettledDrops DEF SettledDelivers
<1>1. /\ RowsTypeOK /\ Family /\ Given \subseteq Node /\ alive \subseteq Given
  BY DEF RoutingInv, RoutingTypeOK, RowsTypeOK, Given
<1> DEFINE N == Cardinality(Node)
<1> DEFINE a == addr[m]
<1> DEFINE far(x) == Cardinality(ControlTreePath(x, m))
<1>2. PICK f : Way(f, n, a, TRUE)
  BY WayFollowed
<1>3. /\ f[0] = n /\ Holder(n, a, TRUE) = f[N] /\ N \in Nat
      /\ \A k \in 0 .. N - 1 : f[k + 1] = Forward(f[k], n, a, TRUE)
  BY <1>2, NodesCounted DEF Way
<1> DEFINE S == {k \in 0 .. N : f[k] = m \/ (OnPath(n, m, f[k]) /\ far(f[k]) <= N - k)}
<1>4. 0 \in S
  <2>1. OnPath(n, m, n)
    BY <1>1, PathSymmetric DEF OnPath
  <2> QED
    BY <1>1, <1>3, <2>1, PathFinite
<1>5. ASSUME NEW k \in 0 .. N - 1, k \in S PROVE k + 1 \in S
  <2> DEFINE x == f[k]
  <2>1. f[k + 1] = Forward(x, n, a, TRUE) /\ k + 1 \in 0 .. N
    <3> HIDE DEF N, a
    <3>1. k + 1 \in 0 .. N
      BY <1>3
    <3> QED
      BY <1>3, <3>1, Zenon
  <2>2. CASE x = m
    <3>1. f[k + 1] = m
      BY <2>1, <2>2 DEF Forward
    <3> QED
      BY <2>1, <3>1
  <2>3. CASE x # m
    <3>1. OnPath(n, m, x) /\ far(x) <= N - k
      BY <1>5, <2>3
    <3>2. OnPath(n, m, f[k + 1]) /\ far(f[k + 1]) < far(x)
      <4> HIDE DEF x
      <4> QED
        BY <2>1, <2>3, <3>1, SettledForwards
    <3>3. far(x) \in Nat /\ far(f[k + 1]) \in Nat
      BY <1>1, <3>1, <3>2, PathFinite DEF OnPath
    <3> HIDE DEF far, x, N
    <3>4. far(f[k + 1]) <= N - (k + 1)
      BY <1>3, <3>1, <3>2, <3>3
    <3> QED
      BY <2>1, <3>2, <3>4
  <2> QED
    BY <2>2, <2>3
<1>6. N \in S
  <2> HIDE DEF S, N
  <2> QED
    BY <1>3, <1>4, <1>5, UpTo
<1>7. f[N] = m \/ (OnPath(n, m, f[N]) /\ far(f[N]) <= 0)
  <2> HIDE DEF N, far
  <2> QED
    BY <1>3, <1>6
<1>8. ASSUME OnPath(n, m, f[N]), far(f[N]) <= 0 PROVE f[N] = m
  BY <1>1, <1>8, PathFinite DEF OnPath
<1> QED
  BY <1>3, <1>7, <1>8

-----------------------------------------------------------------------------
(* The theorems.                                                           *)

\* The rows are a tree, configurations and devices lead packets along it, and
\* creations of links that do not overlap leave one link between two nodes.
THEOREM RoutingInvariant == RoutingSpec => []RoutingInv
<1>1. RoutingInit => RoutingInv
  BY RoutingInvInit
<1>2. RoutingInv /\ [RoutingNext]_routingVars => RoutingInv'
  BY RoutingInvStep
<1> QED
  BY <1>1, <1>2, PTL DEF RoutingSpec

\* Whatever mixture of old and new configurations the nodes forward by, no packet
\* circles or is delivered to another node, unless its address was given to two
\* nodes (Compile, ControlNextHop, reconcile).
THEOREM PacketsNeverAstray == RoutingSpec => []NeverAstray
BY RoutingInvariant, AstrayInv, PTL

\* Once all is published and applied, packets arrive exactly where the tree has
\* links for every edge, unless creations of one link overlapped (Compile,
\* ControlNextHop, reconcile, handleCreateLink).
THEOREM SettledNetworkDelivers == RoutingSpec => []SettledDelivers
BY RoutingInvariant, DeliversInv, PTL

=============================================================================
