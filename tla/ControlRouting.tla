--------------------------- MODULE ControlRouting ---------------------------
(***************************************************************************)
(* How overlay packets find their way.  A publication compiles the rows of *)
(* nodes and links into one configuration per node: for every other node's *)
(* address the link to the next hop on the control tree.  Every node       *)
(* applies its configuration when it fetches it, so that nodes forward by  *)
(* configurations of different ages, and a node keeps kernel routes that   *)
(* its configuration no longer has.                                        *)
(*                                                                         *)
(* Simplifications:                                                        *)
(*  - A publication is one step (ConfigPublish has its races), and deleted *)
(*    nodes fetch nothing.                                                 *)
(*  - Only nodes without children, whose enrollment is over, are deleted   *)
(*    (Enrollment has the races), and overlay addresses are distinct.      *)
(*  - An application succeeds (ConfigApply has its failures) and is one    *)
(*    step; tunnels come up when both ends have them.                      *)
(*  - Interface names do not collide between different pairs of nodes.     *)
(*  - Who dials whom, and the repair of endpoints, are left out: the       *)
(*    initiator of a link always dials it.                                 *)
(***************************************************************************)
EXTENDS Naturals, FiniteSets, FiniteSetsExt

CONSTANTS
  Node,        \* every node that ever exists
  Controller,  \* the controller's own node
  Founder,     \* the control parent of every node enrolled before the run starts
  FirstLink,   \* the numbers of their links, in the order of their creation
  Addr,        \* overlay addresses
  FirstAddr,   \* theirs and the controller's
  NULL,
  MaxEnrolls,  \* bound: enrollments
  MaxEdits     \* bound: links created, deleted, enabled or disabled, nodes deleted

OneToOne(f) == \A x, y \in DOMAIN f : f[x] = f[y] => x = y

\* The founders and the controller are a tree, and their addresses are distinct.
ASSUME RoutingAssumption ==
  /\ Controller \in Node /\ IsFiniteSet(Node) /\ Addr \subseteq Nat
  /\ DOMAIN Founder \subseteq Node \ {Controller}
  /\ \A n \in DOMAIN Founder : Founder[n] \in DOMAIN Founder \cup {Controller}
  /\ \A S \in SUBSET DOMAIN Founder : S # {} => \E n \in S : Founder[n] \notin S
  /\ FirstLink \in [DOMAIN Founder -> Nat \ {0}] /\ OneToOne(FirstLink)
  /\ FirstAddr \in [DOMAIN Founder \cup {Controller} -> Addr] /\ OneToOne(FirstAddr)
  /\ NULL \notin Node \cup Addr /\ \A S \in SUBSET Addr : S # NULL
  /\ {MaxEnrolls, MaxEdits} \subseteq Nat

Pair == UNION {{{a, b} : b \in Node \ {a}} : a \in Node}

Counters == {"enrolls", "edits"}

VARIABLES
  alive,    \* rows of nodes
  parent,   \* control_parent_id a node was given
  addr,     \* overlay address a node was given; both outlive the row
  links,    \* rows of wireguard_links, numbered in the order of their creation: the
            \* ends and a status, Pending, Active or Disabled
  joining,  \* nodes whose enrollment has not written the link yet
  asked,    \* calls of handleCreateLink that have found no link between a pair
  desired,  \* s.desired: the links of every node's configuration
  dev,      \* per node and neighbour, the AllowedIPs of the device, if there is one
  route,    \* per node and address, the neighbour whose device the route names
  used,     \* counters against the bounds
  \* history
  reused,   \* addresses given to two nodes
  raced     \* two creations of one link overlapped

dbVars      == <<alive, parent, addr, links>>
kernelVars  == <<dev, route>>
routingVars == <<dbVars, joining, asked, desired, kernelVars, used, reused, raced>>

Spend(counter, limit) ==
  /\ used[counter] < limit
  /\ used' = [used EXCEPT ![counter] = @ + 1]

-----------------------------------------------------------------------------
(* Compile.                                                                *)

Enabled(l) == l.status = "Active"

LinkToward(a, b) == {i \in DOMAIN links : Enabled(links[i]) /\ links[i].ends = {a, b}}

HasDirectLink(a, b) == LinkToward(a, b) # {}

\* A node and those above it.
Above(n) ==
  LET closed == {S \in SUBSET Node :
                   n \in S /\ \A m \in S : parent[m] # NULL => parent[m] \in S}
  IN {m \in Node : \A S \in closed : m \in S}

\* The nodes whose edges to their parents make up the path between two nodes.
ControlTreePath(src, dst) ==
  LET ups == Above(src)  downs == Above(dst) IN
  IF ups \cap downs = {} THEN {} ELSE (ups \ downs) \cup (downs \ ups)

FirstHop(src, dst) ==
  LET down == {m \in Above(dst) : parent[m] = src}
  IN IF down = {} THEN parent[src] ELSE CHOOSE m \in down : TRUE

\* Variant: only the first edge must have an enabled link.
ControlNextHopUnchecked(src, dst) ==
  IF ControlTreePath(src, dst) = {} \/ ~HasDirectLink(src, FirstHop(src, dst))
  THEN 0
  ELSE Min(LinkToward(src, FirstHop(src, dst)))

\* Variant: the shortest path of one or two enabled links, whether on the tree or not.
ControlNextHopShortest(src, dst) ==
  LET via == {p \in Node : HasDirectLink(src, p) /\ HasDirectLink(p, dst)}
      hops == IF HasDirectLink(src, dst) THEN LinkToward(src, dst)
              ELSE UNION {LinkToward(src, p) : p \in via}
  IN IF hops = {} THEN 0 ELSE Min(hops)

\* The first enabled link to the next node of the path, 0 if there is none.
ControlNextHop(src, dst) ==
  LET path == ControlTreePath(src, dst) IN
  IF path = {} \/ \E m \in path : ~HasDirectLink(m, parent[m])
  THEN 0
  ELSE Min(LinkToward(src, FirstHop(src, dst)))

\* The links of a node's configuration: all that are not disabled, whether they
\* are on the tree or not.
Compile(n, nodes) ==
  LET hops == {[to |-> m, link |-> ControlNextHop(n, m)] : m \in nodes \ {n}}
  IN [i \in {j \in DOMAIN links : n \in links[j].ends /\ links[j].status # "Disabled"} |->
        [peer    |-> CHOOSE p \in links[i].ends : p # n,
         allowed |-> {addr[h.to] : h \in {g \in hops : g.link = i}}]]

-----------------------------------------------------------------------------
(* What an agent's netd makes of a configuration.                          *)

\* Of several links to a neighbour, which share the name of the interface, the
\* last one configures the device.
Reconcile(n) ==
  LET cfg == desired[n] IN
  [p \in Node |-> LET mine == {k \in DOMAIN cfg : cfg[k].peer = p}
                  IN IF mine = {} THEN NULL ELSE cfg[Max(mine)].allowed]

\* A route is replaced and never removed, except with its device.
RouteTo(n, a, old) ==
  LET carriers == {k \in DOMAIN desired[n] : a \in desired[n][k].allowed} IN
  IF carriers # {} THEN desired[n][Max(carriers)].peer
  ELSE IF old # NULL /\ Reconcile(n)[old] = NULL THEN NULL ELSE old

\* The founders' configurations are published and applied.
RoutingInit ==
  /\ alive = DOMAIN FirstAddr
  /\ parent = [n \in Node |-> IF n \in DOMAIN Founder THEN Founder[n] ELSE NULL]
  /\ addr = [n \in Node |-> IF n \in alive THEN FirstAddr[n] ELSE NULL]
  /\ links = [i \in {FirstLink[n] : n \in DOMAIN Founder} |->
                LET n == CHOOSE n \in DOMAIN Founder : FirstLink[n] = i
                IN [ends |-> {n, Founder[n]}, status |-> "Active"]]
  /\ desired = [n \in Node |-> IF n \in alive THEN Compile(n, alive) ELSE NULL]
  /\ dev = [n \in Node |-> IF n \in alive THEN Reconcile(n) ELSE [p \in Node |-> NULL]]
  /\ route = [n \in Node |-> [a \in Addr |-> IF n \in alive THEN RouteTo(n, a, NULL) ELSE NULL]]
  /\ joining = {} /\ asked = [pair \in Pair |-> 0]
  /\ used = [k \in Counters |-> 0]
  /\ reused = {} /\ raced = FALSE

-----------------------------------------------------------------------------
(* Rows of nodes and links.                                                *)

Between(pair) == \E i \in DOMAIN links : links[i].ends = pair

\* The creation of a link between the two is in progress.
Creating(pair) == asked[pair] > 0 \/ \E n \in joining : pair = {n, parent[n]}

AddLink(pair, status) ==
  LET new == Max(DOMAIN links \cup {0}) + 1 IN
  links' = [i \in DOMAIN links \cup {new} |->
              IF i = new THEN [ends |-> pair, status |-> status] ELSE links[i]]

\* handleEnroll: the node's row with the lowest free address, and later its link.
Enroll(n, p) ==
  LET taken == {addr[m] : m \in alive}
      a == Min(Addr \ taken) IN
  /\ n \notin alive /\ addr[n] = NULL /\ p \in alive
  /\ Addr # taken
  /\ Spend("enrolls", MaxEnrolls)
  /\ alive' = alive \cup {n} /\ parent' = [parent EXCEPT ![n] = p]
  /\ addr' = [addr EXCEPT ![n] = a]
  /\ joining' = joining \cup {n}
  /\ reused' = IF \E m \in Node : addr[m] = a THEN reused \cup {a} ELSE reused
  /\ UNCHANGED <<links, asked, desired, kernelVars, raced>>

JoinLink(n) ==
  /\ n \in joining
  /\ AddLink({n, parent[n]}, "Active")
  /\ joining' = joining \ {n}
  /\ UNCHANGED <<alive, parent, addr, asked, desired, kernelVars, used, reused, raced>>

\* handleCreateLink: the check.
LinkExistsBetween(pair) ==
  /\ pair \subseteq alive
  /\ ~Between(pair)
  /\ Spend("edits", MaxEdits)
  /\ asked' = [asked EXCEPT ![pair] = @ + 1]
  /\ raced' = (raced \/ Creating(pair))
  /\ UNCHANGED <<dbVars, joining, desired, kernelVars, reused>>

\* handleCreateLink: the row; the foreign keys refuse it when an end is gone.
CreateLink(pair, status) ==
  /\ asked[pair] > 0 /\ status \in {"Pending", "Active"}
  /\ asked' = [asked EXCEPT ![pair] = @ - 1]
  /\ IF pair \subseteq alive THEN AddLink(pair, status) ELSE UNCHANGED links
  /\ UNCHANGED <<alive, parent, addr, joining, desired, kernelVars, used, reused, raced>>

SetLinkEnabled(i, on) ==
  /\ i \in DOMAIN links
  /\ Spend("edits", MaxEdits)
  /\ links' = [links EXCEPT ![i].status = IF on THEN "Active" ELSE "Disabled"]
  /\ UNCHANGED <<alive, parent, addr, joining, asked, desired, kernelVars, reused, raced>>

DeleteLink(i) ==
  /\ i \in DOMAIN links
  /\ Spend("edits", MaxEdits)
  /\ links' = [j \in DOMAIN links \ {i} |-> links[j]]
  /\ UNCHANGED <<alive, parent, addr, joining, asked, desired, kernelVars, reused, raced>>

\* The node's row and links, and its entry of s.desired.
DeleteNode(n) ==
  /\ n \in alive \ (joining \cup {Controller})
  /\ \A m \in alive : parent[m] # n
  /\ Spend("edits", MaxEdits)
  /\ alive' = alive \ {n}
  /\ links' = [i \in {j \in DOMAIN links : n \notin links[j].ends} |-> links[i]]
  /\ desired' = [desired EXCEPT ![n] = NULL]
  /\ UNCHANGED <<parent, addr, joining, asked, kernelVars, reused, raced>>

-----------------------------------------------------------------------------
(* Publications and agents.                                                *)

Publish ==
  /\ desired' = [n \in Node |-> IF n \in alive THEN Compile(n, alive) ELSE NULL]
  /\ UNCHANGED <<dbVars, joining, asked, kernelVars, used, reused, raced>>

Apply(n) ==
  /\ n \in alive /\ desired[n] # NULL
  /\ dev' = [dev EXCEPT ![n] = Reconcile(n)]
  /\ route' = [route EXCEPT ![n] = [a \in Addr |-> RouteTo(n, a, route[n][a])]]
  /\ UNCHANGED <<dbVars, joining, asked, desired, used, reused, raced>>

RoutingNext ==
  \/ \E n, p \in Node : Enroll(n, p)
  \/ \E n \in Node : JoinLink(n) \/ DeleteNode(n) \/ Apply(n)
  \/ \E pair \in Pair : LinkExistsBetween(pair)
  \/ \E pair \in Pair, status \in {"Pending", "Active"} : CreateLink(pair, status)
  \/ \E i \in DOMAIN links : DeleteLink(i) \/ \E on \in BOOLEAN : SetLinkEnabled(i, on)
  \/ Publish

RoutingSpec == RoutingInit /\ [][RoutingNext]_routingVars

-----------------------------------------------------------------------------
(* Packets.                                                                *)

\* Where a node sends a packet, by its route and the device's AllowedIPs.
Sends(n, a) ==
  LET p == route[n][a] IN
  IF p # NULL /\ dev[n][p] # NULL /\ a \in dev[n][p] THEN p ELSE NULL

\* The neighbour only takes it when it allows the sender's address on that device.
Takes(p, n, src) == dev[p][n] # NULL /\ src \in dev[p][n]

\* Who holds a packet of src for the address a next; NULL when it is dropped.
Forward(n, src, a, checked) ==
  IF n = NULL \/ addr[n] = a THEN n
  ELSE LET p == Sends(n, a) IN
       IF p # NULL /\ (checked => Takes(p, n, addr[src])) THEN p ELSE NULL

\* Who holds it after as many hops as there are nodes.
Holder(src, a, checked) ==
  LET at[k \in 0..Cardinality(Node)] ==
        IF k = 0 THEN src ELSE Forward(at[k-1], src, a, checked)
  IN at[Cardinality(Node)]

-----------------------------------------------------------------------------
(* Properties.                                                             *)

\* Everything is published and applied.
Settled ==
  /\ \A n \in alive : desired[n] # NULL /\ dev[n] = Reconcile(n)
  /\ \A n \in alive : desired[n] = Compile(n, alive)

\* Once all is published and applied, a packet from any node to any other arrives
\* over every hop, its sender's address accepted by each, exactly when every edge
\* of the tree between them has an enabled link; otherwise the sender itself drops
\* it: no kernel route left behind leads into a hole.  Only two overlapping
\* creations of one link, which leave two rows with one interface, can break this
\* (Compile, ControlNextHop, reconcile, handleCreateLink).
SettledDelivers ==
  Settled /\ ~raced =>
    \A n, m \in alive : n # m =>
      IF ControlNextHop(n, m) # 0 THEN Holder(n, addr[m], TRUE) = m
      ELSE Sends(n, addr[m]) = NULL

\* Whatever mixture of old and new configurations the nodes forward by, no packet
\* circles or is delivered to another node, unless its address was given to two
\* nodes: every configuration sends it along the same tree (Compile,
\* ControlNextHop).
NeverAstray ==
  \A n, m \in Node :
    (addr[n] # NULL /\ addr[m] # NULL /\ addr[m] \notin reused) =>
      Holder(n, addr[m], FALSE) \in {NULL, m}

=============================================================================
