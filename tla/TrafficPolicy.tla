---------------------------- MODULE TrafficPolicy ----------------------------
(***************************************************************************)
(* Traffic policies in the controller's database.  A policy is a row in    *)
(* four tables: the policy, what it matches, the hops of its path and its  *)
(* configuration.  handleCreatePolicy checks the path against the enabled  *)
(* links and then writes the rows one statement at a time, ignoring every  *)
(* error but the first, while other requests delete nodes and policies     *)
(* and change links.  Foreign keys are enforced (storage.Open), and the    *)
(* single connection makes every statement and transaction one step.       *)
(*                                                                         *)
(* Simplifications:                                                        *)
(*  - Of a row only the columns that name a node are kept.  What a policy  *)
(*    matches has two of them, and one INSERT writes both.                 *)
(*  - Each request creates one policy, so a request names its policy.      *)
(*  - The nodes other than the controller are leaves of the control tree.  *)
(*  - A policy is listed as soon as its first row is there, so it can be   *)
(*    deleted from then on.                                                *)
(***************************************************************************)
EXTENDS Naturals, FiniteSets, Sequences

CONSTANTS
  Node,
  Controller,
  Policy,       \* requests to create a policy, and their policies
  NULL,         \* a column that is NULL
  Stranger,     \* an id in a request that never was a node's
  MaxHops,      \* bound: length of a requested path
  MaxEdits      \* bound: changes of a link

ASSUME PolicyAssumption ==
  /\ Controller \in Node /\ NULL \notin Node /\ Stranger \notin Node \cup {NULL}
  /\ MaxHops \in Nat \ {0, 1} /\ MaxEdits \in Nat

Pair == {{a, b} : a, b \in Node} \ {{a} : a \in Node}

Path == UNION {[1 .. k -> Node] : k \in 2 .. MaxHops}

\* The columns that name nodes, as a request gives them.
Ref    == Node \cup {NULL, Stranger}
Match  == [{"source", "destination"} -> Ref]
Config == [{"egress"} -> Ref]

VARIABLES
  alive,     \* table nodes
  up,        \* pairs of nodes with an enabled link
  policies,  \* table traffic_policies
  matches,   \* traffic_policy_matches: the rows of each policy
  hops,      \* traffic_policy_paths: pairs of an order and a node
  configs,   \* traffic_policy_configs: the rows of each policy
  req,       \* the requests that create the policies
  edits

rowVars == <<policies, matches, hops, configs>>
vars    == <<alive, up, rowVars, req, edits>>

Unsent ==
  [pc |-> "unsent", path |-> << >>, next |-> 1,
   match |-> [c \in {"source", "destination"} |-> NULL], config |-> [c \in {"egress"} |-> NULL]]

Init ==
  /\ alive = Node /\ up = Pair
  /\ policies = {}
  /\ matches = [p \in Policy |-> {}]
  /\ hops = [p \in Policy |-> {}]
  /\ configs = [p \in Policy |-> {}]
  /\ req = [p \in Policy |-> Unsent]
  /\ edits = 0

-----------------------------------------------------------------------------
(* handleCreatePolicy.                                                     *)

\* topology.ValidatePath, HasDirectLink.
ValidatePath(links, path) ==
  /\ \A i, j \in DOMAIN path : path[i] = path[j] => i = j
  /\ \A i \in 2 .. Len(path) : {path[i - 1], path[i]} \in links

\* The links are read once; a rejected request leaves nothing behind.  Only the
\* path is looked at.  Without an egress node the last hop is it.
Validate(p, path, match, config) ==
  /\ req[p].pc = "unsent"
  /\ ValidatePath(up, path)
  /\ req' = [req EXCEPT ![p] =
       [pc |-> "policy", path |-> path, next |-> 1, match |-> match,
        config |-> [c \in {"egress"} |->
                      IF config[c] = NULL THEN path[Len(path)] ELSE config[c]]]]
  /\ UNCHANGED <<alive, up, rowVars, edits>>

CreatePolicy(p) ==
  /\ req[p].pc = "policy"
  /\ policies' = policies \cup {p}
  /\ req' = [req EXCEPT ![p].pc = "match"]
  /\ UNCHANGED <<alive, up, matches, hops, configs, edits>>

\* Variant: the policy's own key is not checked.
StoredAnyway(p, nodes) == nodes \subseteq alive \cup {NULL}

\* A statement fails as a whole when the policy or one of the nodes it names does
\* not exist, and nobody looks.
Stored(p, nodes) == p \in policies /\ nodes \subseteq alive \cup {NULL}

Named(row) == {row[c] : c \in DOMAIN row}

\* Variant: a node that does not exist is stored as NULL, and the row with it.
InsertLoosely(table, p, row) ==
  IF p \in policies
  THEN [table EXCEPT ![p] =
          @ \cup {[c \in DOMAIN row |-> IF row[c] \in alive THEN row[c] ELSE NULL]}]
  ELSE table

Insert(table, p, row) ==
  IF Stored(p, Named(row)) THEN [table EXCEPT ![p] = @ \cup {row}] ELSE table

SavePolicyMatch(p) ==
  /\ req[p].pc = "match"
  /\ matches' = Insert(matches, p, req[p].match)
  /\ req' = [req EXCEPT ![p].pc = "hops"]
  /\ UNCHANGED <<alive, up, policies, hops, configs, edits>>

SavePolicyHop(p) ==
  LET q == req[p]  n == q.path[q.next] IN
  /\ q.pc = "hops" /\ q.next <= Len(q.path)
  /\ hops' = IF Stored(p, {n}) THEN [hops EXCEPT ![p] = @ \cup {<<q.next, n>>}] ELSE hops
  /\ req' = [req EXCEPT ![p].next = @ + 1]
  /\ UNCHANGED <<alive, up, policies, matches, configs, edits>>

SavePolicyConfig(p) ==
  /\ req[p].pc = "hops" /\ req[p].next > Len(req[p].path)
  /\ configs' = Insert(configs, p, req[p].config)
  /\ req' = [req EXCEPT ![p].pc = "done"]
  /\ UNCHANGED <<alive, up, policies, matches, hops, edits>>

-----------------------------------------------------------------------------
(* What else changes these rows and what they refer to.                    *)

\* handleDeletePolicy: one transaction over the four tables.
DeletePolicy(p) ==
  /\ p \in policies
  /\ policies' = policies \ {p}
  /\ matches' = [matches EXCEPT ![p] = {}]
  /\ hops' = [hops EXCEPT ![p] = {}]
  /\ configs' = [configs EXCEPT ![p] = {}]
  /\ UNCHANGED <<alive, up, req, edits>>

\* DeleteNode: its links go, its hops go without renumbering the others, and the
\* columns that name it become NULL.
Cleared(row, n) == [c \in DOMAIN row |-> IF row[c] = n THEN NULL ELSE row[c]]

DeleteNode(n) ==
  /\ n \in alive \ {Controller}
  /\ alive' = alive \ {n}
  /\ up' = {l \in up : n \notin l}
  /\ hops' = [p \in Policy |-> {h \in hops[p] : h[2] # n}]
  /\ matches' = [p \in Policy |-> {Cleared(row, n) : row \in matches[p]}]
  /\ configs' = [p \in Policy |-> {Cleared(row, n) : row \in configs[p]}]
  /\ UNCHANGED <<policies, req, edits>>

\* Links are enabled, disabled, created and deleted without a look at policies.
ChangeLink(l) ==
  /\ edits < MaxEdits /\ l \subseteq alive
  /\ up' = IF l \in up THEN up \ {l} ELSE up \cup {l}
  /\ edits' = edits + 1
  /\ UNCHANGED <<alive, rowVars, req>>

-----------------------------------------------------------------------------

Next ==
  \/ \E p \in Policy, path \in Path, match \in Match, config \in Config :
       Validate(p, path, match, config)
  \/ \E p \in Policy :
       CreatePolicy(p) \/ SavePolicyMatch(p) \/ SavePolicyHop(p)
         \/ SavePolicyConfig(p) \/ DeletePolicy(p)
  \/ \E n \in Node : DeleteNode(n)
  \/ \E l \in Pair : ChangeLink(l)

Spec == Init /\ [][Next]_vars

-----------------------------------------------------------------------------
(* Properties.                                                             *)

\* What became of a row that was asked for: with every node it named it is there;
\* with one that never existed it is not, whatever the other columns say; after a
\* deletion it has lost that node alone, or, when the deletion came first, is not
\* there at all.
Kept(rows, row) ==
  LET now == [c \in DOMAIN row |-> IF row[c] \in alive THEN row[c] ELSE NULL] IN
  /\ rows \in {{}, {now}}
  /\ Named(row) \subseteq alive \cup {NULL} => rows # {}
  /\ Named(row) \subseteq Node \cup {NULL} \/ rows = {}

\* However the deletion of nodes falls between the statements of a creation, the
\* finished policy has the requested path restricted to the nodes there are, at
\* their requested places, and what it matches and its egress are as requested,
\* without a node deleted since, or missing altogether, which happens only when a
\* node they name is missing (handleCreatePolicy, SavePolicyMatch, DeleteNode).
StoredAsRequested ==
  \A p \in policies : req[p].pc = "done" =>
    LET q == req[p] IN
    /\ hops[p] = {<<i, q.path[i]>> : i \in {j \in DOMAIN q.path : q.path[j] \in alive}}
    /\ Kept(matches[p], q.match) /\ Kept(configs[p], q.config)

\* A policy deleted while it is being created leaves no row behind, although the
\* creation goes on, and no row names a node that is gone (DeletePolicy).
NoOrphans ==
  /\ \A p \in Policy \ policies : matches[p] = {} /\ hops[p] = {} /\ configs[p] = {}
  /\ \A p \in Policy : /\ \A row \in matches[p] \cup configs[p] : Named(row) \subseteq alive \cup {NULL}
                       /\ {h[2] : h \in hops[p]} \subseteq alive

=============================================================================
