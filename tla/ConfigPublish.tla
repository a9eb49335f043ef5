---------------------------- MODULE ConfigPublish ----------------------------
(***************************************************************************)
(* How the controller of PathWeaver publishes configurations.  Nodes and   *)
(* links are rows in SQLite.  A change of them calls publishConfig, which  *)
(* takes the next generation number, compiles the topology into one        *)
(* desired state per node, records a revision and stores the states in     *)
(* s.desired, from where the agents fetch them.  Every HTTP request is a   *)
(* goroutine: only single SQL statements, transactions and the sections    *)
(* under s.mu are atomic, so publications interleave.                      *)
(*                                                                         *)
(* Simplifications:                                                        *)
(*  - A desired state is its generation and the set of its links; keys,    *)
(*    endpoints and routes are left out, and with them repairLinkEndpoints *)
(*    (it changes endpoints only) and the reading of the endpoints.        *)
(*  - Two nodes have at most one link row.  A creation of a link that is   *)
(*    refused, and a deletion of a node that fails, change nothing and are *)
(*    left out.                                                            *)
(*  - Tokens and addresses are left out: a node enrolls at most once,      *)
(*    under its one control parent.                                        *)
(*  - The compiled states are also saved in SQLite (SaveDesiredConfig, the *)
(*    rollout tables); no other code reads them to serve an agent.         *)
(***************************************************************************)
EXTENDS Naturals, FiniteSets

CONSTANTS
  Node,                   \* every node that ever exists
  Controller,             \* the controller's own node
  Parent,                 \* control parent of every other node
  Founders,               \* the nodes enrolled before the run starts
  Link,                   \* the pairs of nodes that may be linked
  Ends,                   \* the two ends of a link
  JoinLink,               \* the link that enrollment creates for a node
  Slots,                  \* bound: requests in progress at once
  NULL,
  MaxEnrolls,             \* bound: calls of handleEnroll
  MaxDeletes,             \* bound: calls of handleDeleteNode
  MaxEdits,               \* bound: changes of links, and calls of handleConfigPublish
  MaxControllerRestarts,  \* bound: restarts of the controller
  MaxFaults               \* bound: failures of a statement or of an agent's call

ASSUME TopologyAssumption ==
  /\ Controller \in Founders /\ Founders \subseteq Node
  /\ IsFiniteSet(Node)
  /\ Parent \in [Node \ {Controller} -> Node]
  /\ Ends \in [Link -> SUBSET Node]
  /\ JoinLink \in [Node \ {Controller} -> Link]
  /\ \A n \in Node \ {Controller} : Ends[JoinLink[n]] = {n, Parent[n]}
  /\ NULL \notin Node

ASSUME LimitAssumption ==
  {MaxEnrolls, MaxDeletes, MaxEdits, MaxControllerRestarts, MaxFaults} \subseteq Nat

LinkStatus == {"none", "Pending", "Active", "Disabled"}   \* "none": no row

State == [gen: Nat, links: SUBSET Link]

ASSUME StateAssumption == NULL \notin State

RequestPC == {"free", "enroll", "delete", "drop", "gen", "nodes", "links", "insert", "store"}

Request == [pc: RequestPC, node: Node \cup {NULL}, gen: Nat, nodes: SUBSET Node,
            states: [Node -> State \cup {NULL}], enrolls: BOOLEAN, alone: BOOLEAN]

Counters == {"enrolls", "deletes", "edits", "ctl", "faults"}

VARIABLES
  alive,        \* rows of nodes
  left,         \* nodes that were deleted; their ids do not come back
  linkRow,      \* rows of wireguard_links
  lastGen,      \* MAX(generation) of config_revisions, 0 when it is empty
  req,          \* the requests in progress
  desired,      \* s.desired
  used,         \* counters against the bounds
  \* history
  unpublished,  \* a change of the topology no compilation has read yet
  overlap,      \* since the last undisturbed publication, requests overlapped:
                \* "none", "edits", "enrolls" (one of them an enrollment)
  raced         \* requests overlapped since the controller started

topologyVars == <<alive, left, linkRow>>
publishVars  == <<topologyVars, lastGen, req, desired, used, unpublished, overlap, raced>>

Idle == [pc |-> "free", node |-> NULL, gen |-> 0, nodes |-> {},
         states |-> [n \in Node |-> NULL], enrolls |-> FALSE, alone |-> FALSE]

PublishTypeOK ==
  /\ alive \subseteq Node /\ left \subseteq Node
  /\ linkRow \in [Link -> LinkStatus]
  /\ lastGen \in Nat
  /\ req \in [Slots -> Request]
  /\ desired \in [Node -> State \cup {NULL}]
  /\ used \in [Counters -> Nat]
  /\ unpublished \in BOOLEAN /\ raced \in BOOLEAN
  /\ overlap \in {"none", "edits", "enrolls"}

Spend(counter, limit) ==
  /\ used[counter] < limit
  /\ used' = [used EXCEPT ![counter] = @ + 1]

-----------------------------------------------------------------------------
(* The compiler.                                                           *)

\* A link is left out when it is neither enabled nor Pending.
LinksOf(n) == {l \in Link : n \in Ends[l] /\ linkRow[l] \in {"Pending", "Active"}}

Compiled(nodes, gen) ==
  [n \in Node |-> IF n \in nodes THEN [gen |-> gen, links |-> LinksOf(n)] ELSE NULL]

\* The controller has just started on a database in which every founder but the
\* controller was enrolled with its link, after one publication for each of them.
PublishInit ==
  /\ alive = Founders /\ left = {}
  /\ linkRow = [l \in Link |-> IF \E n \in Founders \ {Controller} : JoinLink[n] = l
                               THEN "Active" ELSE "none"]
  /\ lastGen = Cardinality(Founders)
  /\ req = [p \in Slots |-> Idle]
  /\ desired = Compiled(alive, 1)
  /\ used = [k \in Counters |-> 0]
  /\ unpublished = FALSE /\ overlap = "none" /\ raced = FALSE

-----------------------------------------------------------------------------
(* Requests of administrators and of installers.                           *)

Busy == {p \in Slots : req[p].pc # "free"}

Step(p, pc) == req' = [req EXCEPT ![p].pc = pc]

Done(p) == req' = [req EXCEPT ![p] = Idle]

\* A request enters at pc; those in progress are no longer alone.
Begin(p, pc, n, enrolls) ==
  /\ req[p].pc = "free"
  /\ req' = [q \in Slots |->
               IF q = p
               THEN [Idle EXCEPT !.pc = pc, !.node = n, !.enrolls = enrolls, !.alone = Busy = {}]
               ELSE [req[q] EXCEPT !.alone = FALSE]]
  /\ overlap' = IF Busy = {} THEN overlap
                ELSE IF enrolls \/ overlap = "enrolls" \/ \E q \in Busy : req[q].enrolls
                     THEN "enrolls" ELSE "edits"
  /\ raced' = (raced \/ Busy # {})

\* handleEnroll up to the row of the new node.
Enroll(p, n) ==
  /\ n \in Node \ (alive \cup left \cup {Controller})
  /\ Parent[n] \in alive
  /\ Spend("enrolls", MaxEnrolls)
  /\ Begin(p, "enroll", n, TRUE)
  /\ alive' = alive \cup {n}
  /\ UNCHANGED <<left, linkRow, lastGen, desired, unpublished>>

\* The link to the parent; a row that exists already, or an end that has been
\* deleted, makes the INSERT fail, and its error is dropped.
EnrollLink(p) ==
  LET n == req[p].node  l == JoinLink[n] IN
  /\ req[p].pc = "enroll"
  /\ Parent[n] \in alive
  /\ linkRow' = IF linkRow[l] = "none" /\ n \in alive
                THEN [linkRow EXCEPT ![l] = "Active"] ELSE linkRow
  /\ Step(p, "gen")
  /\ UNCHANGED <<alive, left, lastGen, desired, used, unpublished, overlap, raced>>

\* No WireGuard port for the parent, or the parent is gone: the request ends
\* after the node's row was written.
EnrollFails(p) ==
  /\ req[p].pc = "enroll"
  /\ IF Parent[req[p].node] \in alive THEN Spend("faults", MaxFaults) ELSE UNCHANGED used
  /\ Done(p)
  /\ unpublished' = TRUE
  /\ UNCHANGED <<topologyVars, lastGen, desired, overlap, raced>>

\* Nodes without children may be deleted; DeleteNode checks it before its
\* transaction.
CheckDelete(p, n) ==
  /\ n \in alive \ {Controller}
  /\ \A m \in alive \ {Controller} : Parent[m] # n
  /\ Spend("deletes", MaxDeletes)
  /\ Begin(p, "delete", n, FALSE)
  /\ UNCHANGED <<topologyVars, lastGen, desired, unpublished>>

DeleteNode(p) ==
  /\ req[p].pc = "delete"
  /\ alive' = alive \ {req[p].node}
  /\ left' = left \cup {req[p].node}
  /\ linkRow' = [l \in Link |-> IF req[p].node \in Ends[l] THEN "none" ELSE linkRow[l]]
  /\ Step(p, "drop")
  /\ UNCHANGED <<lastGen, desired, used, unpublished, overlap, raced>>

\* Variant: the desired state of the deleted node is left behind.
DropNothing(p) ==
  /\ req[p].pc = "drop"
  /\ Step(p, "gen")
  /\ UNCHANGED <<topologyVars, lastGen, desired, used, unpublished, overlap, raced>>

DropDesired(p) ==
  /\ req[p].pc = "drop"
  /\ desired' = [desired EXCEPT ![req[p].node] = NULL]
  /\ Step(p, "gen")
  /\ UNCHANGED <<topologyVars, lastGen, used, unpublished, overlap, raced>>

\* Variant: an enabled link is stored under another word.
SetLinkMisnamed(l, status) ==
  linkRow' = [linkRow EXCEPT ![l] = IF status = "Active" THEN "Enabled" ELSE status]

SetLink(l, status) == linkRow' = [linkRow EXCEPT ![l] = status]

\* handleCreateLink publishes only a link created as enabled.
CreateLink(p, l) ==
  /\ linkRow[l] = "none" /\ Ends[l] \subseteq alive
  /\ Spend("edits", MaxEdits)
  /\ SetLink(l, "Active")
  /\ Begin(p, "gen", NULL, FALSE)
  /\ UNCHANGED <<alive, left, lastGen, desired, unpublished>>

CreatePendingLink(l) ==
  /\ linkRow[l] = "none" /\ Ends[l] \subseteq alive
  /\ Spend("edits", MaxEdits)
  /\ SetLink(l, "Pending")
  /\ unpublished' = TRUE
  /\ UNCHANGED <<alive, left, lastGen, req, desired, overlap, raced>>

\* Variant: publishes when a link is enabled, as handleCreateLink does.
UpdateLinkQuietly(p, l, status) ==
  /\ linkRow[l] # "none"
  /\ Spend("edits", MaxEdits)
  /\ SetLink(l, status)
  /\ IF status = "Active" THEN Begin(p, "gen", NULL, FALSE) ELSE UNCHANGED <<req, overlap, raced>>
  /\ UNCHANGED <<alive, left, lastGen, desired, unpublished>>

UpdateLink(p, l, status) ==
  /\ linkRow[l] # "none"
  /\ Spend("edits", MaxEdits)
  /\ SetLink(l, status)
  /\ Begin(p, "gen", NULL, FALSE)
  /\ UNCHANGED <<alive, left, lastGen, desired, unpublished>>

\* handleDeleteLink does not publish.
DeleteLink(l) ==
  /\ linkRow[l] # "none"
  /\ Spend("edits", MaxEdits)
  /\ SetLink(l, "none")
  /\ unpublished' = TRUE
  /\ UNCHANGED <<alive, left, lastGen, req, desired, overlap, raced>>

Publish(p) ==
  /\ Spend("edits", MaxEdits)
  /\ Begin(p, "gen", NULL, FALSE)
  /\ UNCHANGED <<topologyVars, lastGen, desired, unpublished>>

-----------------------------------------------------------------------------
(* publishConfig.                                                          *)

\* Variant: the last generation again instead of the next one.
SameGeneration(p) ==
  /\ req[p].pc = "gen"
  /\ req' = [req EXCEPT ![p].gen = lastGen, ![p].pc = "nodes"]
  /\ UNCHANGED <<topologyVars, lastGen, desired, used, unpublished, overlap, raced>>

NextGeneration(p) ==
  /\ req[p].pc = "gen"
  /\ req' = [req EXCEPT ![p].gen = lastGen + 1, ![p].pc = "nodes"]
  /\ UNCHANGED <<topologyVars, lastGen, desired, used, unpublished, overlap, raced>>

\* topology.Build reads the nodes, later the links.
ListNodes(p) ==
  /\ req[p].pc = "nodes"
  /\ req' = [req EXCEPT ![p].nodes = alive, ![p].pc = "links"]
  /\ UNCHANGED <<topologyVars, lastGen, desired, used, unpublished, overlap, raced>>

Compile(p) ==
  /\ req[p].pc = "links"
  /\ req' = [req EXCEPT ![p].states = Compiled(req[p].nodes, req[p].gen), ![p].pc = "insert"]
  /\ unpublished' = FALSE
  /\ UNCHANGED <<topologyVars, lastGen, desired, used, overlap, raced>>

CreateConfigRevision(p) ==
  /\ req[p].pc = "insert"
  /\ lastGen' = IF req[p].gen > lastGen THEN req[p].gen ELSE lastGen
  /\ Step(p, "store")
  /\ UNCHANGED <<topologyVars, desired, used, unpublished, overlap, raced>>

\* Variant: only the controller's and the new nodes' states are replaced.
StoreMissing(p) ==
  /\ req[p].pc = "store"
  /\ desired' = [n \in Node |-> IF desired[n] # NULL /\ n # Controller
                                THEN desired[n] ELSE req[p].states[n]]
  /\ overlap' = IF req[p].alone THEN "none" ELSE overlap
  /\ Done(p)
  /\ UNCHANGED <<topologyVars, lastGen, used, unpublished, raced>>

\* Under s.mu: all states of the compilation, nothing is removed.
Store(p) ==
  /\ req[p].pc = "store"
  /\ desired' = [n \in Node |-> IF req[p].states[n] # NULL
                                THEN req[p].states[n] ELSE desired[n]]
  /\ overlap' = IF req[p].alone THEN "none" ELSE overlap
  /\ Done(p)
  /\ UNCHANGED <<topologyVars, lastGen, used, unpublished, raced>>

\* A statement of publishConfig fails: it returns the error, which the handlers
\* of nodes and links only log.
PublishFails(p) ==
  /\ req[p].pc \in {"gen", "nodes", "links", "insert"}
  /\ Spend("faults", MaxFaults)
  /\ Done(p)
  /\ unpublished' = TRUE
  /\ UNCHANGED <<topologyVars, lastGen, desired, overlap, raced>>

\* The requests in progress and s.desired are lost; hydrateDesiredFromDB
\* compiles the database before the server listens, and only logs a failure.
ControllerRestart ==
  /\ Spend("ctl", MaxControllerRestarts)
  /\ req' = [p \in Slots |-> Idle]
  /\ \/ desired' = Compiled(alive, 1) /\ unpublished' = FALSE
     \/ desired' = [n \in Node |-> NULL] /\ unpublished' = TRUE
  /\ overlap' = "none" /\ raced' = FALSE
  /\ UNCHANGED <<topologyVars, lastGen>>

-----------------------------------------------------------------------------

Arrival(p) ==
  \/ \E n \in Node : Enroll(p, n) \/ CheckDelete(p, n)
  \/ \E l \in Link : CreateLink(p, l)
  \/ \E l \in Link, status \in {"Active", "Disabled"} : UpdateLink(p, l, status)
  \/ Publish(p)

\* What moves a request on, without failures.
Progress(p) ==
  \/ EnrollLink(p)
  \/ DeleteNode(p) \/ DropDesired(p)
  \/ NextGeneration(p) \/ ListNodes(p) \/ Compile(p)
  \/ CreateConfigRevision(p) \/ Store(p)

PublishNext ==
  \/ \E p \in Slots : Arrival(p) \/ Progress(p) \/ EnrollFails(p) \/ PublishFails(p)
  \/ \E l \in Link : CreatePendingLink(l) \/ DeleteLink(l)
  \/ ControllerRestart

PublishSpec == PublishInit /\ [][PublishNext]_publishVars

-----------------------------------------------------------------------------
(* Properties.                                                             *)

\* Nobody is publishing.
Quiet == Busy = {}

\* After a publication that no other request overlapped, and as long as every
\* change of the topology was followed by a publication, the controller serves
\* exactly the topology in its database, under one generation number for all
\* nodes (publishConfig and Compile).
ServedCurrent ==
  Quiet /\ overlap = "none" /\ ~unpublished =>
    /\ \A n \in alive : desired[n] # NULL /\ desired[n].links = LinksOf(n)
    /\ \A n, m \in alive : desired[n].gen = desired[m].gen

\* A deleted node is not served any more once its deletion is through, unless
\* requests have overlapped since the controller started (handleDeleteNode).
DeletedNotServed ==
  ~raced => \A n \in Node \ alive :
    desired[n] = NULL \/ \E p \in Slots : req[p].pc = "drop" /\ req[p].node = n

\* The two ends of a link are served the same answer to whether the link
\* exists, even when publications overlap: s.desired only ever takes whole
\* compilations.  The exception is an enrollment that overlaps with another
\* publication, whose list of nodes may lack the new node.
EndsAgree ==
  overlap # "enrolls" =>
    \A l \in Link : \A n, m \in alive \cap Ends[l] :
      desired[n] # NULL /\ desired[m] # NULL =>
        (l \in desired[n].links <=> l \in desired[m].links)

\* What a node is served only changes together with a higher generation, so an
\* agent's active_generation tells the controller which configuration it runs.
\* Two things break this and are excluded: overlapping publications, which take
\* the same number, and the number 1 that every start of the controller uses.
GenerationGrows ==
  [][\A n \in Node :
       /\ desired[n] # NULL /\ desired'[n] # NULL /\ desired'[n] # desired[n]
       /\ overlap' = "none" /\ used'["ctl"] = used["ctl"] /\ lastGen > 1
       => desired'[n].gen > desired[n].gen]_publishVars

=============================================================================
