----------------------------- MODULE Enrollment -----------------------------
(***************************************************************************)
(* How nodes enter and leave the control tree.  An administrator creates   *)
(* a token for a parent; installers send it to handleEnroll, which checks  *)
(* it, chooses an overlay address, writes the node's row, chooses a        *)
(* WireGuard port of the parent, and writes the link and its two           *)
(* endpoints, each in a statement of its own.  The installer's commit      *)
(* marks the token as used.  Requests are goroutines and interleave; a     *)
(* controller restart drops them where they are.                           *)
(*                                                                         *)
(* Simplifications:                                                        *)
(*  - Keys, names and generations are left out; publishConfig, which ends  *)
(*    an enrollment and a deletion, is the subject of ConfigPublish.       *)
(*  - The only links are those that enrollment creates; ControlRouting has *)
(*    the administrators' links.                                           *)
(*  - Ports are numbered from 1, cfg.WGPortStart; the overrides of the     *)
(*    installer are left out.  The statements of AllocateWGPort are one    *)
(*    step, and so are the insertions of a node, its control relation and  *)
(*    its address, whose errors are dropped.                               *)
(*  - An address is a number, the n-th of the network's CIDR.              *)
(***************************************************************************)
EXTENDS Naturals, FiniteSets

CONSTANTS
  Node,         \* every node that ever exists
  Controller,   \* the controller's own node
  Token,        \* enrollment tokens
  For,          \* the parent each token is created for
  Slots,        \* bound: requests in progress at once
  NULL,
  MaxAddr,      \* number of addresses in the CIDR
  MaxPort,      \* the last port of the controller's pool
  MaxRequests,  \* bound: enrollments that begin
  MaxEvents     \* bound: tokens closed, deletions, changes of a node and restarts

Addr == 1..MaxAddr
Port == 1..MaxPort

ASSUME EnrollmentAssumption ==
  /\ Controller \in Node /\ IsFiniteSet(Node)
  /\ For \in [Token -> Node]
  /\ NULL \notin Node \cup Token \cup Nat
  /\ MaxAddr \in Nat \ {0} /\ MaxPort \in Nat \ {0}
  /\ {MaxRequests, MaxEvents} \subseteq Nat

NodeRow == [ip: Addr, parent: Node \cup {NULL}, lo: Port, hi: Port, dial: BOOLEAN]

TokenRow == [used: BOOLEAN, revoked: BOOLEAN, expired: BOOLEAN]

LinkRow == [parent: Node, port: Port, ends: SUBSET Node]

RequestPC == {"free", "parent", "ip", "insert", "port", "link", "epParent", "epChild", "delete"}

Request == [pc: RequestPC, token: Token \cup {NULL}, parent: Node \cup {NULL}, lo: Port,
            hi: Port, ip: Addr, node: Node \cup {NULL}, port: Port]

ASSUME RowAssumption == NULL \notin NodeRow \cup TokenRow \cup LinkRow

Counters == {"requests", "events"}

VARIABLES
  row,         \* rows of nodes
  left,        \* nodes that were deleted; their ids do not come back
  token,       \* rows of enrollment_tokens
  link,        \* the row of the link that enrollment created for a node
  req,         \* the requests in progress
  answered,    \* tokens whose installer may commit
  used,        \* counters against the bounds
  \* history
  enrolledBy,  \* the nodes a token has enrolled
  clash,       \* what interfered so far: "addresses", "ports", "deletion"
  stranded,    \* nodes whose enrollment was cut off, or found no port
  moved        \* nodes whose first port was changed

rowVars     == <<row, left>>
historyVars == <<enrolledBy, clash, stranded, moved>>
enrollVars  == <<rowVars, token, link, req, answered, used, historyVars>>

Idle == [pc |-> "free", token |-> NULL, parent |-> NULL, lo |-> 1, hi |-> 1,
         ip |-> 1, node |-> NULL, port |-> 1]

EnrollTypeOK ==
  /\ row \in [Node -> NodeRow \cup {NULL}] /\ left \subseteq Node
  /\ token \in [Token -> TokenRow \cup {NULL}]
  /\ link \in [Node -> LinkRow \cup {NULL}]
  /\ req \in [Slots -> Request]
  /\ answered \subseteq Token
  /\ used \in [Counters -> Nat]
  /\ enrolledBy \in [Token -> SUBSET Node]
  /\ clash \subseteq {"addresses", "ports", "deletion"}
  /\ stranded \subseteq Node /\ moved \subseteq Node

Spend(counter, limit) ==
  /\ used[counter] < limit
  /\ used' = [used EXCEPT ![counter] = @ + 1]

Alive == {n \in Node : row[n] # NULL}

Children(p) == {n \in Alive : row[n].parent = p}

\* The controller alone, with a public address and the whole range of ports.
EnrollInit ==
  /\ row = [n \in Node |-> IF n = Controller
                           THEN [ip |-> 1, parent |-> NULL, lo |-> 1, hi |-> MaxPort, dial |-> TRUE]
                           ELSE NULL]
  /\ left = {}
  /\ token = [t \in Token |-> NULL]
  /\ link = [n \in Node |-> NULL]
  /\ req = [s \in Slots |-> Idle]
  /\ answered = {}
  /\ used = [k \in Counters |-> 0]
  /\ enrolledBy = [t \in Token |-> {}]
  /\ clash = {} /\ stranded = {} /\ moved = {}

-----------------------------------------------------------------------------
(* Tokens.                                                                 *)

\* A token's row is only written once: it disappears with its parent.
CreateToken(t) ==
  /\ token[t] = NULL
  /\ For[t] \in Alive
  /\ token' = [token EXCEPT ![t] = [used |-> FALSE, revoked |-> FALSE, expired |-> FALSE]]
  /\ UNCHANGED <<rowVars, link, req, answered, used, historyVars>>

RevokeToken(t) ==
  /\ token[t] # NULL
  /\ Spend("events", MaxEvents)
  /\ token' = [token EXCEPT ![t].revoked = TRUE]
  /\ UNCHANGED <<rowVars, link, req, answered, historyVars>>

Expire(t) ==
  /\ token[t] # NULL
  /\ Spend("events", MaxEvents)
  /\ token' = [token EXCEPT ![t].expired = TRUE]
  /\ UNCHANGED <<rowVars, link, req, answered, historyVars>>

Open(t) ==
  token[t] # NULL /\ ~token[t].used /\ ~token[t].revoked /\ ~token[t].expired

\* handleCommitEnroll checks nothing but that the token exists.
Commit(t) ==
  /\ t \in answered
  /\ answered' = answered \ {t}
  /\ token' = IF token[t] = NULL THEN token ELSE [token EXCEPT ![t].used = TRUE]
  /\ UNCHANGED <<rowVars, link, req, used, historyVars>>

-----------------------------------------------------------------------------
(* handleEnroll.                                                           *)

Step(s, pc) == req' = [req EXCEPT ![s].pc = pc]

Done(s) == req' = [req EXCEPT ![s] = Idle]

\* Variant: a used token is accepted.
EnrollUsed(s, t) ==
  /\ req[s].pc = "free"
  /\ token[t] # NULL /\ ~token[t].revoked /\ ~token[t].expired
  /\ Spend("requests", MaxRequests)
  /\ req' = [req EXCEPT ![s] = [Idle EXCEPT !.pc = "parent", !.token = t,
                                            !.parent = For[t]]]
  /\ UNCHANGED <<rowVars, token, link, answered, historyVars>>

Enroll(s, t) ==
  /\ req[s].pc = "free" /\ Open(t)
  /\ Spend("requests", MaxRequests)
  /\ req' = [req EXCEPT ![s] = [Idle EXCEPT !.pc = "parent", !.token = t,
                                            !.parent = For[t]]]
  /\ UNCHANGED <<rowVars, token, link, answered, historyVars>>

\* A public child gets the parent's port range.
ReadParent(s) ==
  LET p == req[s].parent IN
  /\ req[s].pc = "parent"
  /\ IF row[p] = NULL THEN Done(s)
     ELSE req' = [req EXCEPT ![s].pc = "ip", ![s].lo = row[p].lo, ![s].hi = row[p].hi]
  /\ UNCHANGED <<rowVars, token, link, answered, used, historyVars>>

\* Variant: a node without a link does not count.
TakenAddrLinked == {row[n].ip : n \in {m \in Alive : link[m] # NULL}}

TakenAddr == {row[n].ip : n \in Alive}

\* Variant: the search starts at the address of the network.
FreeAddrWithZero == (0..MaxAddr) \ TakenAddr

FreeAddr == Addr \ TakenAddr

\* The lowest address that no row has.  Nothing reserves it.
AllocateOverlayIPv4(s) ==
  /\ req[s].pc = "ip"
  /\ IF FreeAddr = {}
     THEN Done(s) /\ UNCHANGED clash
     ELSE \E a \in FreeAddr :
            /\ \A b \in FreeAddr : a <= b
            /\ req' = [req EXCEPT ![s].pc = "insert", ![s].ip = a]
            /\ clash' = IF \E q \in Slots \ {s} : req[q].pc = "insert"
                        THEN clash \cup {"addresses"} ELSE clash
  /\ UNCHANGED <<rowVars, token, link, answered, used, enrolledBy, stranded, moved>>

\* Variant: foreign keys are not enforced.
CreateNodeAnyway(s, n, public, dial) ==
  /\ req[s].pc = "insert"
  /\ n \notin Alive \cup left
  /\ dial => public
  /\ row' = [row EXCEPT ![n] =
               [ip |-> req[s].ip, parent |-> req[s].parent, dial |-> dial,
                lo |-> IF public THEN req[s].lo ELSE 1, hi |-> IF public THEN req[s].hi ELSE 1]]
  /\ req' = [req EXCEPT ![s].pc = "port", ![s].node = n]
  /\ enrolledBy' = [enrolledBy EXCEPT ![req[s].token] = @ \cup {n}]
  /\ UNCHANGED <<left, token, link, answered, used, clash, stranded, moved>>

\* A new row: a child without a public address has a single port.  The INSERT
\* fails when the parent has been deleted.
CreateNode(s, n, public, dial) ==
  LET p == req[s].parent IN
  /\ req[s].pc = "insert"
  /\ n \notin Alive \cup left
  /\ dial => public
  /\ IF row[p] = NULL
     THEN Done(s) /\ UNCHANGED <<row, enrolledBy, clash>>
     ELSE /\ row' = [row EXCEPT ![n] =
                      [ip |-> req[s].ip, parent |-> p, dial |-> dial,
                       lo |-> IF public THEN req[s].lo ELSE 1,
                       hi |-> IF public THEN req[s].hi ELSE 1]]
          /\ req' = [req EXCEPT ![s].pc = "port", ![s].node = n]
          /\ enrolledBy' = [enrolledBy EXCEPT ![req[s].token] = @ \cup {n}]
          /\ clash' = IF \E q \in Slots : req[q].pc = "delete" /\ req[q].node = p
                      THEN clash \cup {"deletion"} ELSE clash
  /\ UNCHANGED <<left, token, link, answered, used, stranded, moved>>

\* The request ends after the node's row was written.
Strand(s) == Done(s) /\ stranded' = stranded \cup {req[s].node}

\* Variant: only the endpoints are asked for ports.
TakenPortsOfEnds(p) ==
  {link[n].port : n \in {m \in Node : link[m] # NULL /\ p \in link[m].ends}}

TakenPorts(p) == {link[n].port : n \in {m \in Node : link[m] # NULL /\ link[m].parent = p}}

\* Variant: the pool of a node without a public address is not cut down.
LastPortAny(p) == row[p].hi

\* A node without a public address is cut down to its first port.
LastPort(p) == IF row[p].dial THEN row[p].hi ELSE row[p].lo

FreePorts(p) == (row[p].lo .. LastPort(p)) \ TakenPorts(p)

\* The lowest free port of the parent.  Nothing reserves it.
AllocateWGPort(s) ==
  LET p == req[s].parent IN
  /\ req[s].pc = "port"
  /\ IF row[p] = NULL
     THEN Strand(s) /\ UNCHANGED <<row, clash>>
     ELSE /\ row' = [row EXCEPT ![p].hi = LastPort(p)]
          /\ IF FreePorts(p) = {}
             THEN Strand(s) /\ UNCHANGED clash
             ELSE \E x \in FreePorts(p) :
                    /\ \A y \in FreePorts(p) : x <= y
                    /\ req' = [req EXCEPT ![s].pc = "link", ![s].port = x]
                    /\ clash' = IF \E q \in Slots \ {s} : req[q].pc = "link" /\ req[q].parent = p
                                THEN clash \cup {"ports"} ELSE clash
                    /\ UNCHANGED stranded
  /\ UNCHANGED <<left, token, link, answered, used, enrolledBy, moved>>

\* The errors of the next three statements are dropped: one of the nodes has
\* been deleted, and then there is no link for the endpoints either.
CreateLink(s) ==
  LET n == req[s].node  p == req[s].parent IN
  /\ req[s].pc = "link"
  /\ link' = IF row[n] = NULL \/ row[p] = NULL THEN link
             ELSE [link EXCEPT ![n] = [parent |-> p, port |-> req[s].port, ends |-> {}]]
  /\ Step(s, "epParent")
  /\ UNCHANGED <<rowVars, token, answered, used, historyVars>>

CreateLinkEndpoint(n, end) ==
  link' = IF link[n] = NULL THEN link ELSE [link EXCEPT ![n].ends = @ \cup {end}]

\* Variant: the installer gets its answer before the child's endpoint.
AnswerEarly(s) ==
  /\ req[s].pc = "epParent"
  /\ CreateLinkEndpoint(req[s].node, req[s].parent)
  /\ Done(s)
  /\ answered' = answered \cup {req[s].token}
  /\ UNCHANGED <<rowVars, token, used, historyVars>>

ParentEndpoint(s) ==
  /\ req[s].pc = "epParent"
  /\ CreateLinkEndpoint(req[s].node, req[s].parent)
  /\ Step(s, "epChild")
  /\ UNCHANGED <<rowVars, token, answered, used, historyVars>>

\* The publication and the answer follow.
ChildEndpoint(s) ==
  /\ req[s].pc = "epChild"
  /\ CreateLinkEndpoint(req[s].node, req[s].node)
  /\ Done(s)
  /\ answered' = answered \cup {req[s].token}
  /\ UNCHANGED <<rowVars, token, used, historyVars>>

-----------------------------------------------------------------------------
(* Deletions, changes and restarts.                                        *)

\* Variant: the children are not looked for.
CheckNothing(s, n) ==
  /\ req[s].pc = "free"
  /\ n \in Alive \ {Controller}
  /\ Spend("events", MaxEvents)
  /\ req' = [req EXCEPT ![s] = [Idle EXCEPT !.pc = "delete", !.node = n]]
  /\ UNCHANGED <<rowVars, token, link, answered, historyVars>>

\* NodeDeleteImpact, before the transaction.
CheckDelete(s, n) ==
  /\ req[s].pc = "free"
  /\ n \in Alive \ {Controller} /\ Children(n) = {}
  /\ Spend("events", MaxEvents)
  /\ req' = [req EXCEPT ![s] = [Idle EXCEPT !.pc = "delete", !.node = n]]
  /\ UNCHANGED <<rowVars, token, link, answered, historyVars>>

\* One transaction: the node with its links and the tokens below it; children
\* that appeared meanwhile lose their parent.
DeleteNode(s) ==
  LET d == req[s].node IN
  /\ req[s].pc = "delete"
  /\ row' = [n \in Node |->
                IF n = d \/ row[n] = NULL THEN NULL
                ELSE IF row[n].parent = d THEN [row[n] EXCEPT !.parent = NULL] ELSE row[n]]
  /\ left' = left \cup {d}
  /\ link' = [n \in Node |->
                IF link[n] # NULL /\ d \in {n, link[n].parent} THEN NULL ELSE link[n]]
  /\ token' = [t \in Token |->
                IF For[t] = d THEN NULL ELSE token[t]]
  /\ Done(s)
  /\ UNCHANGED <<answered, used, historyVars>>

\* handleAddAddress with a public address; there is no way to remove one.
AddNodeAddress(n) ==
  /\ n \in Alive /\ ~row[n].dial
  /\ Spend("events", MaxEvents)
  /\ row' = [row EXCEPT ![n].dial = TRUE]
  /\ UNCHANGED <<left, token, link, req, answered, historyVars>>

\* handleUpdateNode.
UpdateNodePorts(n, lo, hi) ==
  /\ n \in Alive /\ lo <= hi
  /\ Spend("events", MaxEvents)
  /\ row' = [row EXCEPT ![n].lo = lo, ![n].hi = hi]
  /\ moved' = IF lo = row[n].lo THEN moved ELSE moved \cup {n}
  /\ UNCHANGED <<left, token, link, req, answered, enrolledBy, clash, stranded>>

\* The requests in progress are lost, whatever they have written.
ControllerRestart ==
  /\ Spend("events", MaxEvents)
  /\ req' = [s \in Slots |-> Idle]
  /\ stranded' = stranded \cup
       {req[s].node : s \in {q \in Slots : req[q].pc \in {"port", "link", "epParent", "epChild"}}}
  /\ UNCHANGED <<rowVars, token, link, answered, enrolledBy, clash, moved>>

-----------------------------------------------------------------------------

Handle(s) ==
  \/ ReadParent(s) \/ AllocateOverlayIPv4(s)
  \/ \E n \in Node, public, dial \in BOOLEAN : CreateNode(s, n, public, dial)
  \/ AllocateWGPort(s) \/ CreateLink(s) \/ ParentEndpoint(s) \/ ChildEndpoint(s)
  \/ DeleteNode(s)

EnrollNext ==
  \/ \E t \in Token : CreateToken(t) \/ RevokeToken(t) \/ Expire(t) \/ Commit(t)
  \/ \E s \in Slots, t \in Token : Enroll(s, t)
  \/ \E s \in Slots, n \in Node : CheckDelete(s, n)
  \/ \E s \in Slots : Handle(s)
  \/ \E n \in Node : AddNodeAddress(n)
  \/ \E n \in Node, lo, hi \in Port : UpdateNodePorts(n, lo, hi)
  \/ ControllerRestart

EnrollSpec == EnrollInit /\ [][EnrollNext]_enrollVars

-----------------------------------------------------------------------------
(* What enrollment implements.                                             *)

OverlayOf == [n \in Node |-> IF row[n] = NULL THEN NULL ELSE row[n].ip]

ParentOf == [n \in Node |-> IF row[n] = NULL THEN NULL ELSE row[n].parent]

Undisturbed == "addresses" \notin clash /\ "deletion" \notin clash

M == INSTANCE Membership WITH
       Root <- Controller, RootAddr <- 1, member <- Alive, gone <- left,
       addr <- OverlayOf, parent <- ParentOf, clean <- Undisturbed

\* The members of the network are joined and removed one by one, each with a
\* new address and below a member, until two enrollments choose their addresses
\* at the same time or a node is deleted while one enrolls below it (handleEnroll
\* and DeleteNode implement Membership).
ImplementsMembership == M!MSpec

-----------------------------------------------------------------------------
(* Properties.                                                             *)

\* The control tree stays a tree of nodes with distinct overlay addresses, which
\* the compiled AllowedIPs and routes of all nodes rely on.
MembersDistinct == M!DistinctAddresses
ControlTree     == M!Tree

\* The token was created or can be created no more, is not open, and no request
\* in progress has checked it.
Spent(t) ==
  /\ token[t] # NULL \/ For[t] \in left
  /\ ~Open(t)
  /\ \A s \in Slots : req[s].token # t

\* A token that is used, revoked, expired or deleted, and that no request in
\* progress has checked before, enrolls nobody any more and never opens again:
\* late commits, restarts and deletions cannot revive it (handleEnroll,
\* handleCommitEnroll, handleRevokeToken, DeleteNode).
SpentStaysSpent ==
  [][\A t \in Token : Spent(t) => Spent(t)' /\ enrolledBy[t]' = enrolledBy[t]]_enrollVars

\* Two children of a node dial different ports of it, unless two enrollments
\* below it chose their ports at the same time (AllocateWGPort).
DistinctPorts ==
  "ports" \notin clash =>
    \A m, n \in Node :
      /\ m # n /\ link[m] # NULL /\ link[n] # NULL
      /\ link[m].parent = link[n].parent
      => link[m].port # link[n].port

\* A node without a public address never listens for two children, whatever its
\* pool was set to, as long as its first port was not changed ("at most one
\* downstream listener", storage/links.go:142).
LanSingle ==
  "ports" \notin clash =>
    \A p \in Alive \ moved :
      ~row[p].dial => Cardinality({n \in Node : link[n] # NULL /\ link[n].parent = p}) <= 1

\* Every enrolled node has a parent and a link to it with both endpoints, once
\* its enrollment is over; only a restart, an exhausted pool or the deletion of
\* the parent meanwhile leaves it cut off (handleEnroll).
Connected ==
  "deletion" \notin clash =>
    \A n \in Alive \ (stranded \cup {Controller}) :
      \/ \E s \in Slots : req[s].node = n /\ req[s].pc # "delete"
      \/ row[n].parent # NULL /\ link[n] # NULL /\ link[n].ends = {n, row[n].parent}

=============================================================================
