-------------------------- MODULE EnrollmentProofs --------------------------
(* Proofs about Enrollment: types, ports, listeners, links, and that it      *)
(* implements Membership, for any number of nodes, tokens, concurrent        *)
(* requests, addresses and ports.                                            *)
EXTENDS Enrollment, FiniteSetTheorems, TLAPS

\* What a request holds at each of its statements.
Holds ==
  /\ row[Controller] # NULL
  /\ \A n \in left : row[n] = NULL
  /\ \A s \in Slots :
       /\ req[s].pc \in {"parent", "ip", "insert", "port", "link", "epParent", "epChild"}
            => req[s].parent \in Node /\ req[s].token \in Token
       /\ req[s].pc \in {"port", "link", "epParent", "epChild"} => req[s].node \in Node
       /\ req[s].pc = "delete" => req[s].node \in Node \ {Controller}

\* An address that was chosen and not written yet is still free.
AddressFree ==
  "addresses" \notin clash =>
    \A s \in Slots : req[s].pc = "insert" =>
      /\ \A n \in Alive : row[n].ip # req[s].ip
      /\ \A q \in Slots \ {s} : req[q].pc # "insert"

\* A node that is about to be deleted still has no children.
StillChildless ==
  "deletion" \notin clash =>
    \A s \in Slots : req[s].pc = "delete" => Children(req[s].node) = {}

\* A port that was chosen and not written yet is still free.
PortFree ==
  "ports" \notin clash =>
    \A s \in Slots : req[s].pc = "link" =>
      /\ req[s].port \notin TakenPorts(req[s].parent)
      /\ \A q \in Slots \ {s} : req[q].pc = "link" => req[q].parent # req[s].parent

EnrollInv ==
  EnrollTypeOK /\ Holds /\ AddressFree /\ StillChildless /\ PortFree /\ DistinctPorts

-----------------------------------------------------------------------------
(* Types.                                                                    *)

LEMMA PortNumbers ==
  /\ Port \subseteq Nat /\ Addr \subseteq Nat /\ 1 \in Port /\ 1 \in Addr /\ MaxPort \in Port
  BY EnrollmentAssumption DEF Port, Addr

LEMMA IdleType ==
  /\ Idle \in Request /\ Idle.pc = "free" /\ Idle.token = NULL /\ Idle.node = NULL
  BY PortNumbers DEF Idle, Request, RequestPC

\* A request that goes on.
LEMMA StepType ==
  ASSUME EnrollTypeOK, NEW s \in Slots, NEW pc \in RequestPC, Step(s, pc)
  PROVE  /\ req' \in [Slots -> Request]
         /\ req'[s].pc = pc
         /\ req'[s].node = req[s].node /\ req'[s].parent = req[s].parent
         /\ req'[s].token = req[s].token /\ req'[s].ip = req[s].ip
         /\ req'[s].port = req[s].port
         /\ \A q \in Slots \ {s} : req'[q] = req[q]
  BY DEF EnrollTypeOK, Step, Request

\* A request that ends.
LEMMA DoneType ==
  ASSUME EnrollTypeOK, NEW s \in Slots, Done(s)
  PROVE  /\ req' \in [Slots -> Request]
         /\ req'[s] = Idle
         /\ \A q \in Slots \ {s} : req'[q] = req[q]
  BY IdleType DEF EnrollTypeOK, Done

LEMMA SpendType ==
  ASSUME EnrollTypeOK, NEW k \in Counters, NEW limit, Spend(k, limit)
  PROVE  used' \in [Counters -> Nat]
  BY DEF EnrollTypeOK, Spend

\* Types of the actions on tokens.
LEMMA TokenTypes ==
  ASSUME EnrollTypeOK, NEW t \in Token,
         CreateToken(t) \/ RevokeToken(t) \/ Expire(t) \/ Commit(t)
  PROVE  EnrollTypeOK'
<1>1. CASE CreateToken(t)
  BY <1>1 DEF CreateToken, EnrollTypeOK, TokenRow, rowVars, historyVars
<1>2. CASE RevokeToken(t)
  <2>1. used' \in [Counters -> Nat]
    BY <1>2, SpendType DEF RevokeToken, Counters
  <2>2. token[t] \in TokenRow
    BY <1>2 DEF RevokeToken, EnrollTypeOK
  <2> QED
    BY <1>2, <2>1, <2>2 DEF RevokeToken, EnrollTypeOK, TokenRow, rowVars, historyVars
<1>3. CASE Expire(t)
  <2>1. used' \in [Counters -> Nat]
    BY <1>3, SpendType DEF Expire, Counters
  <2>2. token[t] \in TokenRow
    BY <1>3 DEF Expire, EnrollTypeOK
  <2> QED
    BY <1>3, <2>1, <2>2 DEF Expire, EnrollTypeOK, TokenRow, rowVars, historyVars
<1>4. CASE Commit(t)
  <2>1. token[t] # NULL => token[t] \in TokenRow
    BY DEF EnrollTypeOK
  <2> QED
    BY <1>4, <2>1 DEF Commit, EnrollTypeOK, TokenRow, rowVars, historyVars
<1> QED
  BY <1>1, <1>2, <1>3, <1>4

\* Types of the first half of handleEnroll.
LEMMA EnrollTypes ==
  ASSUME EnrollTypeOK, Holds, NEW s \in Slots,
         \/ \E t \in Token : Enroll(s, t)
         \/ ReadParent(s) \/ AllocateOverlayIPv4(s)
  PROVE  EnrollTypeOK'
<1> USE EnrollmentAssumption, PortNumbers, IdleType
<1>1. CASE \E t \in Token : Enroll(s, t)
  <2> PICK t \in Token : Enroll(s, t)
    BY <1>1
  <2>1. used' \in [Counters -> Nat]
    BY SpendType DEF Enroll, Counters
  <2>2. req' \in [Slots -> Request]
    BY DEF Enroll, EnrollTypeOK, Request, RequestPC, Idle
  <2> QED
    BY <2>1, <2>2 DEF Enroll, EnrollTypeOK, rowVars, historyVars
<1>2. CASE ReadParent(s)
  <2>1. req' \in [Slots -> Request]
    <3>1. CASE Done(s)
      BY <3>1, DoneType
    <3>2. CASE row[req[s].parent] # NULL
      <4>1. row[req[s].parent] \in NodeRow
        BY <1>2, <3>2 DEF ReadParent, EnrollTypeOK, Holds
      <4> QED
        BY <1>2, <3>2, <4>1 DEF ReadParent, EnrollTypeOK, Request, RequestPC, NodeRow
    <3> QED
      BY <1>2, <3>1, <3>2 DEF ReadParent
  <2> QED
    BY <1>2, <2>1 DEF ReadParent, EnrollTypeOK, rowVars, historyVars
<1>3. CASE AllocateOverlayIPv4(s)
  <2>1. req' \in [Slots -> Request]
    <3>1. CASE Done(s)
      BY <3>1, DoneType
    <3>2. CASE ~Done(s)
      BY <1>3, <3>2 DEF AllocateOverlayIPv4, FreeAddr, EnrollTypeOK, Request, RequestPC
    <3> QED
      BY <3>1, <3>2
  <2>2. clash' \subseteq {"addresses", "ports", "deletion"}
    BY <1>3 DEF AllocateOverlayIPv4, EnrollTypeOK
  <2> QED
    BY <1>3, <2>1, <2>2 DEF AllocateOverlayIPv4, EnrollTypeOK, rowVars
<1> QED
  BY <1>1, <1>2, <1>3

\* Types of the second half of handleEnroll.
LEMMA RowTypes ==
  ASSUME EnrollTypeOK, Holds, NEW s \in Slots,
         \/ \E n \in Node, public, dial \in BOOLEAN : CreateNode(s, n, public, dial)
         \/ AllocateWGPort(s)
  PROVE  EnrollTypeOK'
<1> USE PortNumbers, IdleType
<1>1. ASSUME NEW n \in Node, NEW public \in BOOLEAN, NEW dial \in BOOLEAN,
             CreateNode(s, n, public, dial)
      PROVE  EnrollTypeOK'
  <2>1. req[s] \in Request /\ req[s].parent \in Node /\ req[s].token \in Token
    BY <1>1 DEF CreateNode, EnrollTypeOK, Holds
  <2>2. CASE row[req[s].parent] = NULL
    BY <1>1, <2>2, DoneType DEF CreateNode, EnrollTypeOK
  <2>3. CASE row[req[s].parent] # NULL
    <3>1. req' \in [Slots -> Request]
      BY <1>1, <2>3 DEF CreateNode, EnrollTypeOK, Request, RequestPC
    <3>2. row' \in [Node -> NodeRow \cup {NULL}]
      BY <1>1, <2>1, <2>3 DEF CreateNode, EnrollTypeOK, Request, NodeRow
    <3>3. enrolledBy' \in [Token -> SUBSET Node] /\ clash' \subseteq {"addresses", "ports", "deletion"}
      BY <1>1, <2>1, <2>3 DEF CreateNode, EnrollTypeOK
    <3> QED
      BY <1>1, <3>1, <3>2, <3>3 DEF CreateNode, EnrollTypeOK
  <2> QED
    BY <2>2, <2>3
<1>2. CASE AllocateWGPort(s)
  <2>1. req[s] \in Request /\ req[s].parent \in Node /\ req[s].node \in Node
    BY <1>2 DEF AllocateWGPort, EnrollTypeOK, Holds
  <2>2. CASE row[req[s].parent] = NULL
    BY <1>2, <2>1, <2>2, DoneType DEF AllocateWGPort, Strand, EnrollTypeOK
  <2>3. CASE row[req[s].parent] # NULL
    <3> DEFINE p == req[s].parent
    <3>1. row[p] \in NodeRow
      BY <2>1, <2>3 DEF EnrollTypeOK
    <3>2. LastPort(p) \in Port
      BY <3>1 DEF LastPort, NodeRow
    <3>3. row' \in [Node -> NodeRow \cup {NULL}]
      BY <1>2, <2>1, <2>3, <3>1, <3>2 DEF AllocateWGPort, EnrollTypeOK, NodeRow
    <3>4. FreePorts(p) \subseteq Port
      BY <3>1, <3>2, EnrollmentAssumption DEF FreePorts, NodeRow, Port
    <3>5. CASE FreePorts(p) = {}
      BY <1>2, <2>1, <2>3, <3>3, <3>5, DoneType DEF AllocateWGPort, Strand, EnrollTypeOK
    <3>6. CASE FreePorts(p) # {}
      <4>1. PICK x \in FreePorts(p) : req' = [req EXCEPT ![s].pc = "link", ![s].port = x]
        BY <1>2, <2>3, <3>6 DEF AllocateWGPort
      <4>2. x \in Port
        BY <3>4
      <4>3. [[req[s] EXCEPT !.pc = "link"] EXCEPT !.port = x] \in Request
        BY <2>1, <4>2 DEF Request, RequestPC
      <4>4. req' \in [Slots -> Request]
        BY <4>1, <4>3 DEF EnrollTypeOK
      <4> QED
        BY <1>2, <2>3, <3>3, <3>6, <4>4 DEF AllocateWGPort, EnrollTypeOK
    <3> QED
      BY <3>5, <3>6
  <2> QED
    BY <2>2, <2>3
<1> QED
  BY <1>1, <1>2

\* Types of the statements about the link.
LEMMA LinkTypes ==
  ASSUME EnrollTypeOK, Holds, NEW s \in Slots,
         CreateLink(s) \/ ParentEndpoint(s) \/ ChildEndpoint(s)
  PROVE  EnrollTypeOK'
<1>1. req[s] \in Request /\ req[s].parent \in Node /\ req[s].node \in Node /\ req[s].token \in Token
  BY DEF CreateLink, ParentEndpoint, ChildEndpoint, EnrollTypeOK, Holds
<1>2. \A end \in Node : CreateLinkEndpoint(req[s].node, end) => link' \in [Node -> LinkRow \cup {NULL}]
  BY <1>1 DEF CreateLinkEndpoint, EnrollTypeOK, LinkRow
<1>3. CASE CreateLink(s)
  <2>1. link' \in [Node -> LinkRow \cup {NULL}]
    BY <1>1, <1>3 DEF CreateLink, EnrollTypeOK, LinkRow, Request
  <2>2. req' \in [Slots -> Request]
    BY <1>3, StepType DEF CreateLink, RequestPC
  <2> QED
    BY <1>3, <2>1, <2>2 DEF CreateLink, EnrollTypeOK, rowVars, historyVars
<1>4. CASE ParentEndpoint(s)
  <2>1. req' \in [Slots -> Request]
    BY <1>4, StepType DEF ParentEndpoint, RequestPC
  <2> QED
    BY <1>1, <1>2, <1>4, <2>1 DEF ParentEndpoint, EnrollTypeOK, rowVars, historyVars
<1>5. CASE ChildEndpoint(s)
  <2>1. req' \in [Slots -> Request]
    BY <1>5, DoneType DEF ChildEndpoint
  <2> QED
    BY <1>1, <1>2, <1>5, <2>1 DEF ChildEndpoint, EnrollTypeOK, rowVars, historyVars
<1> QED
  BY <1>3, <1>4, <1>5

\* Types of deletions, changes and restarts.
LEMMA OtherTypes ==
  ASSUME EnrollTypeOK, Holds,
         \/ \E s \in Slots, n \in Node : CheckDelete(s, n)
         \/ \E s \in Slots : DeleteNode(s)
         \/ \E n \in Node : AddNodeAddress(n)
         \/ \E n \in Node, lo, hi \in Port : UpdateNodePorts(n, lo, hi)
         \/ ControllerRestart
  PROVE  EnrollTypeOK'
<1> USE IdleType
<1>1. ASSUME NEW s \in Slots, NEW n \in Node, CheckDelete(s, n)
      PROVE  EnrollTypeOK'
  <2>1. used' \in [Counters -> Nat]
    BY <1>1, SpendType DEF CheckDelete, Counters
  <2>2. req' \in [Slots -> Request]
    BY <1>1, PortNumbers DEF CheckDelete, EnrollTypeOK, Request, RequestPC, Idle
  <2> QED
    BY <1>1, <2>1, <2>2 DEF CheckDelete, EnrollTypeOK, rowVars, historyVars
<1>2. ASSUME NEW s \in Slots, DeleteNode(s)
      PROVE  EnrollTypeOK'
  <2>1. req' \in [Slots -> Request]
    BY <1>2, DoneType DEF DeleteNode
  <2>2. \A n \in Node : row[n] # NULL => [row[n] EXCEPT !.parent = NULL] \in NodeRow
    BY DEF EnrollTypeOK, NodeRow
  <2>3. row' \in [Node -> NodeRow \cup {NULL}]
    BY <1>2, <2>2 DEF DeleteNode, EnrollTypeOK
  <2>4. link' \in [Node -> LinkRow \cup {NULL}] /\ token' \in [Token -> TokenRow \cup {NULL}]
    BY <1>2 DEF DeleteNode, EnrollTypeOK
  <2>5. left' \subseteq Node
    BY <1>2 DEF DeleteNode, EnrollTypeOK, Holds
  <2> QED
    BY <1>2, <2>1, <2>3, <2>4, <2>5 DEF DeleteNode, EnrollTypeOK, historyVars
<1>3. ASSUME NEW n \in Node, AddNodeAddress(n)
      PROVE  EnrollTypeOK'
  <2>1. used' \in [Counters -> Nat]
    BY <1>3, SpendType DEF AddNodeAddress, Counters
  <2>2. row[n] \in NodeRow
    BY <1>3 DEF AddNodeAddress, Alive, EnrollTypeOK
  <2> QED
    BY <1>3, <2>1, <2>2 DEF AddNodeAddress, EnrollTypeOK, NodeRow, historyVars
<1>4. ASSUME NEW n \in Node, NEW lo \in Port, NEW hi \in Port, UpdateNodePorts(n, lo, hi)
      PROVE  EnrollTypeOK'
  <2>1. used' \in [Counters -> Nat]
    BY <1>4, SpendType DEF UpdateNodePorts, Counters
  <2>2. row[n] \in NodeRow
    BY <1>4 DEF UpdateNodePorts, Alive, EnrollTypeOK
  <2>3. row' \in [Node -> NodeRow \cup {NULL}]
    BY <1>4, <2>2 DEF UpdateNodePorts, EnrollTypeOK, NodeRow
  <2> QED
    BY <1>4, <2>1, <2>3 DEF UpdateNodePorts, EnrollTypeOK
<1>5. CASE ControllerRestart
  <2>1. used' \in [Counters -> Nat]
    BY <1>5, SpendType DEF ControllerRestart, Counters
  <2>2. \A s \in Slots : req[s].pc \in {"port", "link", "epParent", "epChild"} => req[s].node \in Node
    BY DEF Holds
  <2>3. stranded' \subseteq Node
    BY <1>5, <2>2 DEF ControllerRestart, EnrollTypeOK
  <2> QED
    BY <1>5, <2>1, <2>3 DEF ControllerRestart, EnrollTypeOK, rowVars
<1> QED
  BY <1>1, <1>2, <1>3, <1>4, <1>5

LEMMA TypesKept == EnrollTypeOK /\ Holds /\ [EnrollNext]_enrollVars => EnrollTypeOK'
<1> SUFFICES ASSUME EnrollTypeOK, Holds, [EnrollNext]_enrollVars
             PROVE  EnrollTypeOK'
  OBVIOUS
<1>1. CASE UNCHANGED enrollVars
  BY <1>1 DEF enrollVars, rowVars, historyVars, EnrollTypeOK
<1>2. CASE EnrollNext
  BY <1>2, TokenTypes, EnrollTypes, RowTypes, LinkTypes, OtherTypes DEF EnrollNext, Handle
<1> QED
  BY <1>1, <1>2

-----------------------------------------------------------------------------
(* Steps that leave what the invariant speaks of as it is.                   *)

SameTree ==
  \A n \in Node :
    /\ row'[n] = NULL <=> row[n] = NULL
    /\ row[n] # NULL => row'[n].ip = row[n].ip /\ row'[n].parent = row[n].parent

SameLinks ==
  \A n \in Node :
    /\ link'[n] = NULL <=> link[n] = NULL
    /\ link[n] # NULL => link'[n].parent = link[n].parent /\ link'[n].port = link[n].port

\* A request that is at pc after the step was there before, with the same choices.
Stays(s, pc) ==
  req'[s].pc = pc =>
    /\ req[s].pc = pc /\ req'[s].ip = req[s].ip /\ req'[s].port = req[s].port
    /\ req'[s].node = req[s].node /\ req'[s].parent = req[s].parent

LEMMA SameMembers ==
  ASSUME SameTree
  PROVE  /\ Alive' = Alive
         /\ \A p : Children(p)' = Children(p)
  BY DEF SameTree, Alive, Children

LEMMA SamePorts ==
  ASSUME SameLinks
  PROVE  /\ \A p : TakenPorts(p)' = TakenPorts(p)
         /\ clash' = clash /\ DistinctPorts => DistinctPorts'
<1>1. ASSUME NEW p
      PROVE  TakenPorts(p)' = TakenPorts(p)
  BY DEF SameLinks, TakenPorts
<1>2. clash' = clash /\ DistinctPorts => DistinctPorts'
  BY DEF SameLinks, DistinctPorts
<1> QED
  BY <1>1, <1>2

LEMMA AddressCalm ==
  ASSUME AddressFree, SameTree, clash' = clash, \A s \in Slots : Stays(s, "insert")
  PROVE  AddressFree'
  BY SameMembers DEF AddressFree, Stays, SameTree, Alive

LEMMA PortCalm ==
  ASSUME PortFree, DistinctPorts, SameLinks, clash' = clash, \A s \in Slots : Stays(s, "link")
  PROVE  PortFree' /\ DistinctPorts'
  BY SamePorts DEF PortFree, Stays

LEMMA ChildlessCalm ==
  ASSUME StillChildless, SameTree, clash' = clash, \A s \in Slots : Stays(s, "delete")
  PROVE  StillChildless'
  BY SameMembers DEF StillChildless, Stays

\* The rows keep their addresses and parents.
LEMMA QuietTree ==
  ASSUME EnrollTypeOK,
         \/ \E t \in Token : CreateToken(t) \/ RevokeToken(t) \/ Expire(t) \/ Commit(t)
         \/ \E n \in Node : AddNodeAddress(n)
         \/ \E n \in Node, lo, hi \in Port : UpdateNodePorts(n, lo, hi)
         \/ UNCHANGED enrollVars
  PROVE  SameTree
<1>1. CASE row' = row
  BY <1>1 DEF SameTree
<1>2. ASSUME NEW n \in Node, AddNodeAddress(n)
      PROVE  SameTree
  <2>1. row[n] \in NodeRow
    BY <1>2 DEF AddNodeAddress, Alive, EnrollTypeOK
  <2> QED
    BY <1>2, <2>1, RowAssumption DEF AddNodeAddress, EnrollTypeOK, NodeRow, SameTree
<1>3. ASSUME NEW n \in Node, NEW lo \in Port, NEW hi \in Port, UpdateNodePorts(n, lo, hi)
      PROVE  SameTree
  <2>1. row[n] \in NodeRow
    BY <1>3 DEF UpdateNodePorts, Alive, EnrollTypeOK
  <2>2. [[row[n] EXCEPT !.lo = lo] EXCEPT !.hi = hi] \in NodeRow
    BY <2>1 DEF NodeRow
  <2> QED
    BY <1>3, <2>1, <2>2, RowAssumption DEF UpdateNodePorts, EnrollTypeOK, NodeRow, SameTree
<1> QED
  BY <1>1, <1>2, <1>3 DEF CreateToken, RevokeToken, Expire, Commit, enrollVars, rowVars

LEMMA PortTree ==
  ASSUME EnrollTypeOK, Holds, NEW s \in Slots, AllocateWGPort(s)
  PROVE  SameTree
<1> DEFINE p == req[s].parent
<1>1. CASE row[p] = NULL
  BY <1>1 DEF AllocateWGPort, SameTree
<1>2. CASE row[p] # NULL
  <2>1. p \in Node /\ row[p] \in NodeRow /\ row' = [row EXCEPT ![p].hi = LastPort(p)]
    BY <1>2 DEF AllocateWGPort, EnrollTypeOK, Holds
  <2>2. [row[p] EXCEPT !.hi = LastPort(p)] \in NodeRow
    BY <2>1 DEF NodeRow, LastPort
  <2> QED
    BY <2>1, <2>2, RowAssumption DEF EnrollTypeOK, NodeRow, SameTree
<1> QED
  BY <1>1, <1>2

\* Tokens, and the addresses and ports of a node.
LEMMA QuietKeeps ==
  ASSUME EnrollInv,
         \/ \E t \in Token : CreateToken(t) \/ RevokeToken(t) \/ Expire(t) \/ Commit(t)
         \/ \E n \in Node : AddNodeAddress(n)
         \/ \E n \in Node, lo, hi \in Port : UpdateNodePorts(n, lo, hi)
         \/ UNCHANGED enrollVars
  PROVE  (Holds /\ AddressFree /\ StillChildless /\ PortFree /\ DistinctPorts)'
<1>1. link' = link /\ req' = req /\ left' = left /\ clash' = clash
  BY DEF CreateToken, RevokeToken, Expire, Commit, AddNodeAddress, UpdateNodePorts, enrollVars,
         rowVars, historyVars
<1>2. SameTree
  BY QuietTree DEF EnrollInv
<1>3. SameLinks /\ \A s \in Slots : Stays(s, "insert") /\ Stays(s, "link") /\ Stays(s, "delete")
  BY <1>1 DEF SameLinks, Stays
<1>4. Holds'
  BY <1>1, <1>2, EnrollmentAssumption DEF EnrollInv, EnrollTypeOK, Holds, SameTree
<1> QED
  BY <1>1, <1>2, <1>3, <1>4, AddressCalm, PortCalm, ChildlessCalm DEF EnrollInv

\* Requests that move on without writing a node or choosing anything.
LEMMA PassKeeps ==
  ASSUME EnrollInv, NEW s \in Slots,
         \/ \E t \in Token : Enroll(s, t)
         \/ ReadParent(s) \/ ParentEndpoint(s) \/ ChildEndpoint(s)
  PROVE  (Holds /\ AddressFree /\ StillChildless /\ PortFree /\ DistinctPorts)'
<1>1. row' = row /\ left' = left /\ clash' = clash
  BY DEF Enroll, ReadParent, ParentEndpoint, ChildEndpoint, rowVars, historyVars
<1>2. SameTree
  BY <1>1 DEF SameTree
<1>3. SameLinks
  <2>1. \A n, end \in Node : CreateLinkEndpoint(n, end) => SameLinks
    BY RowAssumption DEF CreateLinkEndpoint, EnrollInv, EnrollTypeOK, LinkRow, SameLinks
  <2>2. req[s].pc \in {"epParent", "epChild"} => req[s].node \in Node /\ req[s].parent \in Node
    BY DEF EnrollInv, Holds
  <2>3. link' = link => SameLinks
    BY DEF SameLinks
  <2> QED
    BY <2>1, <2>2, <2>3 DEF Enroll, ReadParent, ParentEndpoint, ChildEndpoint
<1> DEFINE Passes ==
      /\ \A q \in Slots \ {s} : req'[q] = req[q]
      /\ req'[s].pc \in {"free", "parent", "ip", "epChild"}
      /\ req'[s].pc \in {"parent", "ip", "epChild"}
           => req'[s].parent \in Node /\ req'[s].token \in Token
      /\ req'[s].pc = "epChild" => req'[s].node \in Node
<1>4. Passes
  <2>1. ASSUME NEW t \in Token, Enroll(s, t)
        PROVE  Passes
    BY <2>1, EnrollmentAssumption DEF Enroll, EnrollInv, EnrollTypeOK, Idle
  <2>2. CASE ReadParent(s)
    BY <2>2, DoneType, IdleType DEF ReadParent, EnrollInv, EnrollTypeOK, Holds, Request
  <2>3. CASE ParentEndpoint(s)
    BY <2>3, StepType DEF ParentEndpoint, EnrollInv, EnrollTypeOK, Holds, RequestPC
  <2>4. CASE ChildEndpoint(s)
    BY <2>4, DoneType, IdleType DEF ChildEndpoint, EnrollInv
  <2> QED
    BY <2>1, <2>2, <2>3, <2>4
<1>5. \A q \in Slots : Stays(q, "insert") /\ Stays(q, "link") /\ Stays(q, "delete")
  BY <1>4 DEF Stays
<1>6. Holds'
  BY <1>1, <1>4 DEF EnrollInv, Holds
<1> QED
  BY <1>1, <1>2, <1>3, <1>5, <1>6, AddressCalm, PortCalm, ChildlessCalm DEF EnrollInv

LEMMA AddressKeeps ==
  ASSUME EnrollInv, NEW s \in Slots, AllocateOverlayIPv4(s)
  PROVE  (Holds /\ AddressFree /\ StillChildless /\ PortFree /\ DistinctPorts)'
<1>1. SameTree /\ SameLinks /\ row' = row /\ link' = link /\ left' = left
  BY DEF AllocateOverlayIPv4, SameTree, SameLinks, rowVars
<1>2. \A q \in Slots \ {s} : req'[q] = req[q]
  BY DoneType DEF AllocateOverlayIPv4, EnrollInv, EnrollTypeOK
<1>3. \/ req'[s].pc = "free" /\ clash' = clash
      \/ /\ req'[s].pc = "insert" /\ req'[s].ip \in FreeAddr
         /\ req'[s].parent = req[s].parent /\ req'[s].token = req[s].token
         /\ clash \subseteq clash'
         /\ "addresses" \notin clash' => \A q \in Slots \ {s} : req[q].pc # "insert"
         /\ clash' \subseteq clash \cup {"addresses"}
  <2>1. CASE FreeAddr = {}
    BY <2>1, DoneType, IdleType DEF AllocateOverlayIPv4, EnrollInv
  <2>2. CASE FreeAddr # {}
    <3>1. PICK a \in FreeAddr : req' = [req EXCEPT ![s].pc = "insert", ![s].ip = a]
      BY <2>2 DEF AllocateOverlayIPv4
    <3>2. req[s] \in Request
      BY DEF EnrollInv, EnrollTypeOK
    <3>3. /\ req'[s].pc = "insert" /\ req'[s].ip = a
          /\ req'[s].parent = req[s].parent /\ req'[s].token = req[s].token
      BY <3>1, <3>2 DEF EnrollInv, EnrollTypeOK, Request
    <3> QED
      BY <2>2, <3>3 DEF AllocateOverlayIPv4
  <2> QED
    BY <2>1, <2>2
<1>4. \A q \in Slots : Stays(q, "link") /\ Stays(q, "delete")
  BY <1>2, <1>3 DEF Stays
<1>5. Holds'
  BY <1>1, <1>2, <1>3 DEF AllocateOverlayIPv4, EnrollInv, Holds
<1>6. AddressFree'
  <2>1. \A n \in Alive : row[n].ip \notin FreeAddr
    BY DEF FreeAddr, TakenAddr
  <2> QED
    BY <1>1, <1>2, <1>3, <2>1 DEF AddressFree, EnrollInv, Alive
<1>7. "ports" \notin clash' => "ports" \notin clash
  BY <1>3
<1>8. PortFree' /\ DistinctPorts'
  BY <1>1, <1>2, <1>3, <1>4, <1>7, SamePorts DEF PortFree, DistinctPorts, EnrollInv, Stays
<1>9. StillChildless'
  BY <1>1, <1>2, <1>3, <1>4, SameMembers DEF StillChildless, EnrollInv, Stays
<1> QED
  BY <1>5, <1>6, <1>8, <1>9

\* What writing a node's row does.
LEMMA CreateNodeEffect ==
  ASSUME EnrollInv, NEW s \in Slots, NEW n \in Node, NEW public \in BOOLEAN, NEW dial \in BOOLEAN,
         CreateNode(s, n, public, dial), row[req[s].parent] # NULL
  PROVE  /\ n \notin Alive /\ n \notin left /\ req[s].parent \in Alive
         /\ Alive' = Alive \cup {n}
         /\ row'[n].ip = req[s].ip /\ row'[n].parent = req[s].parent /\ row'[n] # NULL
         /\ \A m \in Node \ {n} : row'[m] = row[m]
         /\ \A q \in Slots \ {s} : req'[q] = req[q]
         /\ req'[s].pc = "port" /\ req'[s].node = n
         /\ req'[s].parent = req[s].parent /\ req'[s].token = req[s].token
         /\ clash \subseteq clash' /\ clash' \subseteq clash \cup {"deletion"}
         /\ "deletion" \notin clash'
              => \A q \in Slots : ~(req[q].pc = "delete" /\ req[q].node = req[s].parent)
<1>1. req[s] \in Request /\ req[s].parent \in Node
  BY DEF CreateNode, EnrollInv, EnrollTypeOK, Holds
<1> DEFINE r == [ip |-> req[s].ip, parent |-> req[s].parent, dial |-> dial,
                 lo |-> IF public THEN req[s].lo ELSE 1, hi |-> IF public THEN req[s].hi ELSE 1]
<1>2. r \in NodeRow /\ r # NULL
  BY <1>1, PortNumbers, RowAssumption DEF NodeRow, Request
<1>3. row' = [row EXCEPT ![n] = r]
  BY DEF CreateNode
<1>4. /\ row'[n] = r /\ r.ip = req[s].ip /\ r.parent = req[s].parent
      /\ \A m \in Node \ {n} : row'[m] = row[m]
  BY <1>3 DEF EnrollInv, EnrollTypeOK
<1>5. Alive' = Alive \cup {n}
  BY <1>2, <1>4 DEF Alive
<1>6. n \notin Alive /\ n \notin left /\ req[s].parent \in Alive
  BY <1>1 DEF CreateNode, Alive
<1>7. /\ \A q \in Slots \ {s} : req'[q] = req[q]
      /\ req'[s].pc = "port" /\ req'[s].node = n
      /\ req'[s].parent = req[s].parent /\ req'[s].token = req[s].token
  BY <1>1 DEF CreateNode, EnrollInv, EnrollTypeOK, Request
<1>8. /\ clash \subseteq clash' /\ clash' \subseteq clash \cup {"deletion"}
      /\ "deletion" \notin clash'
           => \A q \in Slots : ~(req[q].pc = "delete" /\ req[q].node = req[s].parent)
  BY DEF CreateNode
<1> QED
  BY <1>2, <1>4, <1>5, <1>6, <1>7, <1>8

LEMMA CreateNodeKeeps ==
  ASSUME EnrollInv, NEW s \in Slots, NEW n \in Node, NEW public \in BOOLEAN, NEW dial \in BOOLEAN,
         CreateNode(s, n, public, dial)
  PROVE  (Holds /\ AddressFree /\ StillChildless /\ PortFree /\ DistinctPorts)'
<1>1. left' = left /\ link' = link
  BY DEF CreateNode
<1>2. CASE row[req[s].parent] = NULL
  <2>1. row' = row /\ clash' = clash /\ req'[s].pc = "free" /\ \A q \in Slots \ {s} : req'[q] = req[q]
    BY <1>2, DoneType, IdleType DEF CreateNode, EnrollInv
  <2>2. SameTree /\ SameLinks
    BY <1>1, <2>1 DEF SameTree, SameLinks
  <2>3. \A q \in Slots : Stays(q, "insert") /\ Stays(q, "link") /\ Stays(q, "delete")
    BY <2>1 DEF Stays
  <2>4. Holds'
    BY <1>1, <2>1 DEF EnrollInv, Holds
  <2> QED
    BY <2>1, <2>2, <2>3, <2>4, AddressCalm, PortCalm, ChildlessCalm DEF EnrollInv
<1>3. CASE row[req[s].parent] # NULL
  <2> USE CreateNodeEffect, <1>3
  <2>1. Holds'
    <3>1. req[s].parent \in Node /\ req[s].token \in Token
      BY DEF CreateNode, EnrollInv, Holds
    <3>2. row'[Controller] # NULL
      BY EnrollmentAssumption DEF EnrollInv, Holds
    <3>3. \A m \in left' : row'[m] = NULL
      BY <1>1 DEF EnrollInv, EnrollTypeOK, Holds
    <3> QED
      BY <3>1, <3>2, <3>3 DEF EnrollInv, Holds
  <2>2. AddressFree'
    <3> SUFFICES ASSUME "addresses" \notin clash', NEW q \in Slots, req'[q].pc = "insert"
                 PROVE  FALSE
      BY DEF AddressFree
    <3>1. q # s /\ req[s].pc = "insert" /\ "addresses" \notin clash
      BY DEF CreateNode
    <3>2. req[q].pc = "insert"
      BY <3>1
    <3> QED
      BY <3>1, <3>2 DEF EnrollInv, AddressFree
  <2>3. StillChildless'
    <3> SUFFICES ASSUME "deletion" \notin clash', NEW q \in Slots, req'[q].pc = "delete",
                        NEW m \in Alive', row'[m].parent = req'[q].node
                 PROVE  FALSE
      BY DEF StillChildless, Children
    <3>1. q # s /\ req'[q] = req[q] /\ req[q].node # req[s].parent /\ "deletion" \notin clash
      OBVIOUS
    <3>2. m # n /\ m \in Alive /\ row[m].parent = req[q].node
      BY <3>1 DEF Alive
    <3> QED
      BY <3>1, <3>2 DEF EnrollInv, StillChildless, Children
  <2>4. SameLinks
    BY <1>1 DEF SameLinks
  <2>5. "ports" \notin clash' => "ports" \notin clash
    OBVIOUS
  <2>6. \A q \in Slots : Stays(q, "link")
    BY DEF Stays
  <2>7. PortFree' /\ DistinctPorts'
    BY <1>1, <2>4, <2>5, <2>6, SamePorts DEF PortFree, DistinctPorts, EnrollInv, Stays
  <2> QED
    BY <2>1, <2>2, <2>3, <2>7
<1> QED
  BY <1>2, <1>3

LEMMA PortKeeps ==
  ASSUME EnrollInv, NEW s \in Slots, AllocateWGPort(s)
  PROVE  (Holds /\ AddressFree /\ StillChildless /\ PortFree /\ DistinctPorts)'
<1> DEFINE p == req[s].parent
<1>1. link' = link /\ left' = left /\ p \in Node /\ req[s].token \in Token /\ req[s].node \in Node
  BY DEF AllocateWGPort, EnrollInv, Holds
<1>2. SameLinks
  BY <1>1 DEF SameLinks
<1>3. SameTree
  BY PortTree DEF EnrollInv
<1>4. \/ /\ req'[s].pc = "free" /\ clash' = clash
         /\ \A q \in Slots \ {s} : req'[q] = req[q]
      \/ /\ req'[s].pc = "link" /\ req'[s].parent = p /\ req'[s].token = req[s].token
         /\ req'[s].node = req[s].node /\ req'[s].port \in FreePorts(p)
         /\ \A q \in Slots \ {s} : req'[q] = req[q]
         /\ clash \subseteq clash' /\ clash' \subseteq clash \cup {"ports"}
         /\ "ports" \notin clash' =>
              \A q \in Slots \ {s} : req[q].pc = "link" => req[q].parent # p
  <2>1. CASE row[p] = NULL \/ FreePorts(p) = {}
    BY <2>1, DoneType, IdleType DEF AllocateWGPort, Strand, EnrollInv
  <2>2. CASE row[p] # NULL /\ FreePorts(p) # {}
    <3>1. PICK x \in FreePorts(p) : req' = [req EXCEPT ![s].pc = "link", ![s].port = x]
      BY <2>2 DEF AllocateWGPort
    <3>2. req[s] \in Request
      BY DEF EnrollInv, EnrollTypeOK
    <3>3. /\ req'[s].pc = "link" /\ req'[s].parent = p /\ req'[s].token = req[s].token
          /\ req'[s].node = req[s].node /\ req'[s].port = x
          /\ \A q \in Slots \ {s} : req'[q] = req[q]
      BY <3>1, <3>2 DEF EnrollInv, EnrollTypeOK, Request
    <3>4. /\ clash \subseteq clash' /\ clash' \subseteq clash \cup {"ports"}
          /\ "ports" \notin clash' =>
               \A q \in Slots \ {s} : req[q].pc = "link" => req[q].parent # p
      BY <2>2 DEF AllocateWGPort
    <3> QED
      BY <3>3, <3>4
  <2> QED
    BY <2>1, <2>2
<1>5. Holds'
  BY <1>1, <1>3, <1>4, EnrollmentAssumption DEF EnrollInv, EnrollTypeOK, Holds, SameTree
<1>6. \A q \in Slots : Stays(q, "insert") /\ Stays(q, "delete")
  BY <1>4 DEF Stays
<1>7. ("addresses" \notin clash' => "addresses" \notin clash)
      /\ ("deletion" \notin clash' => "deletion" \notin clash)
  BY <1>4
<1>8. AddressFree'
  BY <1>3, <1>6, <1>7, SameMembers DEF EnrollInv, AddressFree, Stays, SameTree, Alive
<1>9. StillChildless'
  BY <1>3, <1>6, <1>7, SameMembers DEF EnrollInv, StillChildless, Stays
<1>10. PortFree'
  <2>1. \A x \in FreePorts(p) : x \notin TakenPorts(p)
    BY DEF FreePorts
  <2> SUFFICES ASSUME "ports" \notin clash', NEW q \in Slots, req'[q].pc = "link"
               PROVE  /\ req'[q].port \notin TakenPorts(req'[q].parent)
                      /\ \A k \in Slots \ {q} : req'[k].pc = "link" => req'[k].parent # req'[q].parent
    BY <1>2, SamePorts DEF PortFree
  <2>2. "ports" \notin clash
    BY <1>4
  <2>3. CASE q = s
    BY <1>4, <2>1, <2>3
  <2>4. CASE q # s
    BY <1>4, <2>2, <2>4 DEF EnrollInv, PortFree
  <2> QED
    BY <2>3, <2>4
<1>11. DistinctPorts'
  BY <1>1, <1>4 DEF DistinctPorts, EnrollInv
<1> QED
  BY <1>5, <1>8, <1>9, <1>10, <1>11

LEMMA LinkKeeps ==
  ASSUME EnrollInv, NEW s \in Slots, CreateLink(s)
  PROVE  (Holds /\ AddressFree /\ StillChildless /\ PortFree /\ DistinctPorts)'
<1> DEFINE p == req[s].parent
           n == req[s].node
<1>1. row' = row /\ left' = left /\ clash' = clash /\ SameTree
  BY DEF CreateLink, SameTree, rowVars, historyVars
<1>2. /\ req[s].pc = "link" /\ req'[s].pc = "epParent" /\ req'[s].parent = p /\ req'[s].node = n
      /\ req'[s].token = req[s].token
      /\ \A q \in Slots \ {s} : req'[q] = req[q]
  BY StepType DEF CreateLink, EnrollInv, RequestPC
<1>3. p \in Node /\ n \in Node /\ req[s].token \in Token /\ req[s].port \in Port
  BY <1>2 DEF EnrollInv, Holds, EnrollTypeOK, Request
<1>4. Holds'
  BY <1>1, <1>2, <1>3 DEF EnrollInv, Holds
<1>5. \A q \in Slots : Stays(q, "insert") /\ Stays(q, "link") /\ Stays(q, "delete")
  BY <1>2 DEF Stays
<1>6. CASE link' = link
  <2> SameLinks
    BY <1>6 DEF SameLinks
  <2> QED
    BY <1>1, <1>4, <1>5, AddressCalm, PortCalm, ChildlessCalm DEF EnrollInv
<1>7. CASE link' # link
  <2>1. /\ link'[n] # NULL /\ link'[n].parent = p /\ link'[n].port = req[s].port
        /\ \A m \in Node \ {n} : link'[m] = link[m]
    <3> DEFINE l == [parent |-> p, port |-> req[s].port, ends |-> {}]
    <3>1. l \in LinkRow /\ l # NULL
      BY <1>3, RowAssumption DEF LinkRow
    <3> QED
      BY <1>3, <1>7, <3>1 DEF CreateLink, EnrollInv, EnrollTypeOK
  <2>2. PortFree'
    <3>1. ASSUME "ports" \notin clash, NEW q \in Slots, req'[q].pc = "link"
          PROVE  /\ req'[q].port \notin TakenPorts(req[q].parent)'
                 /\ \A k \in Slots \ {q} : req'[k].pc = "link" => req'[k].parent # req'[q].parent
      <4>1. q # s /\ req'[q] = req[q] /\ req[q].pc = "link"
        BY <1>2, <3>1
      <4>2. req[q].parent # p /\ req[q].port \notin TakenPorts(req[q].parent)
        BY <1>2, <3>1, <4>1 DEF EnrollInv, PortFree
      <4>3. req'[q].port \notin TakenPorts(req[q].parent)'
        BY <2>1, <4>1, <4>2 DEF TakenPorts
      <4>4. \A k \in Slots \ {q} : req'[k].pc = "link" => req'[k].parent # req'[q].parent
        BY <1>2, <3>1, <4>1 DEF EnrollInv, PortFree
      <4> QED
        BY <4>3, <4>4
    <3> QED
      BY <1>1, <3>1 DEF PortFree
  <2>3. DistinctPorts'
    <3> SUFFICES ASSUME "ports" \notin clash, NEW k \in Node, NEW m \in Node, k # m,
                        link'[k] # NULL, link'[m] # NULL, link'[k].parent = link'[m].parent
                 PROVE  link'[k].port # link'[m].port
      BY <1>1 DEF DistinctPorts
    <3>1. \A j \in Node \ {n} : link[j] # NULL /\ link[j].parent = p => link[j].port # req[s].port
      <4>1. req[s].port \notin TakenPorts(p)
        BY <1>2 DEF EnrollInv, PortFree
      <4> QED
        BY <4>1 DEF TakenPorts
    <3> QED
      BY <2>1, <3>1 DEF EnrollInv, DistinctPorts
  <2> QED
    BY <1>1, <1>4, <1>5, <2>2, <2>3, AddressCalm, ChildlessCalm DEF EnrollInv
<1> QED
  BY <1>6, <1>7

LEMMA CheckKeeps ==
  ASSUME EnrollInv, NEW s \in Slots, NEW n \in Node, CheckDelete(s, n)
  PROVE  (Holds /\ AddressFree /\ StillChildless /\ PortFree /\ DistinctPorts)'
<1>1. /\ row' = row /\ left' = left /\ clash' = clash /\ link' = link
      /\ SameTree /\ SameLinks
  BY DEF CheckDelete, SameTree, SameLinks, rowVars, historyVars
<1>2. /\ req'[s].pc = "delete" /\ req'[s].node = n /\ n # Controller /\ Children(n) = {}
      /\ \A q \in Slots \ {s} : req'[q] = req[q]
  BY DEF CheckDelete, EnrollInv, EnrollTypeOK, Idle
<1>3. Holds'
  BY <1>1, <1>2 DEF EnrollInv, Holds
<1>4. \A q \in Slots : Stays(q, "insert") /\ Stays(q, "link")
  BY <1>2 DEF Stays
<1>5. StillChildless'
  BY <1>1, <1>2, SameMembers DEF EnrollInv, StillChildless
<1> QED
  BY <1>1, <1>3, <1>4, <1>5, AddressCalm, PortCalm DEF EnrollInv

\* What a deletion does to the rows.
LEMMA DeleteEffect ==
  ASSUME EnrollInv, NEW s \in Slots, DeleteNode(s)
  PROVE  /\ req[s].node \in Node \ {Controller} /\ req[s].pc = "delete"
         /\ left' = left \cup {req[s].node} /\ clash' = clash
         /\ req'[s].pc = "free" /\ \A q \in Slots \ {s} : req'[q] = req[q]
         /\ \A n \in Node :
              /\ row'[n] = NULL <=> (n = req[s].node \/ row[n] = NULL)
              /\ row'[n] # NULL =>
                   /\ row'[n].ip = row[n].ip
                   /\ row'[n].parent = (IF row[n].parent = req[s].node THEN NULL ELSE row[n].parent)
<1> DEFINE d == req[s].node
<1>1. /\ d \in Node \ {Controller} /\ req[s].pc = "delete" /\ left' = left \cup {d} /\ clash' = clash
      /\ req'[s].pc = "free" /\ \A q \in Slots \ {s} : req'[q] = req[q]
  BY DoneType, IdleType DEF DeleteNode, EnrollInv, Holds, historyVars
<1>2. \A n \in Node :
        /\ row'[n] = NULL <=> (n = d \/ row[n] = NULL)
        /\ row'[n] # NULL =>
             /\ row'[n].ip = row[n].ip
             /\ row'[n].parent = (IF row[n].parent = d THEN NULL ELSE row[n].parent)
  <2>1. ASSUME NEW n \in Node, row[n] # NULL
        PROVE  /\ [row[n] EXCEPT !.parent = NULL] # NULL
               /\ [row[n] EXCEPT !.parent = NULL].ip = row[n].ip
               /\ [row[n] EXCEPT !.parent = NULL].parent = NULL
    <3>1. row[n] \in NodeRow
      BY <2>1 DEF EnrollInv, EnrollTypeOK
    <3>2. [row[n] EXCEPT !.parent = NULL] \in NodeRow
      BY <3>1 DEF NodeRow
    <3> QED
      BY <3>1, <3>2, RowAssumption DEF NodeRow
  <2> QED
    BY <2>1 DEF DeleteNode
<1> QED
  BY <1>1, <1>2

LEMMA DeleteKeeps ==
  ASSUME EnrollInv, NEW s \in Slots, DeleteNode(s)
  PROVE  (Holds /\ AddressFree /\ StillChildless /\ PortFree /\ DistinctPorts)'
<1> DEFINE d == req[s].node
<1>1. /\ d \in Node \ {Controller} /\ left' = left \cup {d} /\ clash' = clash
      /\ req'[s].pc = "free" /\ \A q \in Slots \ {s} : req'[q] = req[q]
  BY DeleteEffect
<1>2. \A n \in Node :
        /\ row'[n] = NULL <=> (n = d \/ row[n] = NULL)
        /\ row'[n] # NULL =>
             /\ row'[n].ip = row[n].ip
             /\ row'[n].parent = (IF row[n].parent = d THEN NULL ELSE row[n].parent)
  BY DeleteEffect
<1>3. \A n \in Node : link'[n] # NULL => link'[n] = link[n]
  BY DEF DeleteNode
<1>4. Holds'
  BY <1>1, <1>2, EnrollmentAssumption DEF EnrollInv, EnrollTypeOK, Holds
<1>5. AddressFree'
  <2>1. Alive' \subseteq Alive /\ \A n \in Alive' : row'[n].ip = row[n].ip
    BY <1>2 DEF Alive
  <2> QED
    BY <1>1, <2>1 DEF EnrollInv, AddressFree
<1>6. StillChildless'
  <2> SUFFICES ASSUME "deletion" \notin clash, NEW q \in Slots, req'[q].pc = "delete",
                      NEW m \in Alive', row'[m].parent = req'[q].node
               PROVE  FALSE
    BY <1>1 DEF StillChildless, Children
  <2>1. q # s /\ req'[q] = req[q] /\ req[q].node \in Node /\ NULL \notin Node
    BY <1>1, EnrollmentAssumption DEF EnrollInv, Holds
  <2>2. m \in Alive /\ row[m].parent = req[q].node
    BY <1>2, <2>1 DEF Alive
  <2> QED
    BY <2>1, <2>2 DEF EnrollInv, StillChildless, Children
<1>7. PortFree'
  <2>1. ASSUME NEW p
        PROVE  TakenPorts(p)' \subseteq TakenPorts(p)
    BY <1>3 DEF TakenPorts
  <2> QED
    BY <1>1, <2>1 DEF EnrollInv, PortFree
<1>8. DistinctPorts'
  BY <1>1, <1>3 DEF EnrollInv, DistinctPorts
<1> QED
  BY <1>4, <1>5, <1>6, <1>7, <1>8

LEMMA RestartKeeps ==
  ASSUME EnrollInv, ControllerRestart
  PROVE  (Holds /\ AddressFree /\ StillChildless /\ PortFree /\ DistinctPorts)'
<1>1. /\ row' = row /\ left' = left /\ clash' = clash /\ SameTree /\ SameLinks
  BY DEF ControllerRestart, SameTree, SameLinks, rowVars
<1>2. \A s \in Slots : req'[s].pc = "free"
  BY IdleType DEF ControllerRestart
<1>3. Holds' /\ \A s \in Slots : Stays(s, "insert") /\ Stays(s, "link") /\ Stays(s, "delete")
  BY <1>1, <1>2 DEF EnrollInv, Holds, Stays
<1> QED
  BY <1>1, <1>3, AddressCalm, PortCalm, ChildlessCalm DEF EnrollInv

-----------------------------------------------------------------------------
(* The invariant.                                                            *)

LEMMA EnrollInitially == EnrollInit => EnrollInv
<1> SUFFICES ASSUME EnrollInit
             PROVE  EnrollInv
  OBVIOUS
<1> USE EnrollmentAssumption, PortNumbers, IdleType
<1>1. [ip |-> 1, parent |-> NULL, lo |-> 1, hi |-> MaxPort, dial |-> TRUE] \in NodeRow
  BY SMT DEF NodeRow
<1>2. row \in [Node -> NodeRow \cup {NULL}] /\ row[Controller] # NULL
  BY <1>1, RowAssumption DEF EnrollInit
<1>3. EnrollTypeOK
  BY <1>2 DEF EnrollInit, EnrollTypeOK
<1>4. \A s \in Slots : req[s].pc = "free"
  BY DEF EnrollInit
<1>5. \A n \in Node : link[n] = NULL
  BY DEF EnrollInit
<1>6. Holds
  BY <1>2, <1>4 DEF EnrollInit, Holds
<1> QED
  BY <1>3, <1>4, <1>5, <1>6
     DEF EnrollInv, AddressFree, StillChildless, PortFree, DistinctPorts

LEMMA EnrollStepKeeps == EnrollInv /\ [EnrollNext]_enrollVars => EnrollInv'
<1> SUFFICES ASSUME EnrollInv, [EnrollNext]_enrollVars
             PROVE  EnrollInv'
  OBVIOUS
<1>1. EnrollTypeOK'
  BY TypesKept DEF EnrollInv
<1>2. (Holds /\ AddressFree /\ StillChildless /\ PortFree /\ DistinctPorts)'
  BY QuietKeeps, PassKeeps, AddressKeeps, CreateNodeKeeps, PortKeeps, LinkKeeps, CheckKeeps,
     DeleteKeeps, RestartKeeps DEF EnrollNext, Handle
<1> QED
  BY <1>1, <1>2 DEF EnrollInv

LEMMA EnrollInvariant == EnrollSpec => []EnrollInv
<1>1. EnrollInit => EnrollInv
  BY EnrollInitially
<1>2. EnrollInv /\ [EnrollNext]_enrollVars => EnrollInv'
  BY EnrollStepKeeps
<1> QED
  BY <1>1, <1>2, PTL DEF EnrollSpec

\* Every row, request and counter keeps its type.
THEOREM EnrollTypeCorrect == EnrollSpec => []EnrollTypeOK
<1>1. EnrollInv => EnrollTypeOK
  BY DEF EnrollInv
<1> QED
  BY <1>1, EnrollInvariant, PTL

\* Two children of a node dial different ports of it, whatever the interleaving
\* of enrollments, deletions and changes of ports, unless two enrollments chose
\* their ports below the same parent at the same time.
THEOREM PortsDistinct == EnrollSpec => []DistinctPorts
<1>1. EnrollInv => DistinctPorts
  BY DEF EnrollInv
<1> QED
  BY <1>1, EnrollInvariant, PTL

-----------------------------------------------------------------------------
(* The refinement.                                                           *)

\* What the foreign keys keep: a parent is a row, and a deletion in progress is
\* of a node that exists or that another deletion has removed.
References ==
  /\ \A n \in Alive : row[n].parent \in Alive \cup {NULL}
  /\ \A s \in Slots : req[s].pc = "delete" => req[s].node \in Alive \cup left

RefInv == EnrollInv /\ References

\* A step writes a node's row, deletes one, or leaves the tree as it is.
Calm ==
  /\ SameTree /\ left' = left /\ clash \subseteq clash'
  /\ \A s \in Slots : Stays(s, "delete") \/ (req'[s].pc = "delete" /\ req'[s].node \in Alive)

Writes(s, n, public, dial) == CreateNode(s, n, public, dial) /\ row[req[s].parent] # NULL

LEMMA StepKinds ==
  ASSUME EnrollInv, [EnrollNext]_enrollVars
  PROVE  \/ Calm
         \/ \E s \in Slots, n \in Node, public, dial \in BOOLEAN : Writes(s, n, public, dial)
         \/ \E s \in Slots : DeleteNode(s)
<1>1. ASSUME \/ \E t \in Token : CreateToken(t) \/ RevokeToken(t) \/ Expire(t) \/ Commit(t)
             \/ \E n \in Node : AddNodeAddress(n)
             \/ \E n \in Node, lo, hi \in Port : UpdateNodePorts(n, lo, hi)
             \/ UNCHANGED enrollVars
      PROVE  Calm
  <2>1. left' = left /\ clash' = clash /\ req' = req
    BY <1>1 DEF CreateToken, RevokeToken, Expire, Commit, AddNodeAddress, UpdateNodePorts,
                enrollVars, rowVars, historyVars
  <2>2. SameTree
    BY <1>1, QuietTree DEF EnrollInv
  <2> QED
    BY <2>1, <2>2 DEF Calm, Stays
<1>2. ASSUME NEW s \in Slots,
             \/ \E t \in Token : Enroll(s, t)
             \/ ReadParent(s) \/ AllocateOverlayIPv4(s) \/ CreateLink(s)
             \/ ParentEndpoint(s) \/ ChildEndpoint(s)
      PROVE  Calm
  <2>1. row' = row /\ left' = left /\ clash \subseteq clash'
    BY <1>2 DEF Enroll, ReadParent, AllocateOverlayIPv4, CreateLink, ParentEndpoint, ChildEndpoint,
                rowVars, historyVars
  <2>2. req'[s].pc # "delete" /\ \A q \in Slots \ {s} : req'[q] = req[q]
    <3>1. ASSUME NEW t \in Token, Enroll(s, t)
          PROVE  req'[s].pc # "delete" /\ \A q \in Slots \ {s} : req'[q] = req[q]
      BY <3>1 DEF Enroll, EnrollInv, EnrollTypeOK, Idle
    <3>2. CASE ReadParent(s) \/ AllocateOverlayIPv4(s)
      BY <3>2, DoneType, IdleType
         DEF ReadParent, AllocateOverlayIPv4, EnrollInv, EnrollTypeOK, Request
    <3>3. CASE CreateLink(s) \/ ParentEndpoint(s)
      BY <3>3, StepType DEF CreateLink, ParentEndpoint, EnrollInv, RequestPC
    <3>4. CASE ChildEndpoint(s)
      BY <3>4, DoneType, IdleType DEF ChildEndpoint, EnrollInv
    <3> QED
      BY <1>2, <3>1, <3>2, <3>3, <3>4
  <2> QED
    BY <2>1, <2>2 DEF Calm, SameTree, Stays
<1>3. ASSUME NEW s \in Slots, AllocateWGPort(s)
      PROVE  Calm
  <2>1. left' = left /\ clash \subseteq clash'
    BY <1>3 DEF AllocateWGPort, Strand
  <2>2. req'[s].pc # "delete" /\ \A q \in Slots \ {s} : req'[q] = req[q]
    <3>1. CASE Done(s)
      BY <3>1, DoneType, IdleType DEF EnrollInv
    <3>2. CASE ~Done(s)
      BY <1>3, <3>2 DEF AllocateWGPort, Strand, EnrollInv, EnrollTypeOK, Request
    <3> QED
      BY <3>1, <3>2
  <2> QED
    BY <1>3, <2>1, <2>2, PortTree DEF Calm, Stays, EnrollInv
<1>4. ASSUME NEW s \in Slots, NEW n \in Node, NEW public \in BOOLEAN, NEW dial \in BOOLEAN,
             CreateNode(s, n, public, dial), row[req[s].parent] = NULL
      PROVE  Calm
  <2>1. row' = row /\ left' = left /\ clash' = clash /\ Done(s)
    BY <1>4 DEF CreateNode
  <2> QED
    BY <2>1, DoneType, IdleType DEF Calm, SameTree, Stays, EnrollInv
<1>5. ASSUME NEW s \in Slots, NEW n \in Node, CheckDelete(s, n)
      PROVE  Calm
  <2>1. row' = row /\ left' = left /\ clash' = clash
    BY <1>5 DEF CheckDelete, rowVars, historyVars
  <2>2. /\ req'[s].pc = "delete" /\ req'[s].node = n /\ n \in Alive
        /\ \A q \in Slots \ {s} : req'[q] = req[q]
    BY <1>5 DEF CheckDelete, EnrollInv, EnrollTypeOK, Idle
  <2> QED
    BY <2>1, <2>2 DEF Calm, SameTree, Stays
<1>6. CASE ControllerRestart
  <2>1. row' = row /\ left' = left /\ clash' = clash /\ \A s \in Slots : req'[s].pc = "free"
    BY <1>6, IdleType DEF ControllerRestart, rowVars
  <2> QED
    BY <2>1 DEF Calm, SameTree, Stays
<1> QED
  BY <1>1, <1>2, <1>3, <1>4, <1>5, <1>6 DEF EnrollNext, Handle, Writes

LEMMA ReferencesKept == RefInv /\ [EnrollNext]_enrollVars => References'
<1> SUFFICES ASSUME RefInv, [EnrollNext]_enrollVars
             PROVE  References'
  OBVIOUS
<1> EnrollInv
  BY DEF RefInv
<1>1. CASE Calm
  BY <1>1, SameMembers DEF Calm, RefInv, References, SameTree, Stays, Alive
<1>2. ASSUME NEW s \in Slots, NEW n \in Node, NEW public \in BOOLEAN, NEW dial \in BOOLEAN,
             Writes(s, n, public, dial)
      PROVE  References'
  <2>1. CreateNode(s, n, public, dial) /\ row[req[s].parent] # NULL /\ left' = left
    BY <1>2 DEF Writes, CreateNode
  <2>2. \A m \in Alive' : row'[m].parent \in Alive' \cup {NULL}
    BY <2>1, CreateNodeEffect DEF RefInv, References, Alive
  <2>3. \A q \in Slots : req'[q].pc = "delete" => req'[q].node \in Alive' \cup left'
    BY <2>1, CreateNodeEffect DEF RefInv, References
  <2> QED
    BY <2>2, <2>3 DEF References
<1>3. ASSUME NEW s \in Slots, DeleteNode(s)
      PROVE  References'
  <2> USE DeleteEffect, <1>3, EnrollmentAssumption
  <2>1. Alive' = Alive \ {req[s].node} /\ NULL \notin Alive
    BY DEF Alive
  <2>2. \A m \in Alive' : row'[m].parent \in Alive' \cup {NULL}
    BY <2>1 DEF RefInv, References, Alive
  <2>3. \A q \in Slots : req'[q].pc = "delete" => req'[q].node \in Alive' \cup left'
    BY <2>1 DEF RefInv, References
  <2> QED
    BY <2>2, <2>3 DEF References
<1> QED
  BY <1>1, <1>2, <1>3, StepKinds

LEMMA RefInvariant == EnrollSpec => []RefInv
<1>1. EnrollInit => RefInv
  <2> SUFFICES ASSUME EnrollInit
               PROVE  References
    BY EnrollInitially DEF RefInv
  <2>1. Alive \subseteq {Controller} /\ row[Controller].parent = NULL
    BY EnrollmentAssumption DEF EnrollInit, Alive
  <2>2. \A s \in Slots : req[s].pc = "free"
    BY IdleType DEF EnrollInit
  <2> QED
    BY <2>1, <2>2 DEF References
<1>2. RefInv /\ [EnrollNext]_enrollVars => RefInv'
  BY EnrollStepKeeps, ReferencesKept DEF RefInv
<1> QED
  BY <1>1, <1>2, PTL DEF EnrollSpec

LEMMA InitRefines == EnrollInit => M!MInit
<1> SUFFICES ASSUME EnrollInit
             PROVE  M!MInit
  OBVIOUS
<1> DEFINE r == [ip |-> 1, parent |-> NULL, lo |-> 1, hi |-> MaxPort, dial |-> TRUE]
<1>1. row[Controller] # NULL /\ row[Controller].ip = 1 /\ row[Controller].parent = NULL
  <2>1. row[Controller] = r
    BY EnrollmentAssumption DEF EnrollInit
  <2>2. EnrollInv
    BY EnrollInitially
  <2> QED
    BY <2>1, <2>2 DEF EnrollInv, Holds
<1>2. \A n \in Node \ {Controller} : row[n] = NULL
  BY DEF EnrollInit
<1>3. Alive = {Controller} /\ left = {}
  BY <1>1, <1>2, EnrollmentAssumption DEF Alive, EnrollInit
<1>4. OverlayOf = [n \in Node |-> IF n = Controller THEN 1 ELSE NULL]
  BY <1>1, <1>2 DEF OverlayOf
<1>5. ParentOf = [n \in Node |-> NULL]
  BY <1>1, <1>2 DEF ParentOf
<1>6. Undisturbed = TRUE
  BY DEF Undisturbed, EnrollInit
<1> QED
  BY <1>3, <1>4, <1>5, <1>6 DEF M!MInit

\* A calm step is a stutter or an interference.
LEMMA CalmRefines ==
  ASSUME Calm
  PROVE  [M!MNext]_(M!mVars)
<1>1. Alive' = Alive /\ left' = left /\ OverlayOf' = OverlayOf /\ ParentOf' = ParentOf
  BY SameMembers DEF Calm, SameTree, OverlayOf, ParentOf
<1>2. Undisturbed' => Undisturbed
  BY DEF Calm, Undisturbed
<1>3. CASE Undisturbed' = Undisturbed
  BY <1>1, <1>3 DEF M!mVars
<1>4. CASE Undisturbed' # Undisturbed
  <2>1. Undisturbed' = FALSE
    BY <1>2, <1>4 DEF Undisturbed
  <2> QED
    BY <1>1, <2>1 DEF M!MNext, M!Interfere
<1> QED
  BY <1>3, <1>4

LEMMA JoinRefines ==
  ASSUME RefInv, NEW s \in Slots, NEW n \in Node, NEW public \in BOOLEAN, NEW dial \in BOOLEAN,
         Writes(s, n, public, dial)
  PROVE  M!MNext
<1> DEFINE a == req[s].ip
           p == req[s].parent
<1>1. CreateNode(s, n, public, dial) /\ row[p] # NULL /\ EnrollInv /\ left' = left
      /\ req[s].pc = "insert"
  BY DEF Writes, CreateNode, RefInv
<1>2. a \in Addr /\ p \in Alive /\ n \in Node \ Alive /\ n \notin left /\ Alive' = Alive \cup {n}
  BY <1>1, CreateNodeEffect DEF EnrollInv, EnrollTypeOK, Request
<1>3. OverlayOf' = [OverlayOf EXCEPT ![n] = a] /\ ParentOf' = [ParentOf EXCEPT ![n] = p]
  <2>1. /\ row'[n] # NULL /\ row'[n].ip = a /\ row'[n].parent = p
        /\ \A m \in Node \ {n} : row'[m] = row[m]
    BY <1>1, CreateNodeEffect
  <2>2. OverlayOf' = [OverlayOf EXCEPT ![n] = a]
    BY <2>1 DEF OverlayOf
  <2>3. ParentOf' = [ParentOf EXCEPT ![n] = p]
    BY <2>1 DEF ParentOf
  <2> QED
    BY <2>2, <2>3
<1>4. Undisturbed' \in {Undisturbed, FALSE}
  BY <1>1, CreateNodeEffect DEF Undisturbed
<1>5. Undisturbed' => \A m \in Alive : OverlayOf[m] # a
  <2> SUFFICES ASSUME Undisturbed', NEW m \in Alive
               PROVE  OverlayOf[m] # a
    OBVIOUS
  <2>1. "addresses" \notin clash
    BY <1>1, CreateNodeEffect DEF Undisturbed
  <2>2. row[m].ip # a
    BY <1>1, <2>1 DEF EnrollInv, AddressFree
  <2> QED
    BY <2>2 DEF OverlayOf, Alive
<1>6. M!Join(n, a, p)
  BY <1>1, <1>2, <1>3, <1>4, <1>5 DEF M!Join, M!Dirty
<1> QED
  BY <1>2, <1>6 DEF M!MNext

LEMMA LeaveRefines ==
  ASSUME RefInv, NEW s \in Slots, DeleteNode(s)
  PROVE  [M!MNext]_(M!mVars)
<1> DEFINE d == req[s].node
<1> EnrollInv /\ NULL \notin Node
  BY EnrollmentAssumption DEF RefInv
<1>1. /\ d \in Node \ {Controller} /\ d \in Alive \cup left
      /\ \A m \in Alive : row[m].parent \in Alive \cup {NULL}
  BY DeleteEffect DEF RefInv, References
<1>2. /\ Alive' = Alive \ {d} /\ left' = left \cup {d} /\ Undisturbed' = Undisturbed
  BY DeleteEffect DEF Alive, Undisturbed
<1>3. OverlayOf' = [OverlayOf EXCEPT ![d] = NULL]
  BY DeleteEffect DEF OverlayOf
<1>4. ParentOf' = [m \in Node |-> IF m = d \/ ParentOf[m] = d THEN NULL ELSE ParentOf[m]]
  BY DeleteEffect DEF ParentOf
<1>5. CASE d \in Alive
  <2>1. Undisturbed => \A m \in Alive : ParentOf[m] # d
    <3> SUFFICES ASSUME Undisturbed, NEW m \in Alive
                 PROVE  ParentOf[m] # d
      OBVIOUS
    <3>1. Children(d) = {}
      BY DeleteEffect DEF Undisturbed, EnrollInv, StillChildless
    <3> QED
      BY <3>1 DEF ParentOf, Alive, Children
  <2>2. M!Leave(d)
    BY <1>2, <1>3, <1>4, <2>1 DEF M!Leave, M!Dirty
  <2> QED
    BY <1>1, <1>5, <2>2 DEF M!MNext, M!Others
<1>6. CASE d \notin Alive
  <2>1. row[d] = NULL /\ d \in left
    BY <1>1, <1>6 DEF Alive
  <2>2. Alive' = Alive /\ left' = left
    BY <1>2, <1>6, <2>1
  <2>3. OverlayOf' = OverlayOf
    BY <1>3, <2>1 DEF OverlayOf
  <2>4. ParentOf' = ParentOf
    BY <1>1, <1>4, <1>6, <2>1 DEF ParentOf, Alive
  <2> QED
    BY <1>2, <2>2, <2>3, <2>4 DEF M!mVars
<1> QED
  BY <1>5, <1>6

LEMMA StepRefines == RefInv /\ [EnrollNext]_enrollVars => [M!MNext]_(M!mVars)
<1> SUFFICES ASSUME RefInv, [EnrollNext]_enrollVars
             PROVE  [M!MNext]_(M!mVars)
  OBVIOUS
<1> QED
  BY StepKinds, CalmRefines, JoinRefines, LeaveRefines DEF RefInv

\* Enrollment implements Membership: every enrollment that writes a node's row
\* is a Join, every deletion a Leave or nothing, and the rest is interference or
\* nothing.
THEOREM EnrollmentRefines == EnrollSpec => ImplementsMembership
  BY StepRefines, InitRefines, RefInvariant, PTL DEF EnrollSpec, ImplementsMembership, M!MSpec

-----------------------------------------------------------------------------
(* What Membership promises holds of every behaviour that implements it: the *)
(* lemmas are about the steps of Membership alone, and use nothing of what   *)
(* its variables stand for here.                                             *)

LEMMA MembershipAssumed == M!MembershipAssumption
  BY EnrollmentAssumption, PortNumbers DEF M!MembershipAssumption

MTypeOK ==
  /\ Alive \subseteq Node /\ Controller \in Alive
  /\ OverlayOf \in [Node -> Addr \cup {NULL}]
  /\ ParentOf \in [Node -> Node \cup {NULL}]
  /\ Undisturbed \in BOOLEAN

\* Each conjunct is inductive only together with the types.
MInv == MTypeOK /\ M!DistinctAddresses /\ M!Tree

LEMMA MInitially == M!MInit => MInv
  BY MembershipAssumed DEF M!MembershipAssumption, M!MInit, MInv, MTypeOK, M!DistinctAddresses, M!Tree, M!Others

LEMMA JoinKeeps ==
  ASSUME MInv, NEW n \in Node \ Alive, NEW p \in Alive, NEW a \in Addr, M!Join(n, a, p)
  PROVE  MInv'
<1> USE MembershipAssumed DEF M!MembershipAssumption
<1> MTypeOK'
  BY DEF MInv, MTypeOK, M!Join, M!Dirty
<1> M!DistinctAddresses'
  <2> SUFFICES ASSUME Undisturbed', NEW k \in Alive', NEW m \in Alive', OverlayOf'[k] = OverlayOf'[m]
               PROVE  k = m
    BY DEF M!DistinctAddresses
  <2>1. Undisturbed /\ \A q \in Alive : OverlayOf[q] # a
    BY DEF M!Join, M!Dirty, MInv, MTypeOK
  <2>2. \A q \in Alive : OverlayOf'[q] = OverlayOf[q]
    BY DEF M!Join, MInv, MTypeOK
  <2>3. OverlayOf'[n] = a /\ Alive' = Alive \cup {n}
    BY DEF M!Join, MInv, MTypeOK
  <2> QED
    BY <2>1, <2>2, <2>3 DEF MInv, M!DistinctAddresses
<1> M!Tree'
  <2> SUFFICES ASSUME Undisturbed'
               PROVE  /\ \A q \in M!Others' : ParentOf'[q] \in Alive'
                      /\ \A S \in SUBSET M!Others' : S # {} => \E q \in S : ParentOf'[q] \notin S
    BY DEF M!Tree
  <2>1. Undisturbed
    BY DEF M!Join, M!Dirty, MInv, MTypeOK
  <2>2. /\ M!Others' = M!Others \cup {n} /\ Alive' = Alive \cup {n} /\ n \notin M!Others
        /\ ParentOf'[n] = p /\ p # n /\ p \in Alive
    BY DEF M!Join, MInv, MTypeOK, M!Others
  <2>3. \A q \in M!Others : ParentOf'[q] = ParentOf[q] /\ ParentOf[q] \in Alive /\ ParentOf[q] # n
    BY <2>1 DEF M!Join, MInv, MTypeOK, M!Tree, M!Others
  <2>4. ASSUME NEW S \in SUBSET M!Others', S # {}
        PROVE  \E q \in S : ParentOf'[q] \notin S
    <3>1. CASE S \subseteq {n}
      BY <2>2, <2>4, <3>1
    <3>2. CASE ~(S \subseteq {n})
      <4> DEFINE T == S \ {n}
      <4>1. T \in SUBSET M!Others /\ T # {}
        BY <2>2, <3>2
      <4>2. PICK q \in T : ParentOf[q] \notin T
        BY <4>1, <2>1 DEF MInv, M!Tree
      <4> QED
        BY <4>1, <4>2, <2>3
    <3> QED
      BY <3>1, <3>2
  <2> QED
    BY <2>2, <2>3, <2>4
<1> QED
  BY DEF MInv

LEMMA LeaveKeeps ==
  ASSUME MInv, NEW n \in M!Others, M!Leave(n)
  PROVE  MInv'
<1> USE MembershipAssumed DEF M!MembershipAssumption
<1>1. MTypeOK'
  BY DEF MInv, MTypeOK, M!Leave, M!Dirty, M!Others
<1>2. Alive' \subseteq Alive /\ n \notin Alive' /\ M!Others' \subseteq M!Others
  BY DEF M!Leave, M!Others
<1>3. M!DistinctAddresses'
  <2> SUFFICES ASSUME Undisturbed', NEW k \in Alive', NEW m \in Alive', OverlayOf'[k] = OverlayOf'[m]
               PROVE  k = m
    BY DEF M!DistinctAddresses
  <2>1. Undisturbed
    BY DEF M!Leave, M!Dirty, MInv, MTypeOK
  <2>2. \A q \in Alive' : OverlayOf'[q] = OverlayOf[q]
    BY <1>2 DEF M!Leave, MInv, MTypeOK
  <2> QED
    BY <1>2, <2>1, <2>2 DEF MInv, M!DistinctAddresses
<1>4. M!Tree'
  <2> SUFFICES ASSUME Undisturbed'
               PROVE  /\ \A q \in M!Others' : ParentOf'[q] \in Alive'
                      /\ \A S \in SUBSET M!Others' : S # {} => \E q \in S : ParentOf'[q] \notin S
    BY DEF M!Tree
  <2>1. Undisturbed /\ \A q \in Alive : ParentOf[q] # n
    BY DEF M!Leave, M!Dirty, MInv, MTypeOK
  <2>2. \A q \in M!Others' : ParentOf'[q] = ParentOf[q]
    BY <1>2, <2>1 DEF M!Leave, MInv, MTypeOK, M!Others
  <2>3. \A q \in M!Others' : ParentOf[q] \in Alive /\ ParentOf[q] # n
    BY <1>2, <2>1 DEF MInv, M!Tree, M!Others
  <2>4. ASSUME NEW S \in SUBSET M!Others', S # {}
        PROVE  \E q \in S : ParentOf'[q] \notin S
    <3>1. PICK q \in S : ParentOf[q] \notin S
      BY <1>2, <2>1, <2>4 DEF MInv, M!Tree
    <3> QED
      BY <2>2, <3>1
  <2>5. \A q \in Alive : q # n => q \in Alive'
    BY DEF M!Leave
  <2> QED
    BY <2>2, <2>3, <2>4, <2>5
<1> QED
  BY <1>1, <1>3, <1>4 DEF MInv

LEMMA MStepKeeps == MInv /\ [M!MNext]_(M!mVars) => MInv'
<1> SUFFICES ASSUME MInv, [M!MNext]_(M!mVars)
             PROVE  MInv'
  OBVIOUS
<1>1. ASSUME NEW n \in Node \ Alive, NEW p \in Alive, NEW a \in Addr, M!Join(n, a, p)
      PROVE  MInv'
  BY <1>1, JoinKeeps
<1>2. ASSUME NEW n \in M!Others, M!Leave(n)
      PROVE  MInv'
  BY <1>2, LeaveKeeps
<1>3. CASE M!Interfere
  BY <1>3 DEF M!Interfere, MInv, MTypeOK, M!DistinctAddresses, M!Tree, M!Others
<1>4. CASE UNCHANGED M!mVars
  BY <1>4 DEF M!mVars, MInv, MTypeOK, M!DistinctAddresses, M!Tree, M!Others
<1> QED
  BY <1>1, <1>2, <1>3, <1>4 DEF M!MNext

LEMMA MInvariant == M!MSpec => []MInv
<1>1. M!MInit => MInv
  BY MInitially
<1>2. MInv /\ [M!MNext]_(M!mVars) => MInv'
  BY MStepKeeps
<1> QED
  BY <1>1, <1>2, PTL DEF M!MSpec

LEMMA AddressesDistinct == M!MSpec => []M!DistinctAddresses
<1>1. MInv => M!DistinctAddresses
  BY DEF MInv
<1> QED
  BY <1>1, MInvariant, PTL

LEMMA MembersFormTree == M!MSpec => []M!Tree
<1>1. MInv => M!Tree
  BY DEF MInv
<1> QED
  BY <1>1, MInvariant, PTL

\* The nodes of the network have distinct overlay addresses, for any number of
\* concurrent enrollments and deletions, until two enrollments choose their
\* addresses at the same time or a node is deleted below which one is enrolling.
THEOREM AliveDistinct == EnrollSpec => []MembersDistinct
  BY EnrollmentRefines, AddressesDistinct, PTL DEF ImplementsMembership, MembersDistinct

\* Under the same proviso the nodes form a tree below the controller.
THEOREM AliveTree == EnrollSpec => []ControlTree
  BY EnrollmentRefines, MembersFormTree, PTL DEF ImplementsMembership, ControlTree

-----------------------------------------------------------------------------
(* Tokens.                                                                   *)

\* What a step must not do to a spent token.
Respects(t) ==
  /\ \A q \in Slots : req'[q].token = t => req[q].token = t
  /\ enrolledBy'[t] = enrolledBy[t] /\ left \subseteq left'
  /\ \/ token'[t] = token[t]
     \/ For[t] \in left' /\ token'[t] = NULL
     \/ token'[t] # NULL /\ (token'[t].used \/ token'[t].revoked \/ token'[t].expired)

LEMMA SpentKept ==
  ASSUME NEW t \in Token, Spent(t), Respects(t)
  PROVE  Spent(t)' /\ enrolledBy[t]' = enrolledBy[t]
  BY DEF Spent, Respects, Open

LEMMA TokensRespect ==
  ASSUME EnrollInv, NEW t \in Token, Spent(t), NEW k \in Token,
         CreateToken(k) \/ RevokeToken(k) \/ Expire(k) \/ Commit(k)
  PROVE  Respects(t)
<1>1. req' = req /\ enrolledBy' = enrolledBy /\ left' = left
  BY DEF CreateToken, RevokeToken, Expire, Commit, rowVars, historyVars
<1>2. token[t] # NULL => token[t] \in TokenRow
  BY DEF EnrollInv, EnrollTypeOK
<1>3. CASE CreateToken(k)
  <2>1. k # t
    BY <1>3 DEF CreateToken, Spent, Alive, EnrollInv, Holds
  <2> QED
    BY <1>1, <1>3, <2>1 DEF CreateToken, EnrollInv, EnrollTypeOK, Respects
<1>4. CASE RevokeToken(k) \/ Expire(k) \/ Commit(k)
  <2>1. CASE k # t
    BY <1>1, <1>4, <2>1 DEF RevokeToken, Expire, Commit, EnrollInv, EnrollTypeOK, Respects
  <2>2. CASE k = t
    <3>1. ASSUME token[t] # NULL
          PROVE  /\ [token[t] EXCEPT !.used = TRUE] \in TokenRow
                 /\ [token[t] EXCEPT !.revoked = TRUE] \in TokenRow
                 /\ [token[t] EXCEPT !.expired = TRUE] \in TokenRow
      BY <1>2, <3>1 DEF TokenRow
    <3> QED
      BY <1>1, <1>2, <1>4, <2>2, <3>1, RowAssumption
         DEF RevokeToken, Expire, Commit, EnrollInv, EnrollTypeOK, Respects, TokenRow
  <2> QED
    BY <2>1, <2>2
<1> QED
  BY <1>3, <1>4

LEMMA RequestsRespect ==
  ASSUME EnrollInv, NEW t \in Token, Spent(t), NEW s \in Slots,
         \/ \E k \in Token : Enroll(s, k)
         \/ \E n \in Node : CheckDelete(s, n)
         \/ Handle(s)
  PROVE  Respects(t)
<1>1. token' = token \/ DeleteNode(s)
  BY DEF Enroll, CheckDelete, Handle, ReadParent, AllocateOverlayIPv4, CreateNode, AllocateWGPort,
         CreateLink, ParentEndpoint, ChildEndpoint
<1>2. left \subseteq left' /\ (DeleteNode(s) => token'[t] \in {token[t], NULL} /\
                                (token'[t] # token[t] => For[t] \in left'))
  BY DEF Enroll, CheckDelete, Handle, ReadParent, AllocateOverlayIPv4, CreateNode, AllocateWGPort,
         CreateLink, ParentEndpoint, ChildEndpoint, DeleteNode, rowVars
<1>3. enrolledBy'[t] = enrolledBy[t]
  <2>1. CASE enrolledBy' = enrolledBy
    BY <2>1
  <2>2. ASSUME NEW n \in Node, NEW public \in BOOLEAN, NEW dial \in BOOLEAN,
               CreateNode(s, n, public, dial)
        PROVE  enrolledBy'[t] = enrolledBy[t]
    BY <2>2 DEF CreateNode, Spent, EnrollInv, EnrollTypeOK
  <2> QED
    BY <2>1, <2>2
       DEF Enroll, CheckDelete, Handle, ReadParent, AllocateOverlayIPv4, AllocateWGPort,
           CreateLink, ParentEndpoint, ChildEndpoint, DeleteNode, historyVars
<1>4. \A q \in Slots : req'[q].token = t => req[q].token = t
  <2> NULL # t
    BY EnrollmentAssumption
  <2>1. ASSUME NEW k \in Token, Enroll(s, k)
        PROVE  \A q \in Slots : req'[q].token = t => req[q].token = t
    <3>1. k # t
      BY <2>1 DEF Enroll, Spent
    <3> QED
      BY <2>1, <3>1 DEF Enroll, EnrollInv, EnrollTypeOK, Idle
  <2>2. ASSUME NEW n \in Node, CheckDelete(s, n)
        PROVE  \A q \in Slots : req'[q].token = t => req[q].token = t
    BY <2>2 DEF CheckDelete, EnrollInv, EnrollTypeOK, Idle
  <2>3. CASE Done(s)
    BY <2>3, DoneType, IdleType DEF EnrollInv
  <2>4. CASE Step(s, "epParent") \/ Step(s, "epChild")
    BY <2>4, StepType DEF EnrollInv, RequestPC
  <2>5. CASE ReadParent(s) /\ ~Done(s)
    BY <2>5 DEF ReadParent, EnrollInv, EnrollTypeOK, Request
  <2>6. CASE AllocateOverlayIPv4(s) /\ ~Done(s)
    BY <2>6 DEF AllocateOverlayIPv4, EnrollInv, EnrollTypeOK, Request
  <2>7. CASE AllocateWGPort(s) /\ ~Done(s)
    BY <2>7 DEF AllocateWGPort, Strand, EnrollInv, EnrollTypeOK, Request
  <2>8. ASSUME NEW n \in Node, NEW public \in BOOLEAN, NEW dial \in BOOLEAN,
               CreateNode(s, n, public, dial), ~Done(s)
        PROVE  \A q \in Slots : req'[q].token = t => req[q].token = t
    BY <2>8 DEF CreateNode, EnrollInv, EnrollTypeOK, Request
  <2> QED
    BY <2>1, <2>2, <2>3, <2>4, <2>5, <2>6, <2>7, <2>8
       DEF Handle, CreateLink, ParentEndpoint, ChildEndpoint, DeleteNode
<1> QED
  BY <1>1, <1>2, <1>3, <1>4 DEF Respects

\* A token that is used, revoked, expired or deleted, and checked by no request
\* in progress, stays so and enrolls nobody any more, whatever commits, restarts
\* and deletions happen.
THEOREM TokensStaySpent == EnrollSpec => SpentStaysSpent
<1>1. EnrollInv /\ [EnrollNext]_enrollVars
        => [\A t \in Token : Spent(t) => Spent(t)' /\ enrolledBy[t]' = enrolledBy[t]]_enrollVars
  <2> SUFFICES ASSUME EnrollInv, EnrollNext, NEW t \in Token, Spent(t)
               PROVE  Spent(t)' /\ enrolledBy[t]' = enrolledBy[t]
    OBVIOUS
  <2>1. ASSUME \/ \E n \in Node : AddNodeAddress(n)
               \/ \E n \in Node, lo, hi \in Port : UpdateNodePorts(n, lo, hi)
               \/ ControllerRestart
        PROVE  Respects(t)
    <3>1. token' = token /\ enrolledBy' = enrolledBy /\ left' = left
      BY <2>1 DEF AddNodeAddress, UpdateNodePorts, ControllerRestart, rowVars, historyVars
    <3>2. \A q \in Slots : req'[q].token = t => req[q].token = t
      BY <2>1, IdleType, EnrollmentAssumption DEF AddNodeAddress, UpdateNodePorts, ControllerRestart
    <3> QED
      BY <3>1, <3>2 DEF Respects
  <2> QED
    BY <2>1, SpentKept, TokensRespect, RequestsRespect DEF EnrollNext
<1> QED
  BY <1>1, EnrollInvariant, PTL DEF EnrollSpec, SpentStaysSpent

-----------------------------------------------------------------------------
(* Listeners of nodes without a public address.                              *)

\* Whoever has a link to a child, or a port for one, exists or existed.
ParentsKnown ==
  /\ \A n \in Node : link[n] # NULL => link[n].parent \in Alive \cup left
  /\ \A s \in Slots : req[s].pc = "link" => req[s].parent \in Alive \cup left

\* A node without a public address only ever gives away its first port.
FirstPort ==
  \A p \in Alive \ moved : ~row[p].dial =>
    /\ \A n \in Node : link[n] # NULL /\ link[n].parent = p => link[n].port = row[p].lo
    /\ \A s \in Slots : req[s].pc = "link" /\ req[s].parent = p => req[s].port = row[p].lo

\* What a step does to them: nodes do not lose their public address, ports are
\* written as they were chosen.
PortsGiven ==
  /\ left \subseteq left' /\ Alive \subseteq Alive' \cup left'
  /\ \A p \in Alive' \ moved' :
       \/ p \notin Alive \cup left
       \/ p \in Alive \ moved /\ row'[p].lo = row[p].lo /\ (row[p].dial => row'[p].dial)
  /\ \A n \in Node : link'[n] # NULL =>
       \/ link[n] # NULL /\ link'[n].parent = link[n].parent /\ link'[n].port = link[n].port
       \/ \E s \in Slots :
            req[s].pc = "link" /\ link'[n].parent = req[s].parent /\ link'[n].port = req[s].port
  /\ \A s \in Slots : req'[s].pc = "link" =>
       \/ req[s].pc = "link" /\ req'[s].parent = req[s].parent /\ req'[s].port = req[s].port
       \/ /\ req'[s].parent \in Alive
          /\ ~row[req'[s].parent].dial => req'[s].port = row[req'[s].parent].lo

\* Such a step preserves both.
LEMMA GivenKeeps ==
  ASSUME ParentsKnown, FirstPort, PortsGiven
  PROVE  ParentsKnown' /\ FirstPort'
<1>1. ParentsKnown'
  <2>1. \A n \in Node : link'[n] # NULL => link'[n].parent \in Alive \cup left
    BY DEF ParentsKnown, PortsGiven
  <2>2. \A s \in Slots : req'[s].pc = "link" => req'[s].parent \in Alive \cup left
    BY DEF ParentsKnown, PortsGiven
  <2>3. Alive \cup left \subseteq Alive' \cup left'
    BY DEF PortsGiven
  <2> QED
    BY <2>1, <2>2, <2>3 DEF ParentsKnown
<1>2. ASSUME NEW p \in Alive' \ moved', ~row'[p].dial
      PROVE  /\ \A n \in Node : link'[n] # NULL /\ link'[n].parent = p => link'[n].port = row'[p].lo
             /\ \A s \in Slots : req'[s].pc = "link" /\ req'[s].parent = p => req'[s].port = row'[p].lo
  <2>1. CASE p \notin Alive \cup left
    <3>1. \A n \in Node : link'[n] # NULL => link'[n].parent \in Alive \cup left
      BY DEF ParentsKnown, PortsGiven
    <3>2. \A s \in Slots : req'[s].pc = "link" => req'[s].parent \in Alive \cup left
      BY DEF ParentsKnown, PortsGiven
    <3> QED
      BY <2>1, <3>1, <3>2
  <2>2. CASE p \in Alive \ moved /\ row'[p].lo = row[p].lo /\ (row[p].dial => row'[p].dial)
    <3>1. /\ \A n \in Node : link[n] # NULL /\ link[n].parent = p => link[n].port = row[p].lo
          /\ \A s \in Slots : req[s].pc = "link" /\ req[s].parent = p => req[s].port = row[p].lo
      BY <1>2, <2>2 DEF FirstPort
    <3>2. \A n \in Node : link'[n] # NULL /\ link'[n].parent = p => link'[n].port = row[p].lo
      BY <3>1 DEF PortsGiven
    <3>3. \A s \in Slots : req'[s].pc = "link" /\ req'[s].parent = p => req'[s].port = row[p].lo
      BY <1>2, <2>2, <3>1 DEF PortsGiven
    <3> QED
      BY <2>2, <3>2, <3>3
  <2> QED
    BY <2>1, <2>2 DEF PortsGiven
<1> QED
  BY <1>1, <1>2 DEF FirstPort

\* What stays when rows, links and ports are left alone.
LEMMA NothingGiven ==
  ASSUME row' = row, left' = left, moved' = moved, SameLinks, \A s \in Slots : Stays(s, "link")
  PROVE  PortsGiven
<1>1. Alive' = Alive
  BY DEF Alive
<1> QED
  BY <1>1 DEF PortsGiven, SameLinks, Stays

\* Every step gives ports that way.
LEMMA StepGives ==
  ASSUME EnrollInv, [EnrollNext]_enrollVars
  PROVE  PortsGiven
<1> USE DEF EnrollInv
<1>1. ASSUME \/ \E t \in Token : CreateToken(t) \/ RevokeToken(t) \/ Expire(t) \/ Commit(t)
             \/ UNCHANGED enrollVars
      PROVE  PortsGiven
  <2>1. row' = row /\ left' = left /\ moved' = moved /\ link' = link /\ req' = req
    BY <1>1 DEF CreateToken, RevokeToken, Expire, Commit, enrollVars, rowVars, historyVars
  <2> QED
    BY <2>1, NothingGiven DEF SameLinks, Stays
<1>2. ASSUME NEW n \in Node, AddNodeAddress(n) PROVE PortsGiven
  <2>1. left' = left /\ moved' = moved /\ link' = link /\ req' = req /\ SameTree
    BY <1>2, QuietTree DEF AddNodeAddress, historyVars
  <2>2. \A p \in Alive : row'[p].lo = row[p].lo /\ (row[p].dial => row'[p].dial)
    <3>1. \A p \in Alive : row[p] \in NodeRow /\ p \in Node
      BY DEF Alive, EnrollTypeOK
    <3> QED
      BY <1>2, <3>1 DEF AddNodeAddress, EnrollTypeOK, NodeRow
  <2> QED
    BY <2>1, <2>2, SameMembers DEF PortsGiven
<1>3. ASSUME NEW n \in Node, NEW lo \in Port, NEW hi \in Port, UpdateNodePorts(n, lo, hi)
      PROVE  PortsGiven
  <2>1. left' = left /\ link' = link /\ req' = req /\ SameTree
    BY <1>3, QuietTree DEF UpdateNodePorts
  <2>2. \A p \in Alive \ moved' :
          p \in Alive \ moved /\ row'[p].lo = row[p].lo /\ (row[p].dial => row'[p].dial)
    <3>1. \A p \in Alive : row[p] \in NodeRow /\ p \in Node
      BY DEF Alive, EnrollTypeOK
    <3>2. moved \subseteq moved' /\ (n \notin moved' => lo = row[n].lo)
      BY <1>3 DEF UpdateNodePorts
    <3>3. row' = [row EXCEPT ![n].lo = lo, ![n].hi = hi]
      BY <1>3 DEF UpdateNodePorts
    <3> QED
      BY <3>1, <3>2, <3>3 DEF EnrollTypeOK, NodeRow
  <2> QED
    BY <2>1, <2>2, SameMembers DEF PortsGiven
<1>4. ASSUME NEW s \in Slots,
             \/ \E t \in Token : Enroll(s, t)
             \/ ReadParent(s) \/ AllocateOverlayIPv4(s) \/ ParentEndpoint(s) \/ ChildEndpoint(s)
      PROVE  PortsGiven
  <2>1. row' = row /\ left' = left /\ moved' = moved
    BY <1>4 DEF Enroll, ReadParent, AllocateOverlayIPv4, ParentEndpoint, ChildEndpoint,
       rowVars, historyVars
  <2>2. SameLinks
    <3>1. \A n, end \in Node : CreateLinkEndpoint(n, end) => SameLinks
      BY RowAssumption DEF CreateLinkEndpoint, EnrollTypeOK, LinkRow, SameLinks
    <3>2. req[s].pc \in {"epParent", "epChild"} => req[s].node \in Node /\ req[s].parent \in Node
      BY DEF Holds
    <3>3. link' = link => SameLinks
      BY DEF SameLinks
    <3> QED
      BY <1>4, <3>1, <3>2, <3>3 DEF Enroll, ReadParent, AllocateOverlayIPv4, ParentEndpoint, ChildEndpoint
  <2>3. req'[s].pc # "link" /\ \A q \in Slots \ {s} : req'[q] = req[q]
    <3>1. ASSUME NEW t \in Token, Enroll(s, t)
          PROVE  req'[s].pc # "link" /\ \A q \in Slots \ {s} : req'[q] = req[q]
      BY <3>1 DEF Enroll, EnrollTypeOK, Idle
    <3>2. CASE ReadParent(s) \/ AllocateOverlayIPv4(s)
      BY <3>2, DoneType, IdleType DEF ReadParent, AllocateOverlayIPv4, EnrollTypeOK, Request
    <3>3. CASE ParentEndpoint(s)
      BY <3>3, StepType DEF ParentEndpoint, RequestPC
    <3>4. CASE ChildEndpoint(s)
      BY <3>4, DoneType, IdleType DEF ChildEndpoint
    <3> QED
      BY <1>4, <3>1, <3>2, <3>3, <3>4
  <2> QED
    BY <2>1, <2>2, <2>3, NothingGiven DEF Stays
<1>5. ASSUME NEW s \in Slots, NEW n \in Node, NEW public \in BOOLEAN, NEW dial \in BOOLEAN,
             CreateNode(s, n, public, dial)
      PROVE  PortsGiven
  <2>1. left' = left /\ link' = link /\ moved' = moved
    BY <1>5 DEF CreateNode
  <2>2. CASE row[req[s].parent] = NULL
    <3>1. row' = row /\ req'[s].pc = "free" /\ \A q \in Slots \ {s} : req'[q] = req[q]
      BY <1>5, <2>2, DoneType, IdleType DEF CreateNode
    <3> QED
      BY <2>1, <3>1, NothingGiven DEF SameLinks, Stays
  <2>3. CASE row[req[s].parent] # NULL
    <3>1. /\ n \notin Alive \cup left /\ Alive' = Alive \cup {n}
          /\ \A m \in Node \ {n} : row'[m] = row[m]
          /\ \A q \in Slots \ {s} : req'[q] = req[q]
          /\ req'[s].pc = "port"
      BY <1>5, <2>3, CreateNodeEffect
    <3>2. Alive \subseteq Node
      BY DEF Alive
    <3> QED
      BY <2>1, <3>1, <3>2 DEF PortsGiven
  <2> QED
    BY <2>2, <2>3
<1>6. ASSUME NEW s \in Slots, AllocateWGPort(s) PROVE PortsGiven
  <2> DEFINE p == req[s].parent
  <2>1. left' = left /\ link' = link /\ moved' = moved /\ p \in Node /\ SameTree
    BY <1>6, PortTree DEF AllocateWGPort, Holds
  <2>2. \A m \in Alive : row'[m].lo = row[m].lo /\ (row[m].dial => row'[m].dial)
    <3>1. \A m \in Alive : row[m] \in NodeRow /\ m \in Node
      BY DEF Alive, EnrollTypeOK
    <3> QED
      BY <1>6, <3>1 DEF AllocateWGPort, EnrollTypeOK, NodeRow
  <2>3. CASE row[p] = NULL \/ FreePorts(p) = {}
    <3>1. req'[s].pc = "free" /\ \A q \in Slots \ {s} : req'[q] = req[q]
      BY <1>6, <2>3, DoneType, IdleType DEF AllocateWGPort, Strand
    <3> QED
      BY <2>1, <2>2, <3>1, SameMembers DEF PortsGiven
  <2>4. CASE row[p] # NULL /\ FreePorts(p) # {}
    <3>1. PICK x \in FreePorts(p) : req' = [req EXCEPT ![s].pc = "link", ![s].port = x]
      BY <1>6, <2>4 DEF AllocateWGPort
    <3>2. req[s] \in Request
      BY DEF EnrollTypeOK
    <3>3. /\ req'[s].parent = p /\ req'[s].port = x
          /\ \A q \in Slots \ {s} : req'[q] = req[q]
      BY <3>1, <3>2 DEF EnrollTypeOK, Request
    <3>4. p \in Alive /\ row[p] \in NodeRow
      BY <2>1, <2>4 DEF Alive, EnrollTypeOK
    <3>5. ~row[p].dial => x = row[p].lo
      BY <3>4, PortNumbers DEF FreePorts, LastPort, NodeRow
    <3> QED
      BY <2>1, <2>2, <3>3, <3>4, <3>5, SameMembers DEF PortsGiven
  <2> QED
    BY <2>3, <2>4
<1>7. ASSUME NEW s \in Slots, CreateLink(s) PROVE PortsGiven
  <2> DEFINE n == req[s].node
  <2>1. row' = row /\ left' = left /\ moved' = moved /\ req[s].pc = "link" /\ Alive' = Alive
    BY <1>7 DEF CreateLink, rowVars, historyVars, Alive
  <2>2. /\ req'[s].pc = "epParent"
        /\ \A q \in Slots \ {s} : req'[q] = req[q]
    BY <1>7, StepType DEF CreateLink, RequestPC
  <2>3. /\ \A m \in Node \ {n} : link'[m] = link[m]
        /\ \/ link' = link
           \/ link'[n].parent = req[s].parent /\ link'[n].port = req[s].port
    BY <1>7, <2>1 DEF CreateLink, EnrollTypeOK, Holds
  <2>4. \A m \in Node : link'[m] # NULL =>
          \/ link[m] # NULL /\ link'[m].parent = link[m].parent /\ link'[m].port = link[m].port
          \/ \E q \in Slots :
               req[q].pc = "link" /\ link'[m].parent = req[q].parent /\ link'[m].port = req[q].port
    BY <2>1, <2>3
  <2> QED
    BY <2>1, <2>2, <2>4 DEF PortsGiven
<1>8. ASSUME NEW s \in Slots, NEW n \in Node, CheckDelete(s, n) PROVE PortsGiven
  <2>1. row' = row /\ left' = left /\ moved' = moved /\ link' = link
    BY <1>8 DEF CheckDelete, rowVars, historyVars
  <2>2. req'[s].pc = "delete" /\ \A q \in Slots \ {s} : req'[q] = req[q]
    BY <1>8 DEF CheckDelete, EnrollTypeOK, Idle
  <2> QED
    BY <2>1, <2>2, NothingGiven DEF SameLinks, Stays
<1>9. ASSUME NEW s \in Slots, DeleteNode(s) PROVE PortsGiven
  <2> DEFINE d == req[s].node
  <2>1. /\ left' = left \cup {d} /\ moved' = moved
        /\ req'[s].pc = "free" /\ \A q \in Slots \ {s} : req'[q] = req[q]
        /\ \A n \in Node : row'[n] = NULL <=> (n = d \/ row[n] = NULL)
    BY <1>9, DeleteEffect DEF DeleteNode, historyVars
  <2>2. Alive' = Alive \ {d}
    BY <2>1 DEF Alive
  <2>3. \A n \in Node : link'[n] # NULL => link'[n] = link[n]
    BY <1>9 DEF DeleteNode
  <2>4. \A p \in Alive' : row'[p].lo = row[p].lo /\ row'[p].dial = row[p].dial
    <3>1. \A p \in Alive : row[p] \in NodeRow /\ p \in Node
      BY DEF Alive, EnrollTypeOK
    <3> QED
      BY <1>9, <2>2, <3>1 DEF DeleteNode, NodeRow, Alive
  <2> QED
    BY <2>1, <2>2, <2>3, <2>4 DEF PortsGiven
<1>10. CASE ControllerRestart
  <2>1. row' = row /\ left' = left /\ moved' = moved /\ link' = link /\ \A s \in Slots : req'[s].pc = "free"
    BY <1>10, IdleType DEF ControllerRestart, rowVars
  <2> QED
    BY <2>1, NothingGiven DEF SameLinks, Stays
<1> QED
  BY <1>1, <1>2, <1>3, <1>4, <1>5, <1>6, <1>7, <1>8, <1>9, <1>10 DEF EnrollNext, Handle

LanInv == EnrollInv /\ ParentsKnown /\ FirstPort

\* The invariant of listeners.
LEMMA LanInvariant == EnrollSpec => []LanInv
<1>1. EnrollInit => LanInv
  <2> SUFFICES ASSUME EnrollInit PROVE ParentsKnown /\ FirstPort
    BY EnrollInitially DEF LanInv
  <2>1. (\A s \in Slots : req[s].pc = "free") /\ (\A n \in Node : link[n] = NULL)
    BY IdleType DEF EnrollInit
  <2> QED
    BY <2>1 DEF ParentsKnown, FirstPort
<1>2. LanInv /\ [EnrollNext]_enrollVars => LanInv'
  <2> SUFFICES ASSUME LanInv, [EnrollNext]_enrollVars PROVE LanInv'
    OBVIOUS
  <2>1. EnrollInv' /\ PortsGiven
    BY EnrollStepKeeps, StepGives DEF LanInv
  <2> QED
    BY <2>1, GivenKeeps DEF LanInv
<1> QED
  BY <1>1, <1>2, PTL DEF EnrollSpec

\* A node without a public address listens for at most one child, for any
\* interleaving of enrollments, deletions and changes of ports: all children
\* would have its first port, and no two have the same one.
THEOREM LanCorrect == EnrollSpec => []LanSingle
<1>1. ASSUME LanInv PROVE LanSingle
  <2> SUFFICES ASSUME "ports" \notin clash, NEW p \in Alive \ moved, ~row[p].dial
               PROVE  Cardinality({n \in Node : link[n] # NULL /\ link[n].parent = p}) <= 1
    BY DEF LanSingle
  <2> DEFINE C == {n \in Node : link[n] # NULL /\ link[n].parent = p}
  <2>1. \A m, n \in C : m = n
    BY <1>1 DEF LanInv, EnrollInv, FirstPort, DistinctPorts
  <2> HIDE DEF C
  <2>2. Cardinality(C) <= 1
    <3>1. CASE C = {}
      BY <3>1, FS_EmptySet
    <3>2. CASE C # {}
      <4>1. PICK n \in C : TRUE
        BY <3>2
      <4>2. C = {n}
        BY <2>1, <4>1
      <4>3. Cardinality({n}) = 1
        BY FS_Singleton, Zenon
      <4> QED
        BY <4>2, <4>3
    <3> QED
      BY <3>1, <3>2
  <2> QED
    BY <2>2 DEF C
<1> QED
  BY <1>1, LanInvariant, PTL

-----------------------------------------------------------------------------
(* The links of enrolled nodes.                                              *)

\* The statements of an enrollment after its node's row.
Later == {"port", "link", "epParent", "epChild"}

\* At most one enrollment is about a node, and none about the controller.
OneRequest ==
  /\ \A s \in Slots : req[s].pc \in {"free", "parent", "ip", "insert"} => req[s].node = NULL
  /\ \A s \in Slots : req[s].pc \in Later => req[s].node \in (Alive \cup left) \ {Controller}
  /\ \A s, q \in Slots :
       req[s].pc \in Later /\ req[q].pc \in Later /\ req[s].node = req[q].node => s = q

Linked(links, rows, n, ends) ==
  links[n] # NULL /\ links[n].parent = rows[n].parent /\ links[n].ends = ends

\* Parents exist, enrollments know them, and write one end after the other.
TreeWritten ==
  /\ \A n \in Alive \ {Controller} : row[n].parent \in Alive
  /\ \A s \in Slots : req[s].pc \in Later /\ req[s].node \in Alive =>
       /\ row[req[s].node].parent = req[s].parent
       /\ req[s].pc = "epParent" => Linked(link, row, req[s].node, {})
       /\ req[s].pc = "epChild" => Linked(link, row, req[s].node, {req[s].parent})

\* Whose enrollment is over has its link.
Finished ==
  \A n \in Alive \ (stranded \cup {Controller}) :
    \/ \E s \in Slots : req[s].pc \in Later /\ req[s].node = n
    \/ Linked(link, row, n, {n, row[n].parent})

ConnInv ==
  EnrollInv /\ OneRequest /\ ("deletion" \notin clash => TreeWritten /\ Finished)

\* A request that does not get further than choosing a port.
Waits(s) ==
  /\ req'[s].pc \in {"free", "parent", "ip", "insert"} => req'[s].node = NULL
  /\ req'[s].pc \in Later =>
       /\ req[s].pc \in Later
       /\ req'[s].node = req[s].node /\ req'[s].parent = req[s].parent
       /\ req'[s].pc \in {"port", "link", req[s].pc}
  /\ req[s].pc \in Later => req'[s].pc \in Later \/ req[s].node \in stranded'

\* Steps that write neither a node's row nor its link.
LEMMA WaitKeeps ==
  ASSUME ConnInv, EnrollInv', SameTree, link' = link, left' = left, clash \subseteq clash',
         stranded \subseteq stranded', \A s \in Slots : Waits(s)
  PROVE  ConnInv'
<1>1. Alive' = Alive /\ \A n \in Alive : row'[n].parent = row[n].parent
  BY SameMembers DEF SameTree, Alive
<1>2. OneRequest'
  BY <1>1 DEF ConnInv, OneRequest, Waits
<1>3. ASSUME "deletion" \notin clash' PROVE TreeWritten' /\ Finished'
  <2>1. TreeWritten /\ Finished
    BY <1>3 DEF ConnInv
  <2>2. \A n \in Alive : \A e : Linked(link', row', n, e) <=> Linked(link, row, n, e)
    BY <1>1 DEF Linked
  <2>3. \A n \in Alive' \ {Controller} : row'[n].parent \in Alive'
    BY <1>1, <2>1 DEF TreeWritten
  <2>4. ASSUME NEW s \in Slots, req'[s].pc \in Later, req'[s].node \in Alive'
        PROVE  /\ row'[req'[s].node].parent = req'[s].parent
               /\ req'[s].pc = "epParent" => Linked(link', row', req'[s].node, {})
               /\ req'[s].pc = "epChild" => Linked(link', row', req'[s].node, {req'[s].parent})
    <3>1. /\ req[s].pc \in Later /\ req'[s].node = req[s].node /\ req'[s].parent = req[s].parent
          /\ req'[s].pc \in {"port", "link", req[s].pc}
      BY <2>4 DEF Waits
    <3> QED
      BY <1>1, <2>1, <2>2, <2>4, <3>1 DEF TreeWritten, Linked
  <2>5. Finished'
    BY <1>1, <2>1, <2>2 DEF Finished, Waits, Linked
  <2> QED
    BY <2>3, <2>4, <2>5 DEF TreeWritten
<1> QED
  BY <1>2, <1>3 DEF ConnInv

\* Which steps these are.
LEMMA StepWaits ==
  ASSUME ConnInv, EnrollInv',
         \/ \E t \in Token : CreateToken(t) \/ RevokeToken(t) \/ Expire(t) \/ Commit(t)
         \/ \E n \in Node : AddNodeAddress(n)
         \/ \E n \in Node, lo, hi \in Port : UpdateNodePorts(n, lo, hi)
         \/ UNCHANGED enrollVars
         \/ \E s \in Slots : \/ \E t \in Token : Enroll(s, t)
                             \/ ReadParent(s) \/ AllocateOverlayIPv4(s) \/ AllocateWGPort(s)
                             \/ \E n \in Node : CheckDelete(s, n)
         \/ ControllerRestart
  PROVE  ConnInv'
<1> USE DEF ConnInv, EnrollInv
<1>1. ASSUME \/ \E t \in Token : CreateToken(t) \/ RevokeToken(t) \/ Expire(t) \/ Commit(t)
             \/ \E n \in Node : AddNodeAddress(n)
             \/ \E n \in Node, lo, hi \in Port : UpdateNodePorts(n, lo, hi)
             \/ UNCHANGED enrollVars
      PROVE  ConnInv'
  <2>1. link' = link /\ req' = req /\ left' = left /\ clash' = clash /\ stranded' = stranded
    BY <1>1 DEF CreateToken, RevokeToken, Expire, Commit, AddNodeAddress, UpdateNodePorts, enrollVars,
       rowVars, historyVars
  <2>2. SameTree
    BY <1>1, QuietTree
  <2>3. \A s \in Slots : Waits(s)
    BY <2>1 DEF Waits, OneRequest
  <2> HIDE DEF ConnInv, EnrollInv
  <2> QED
    BY <2>1, <2>2, <2>3, WaitKeeps
<1>2. ASSUME NEW s \in Slots,
             \/ \E t \in Token : Enroll(s, t)
             \/ ReadParent(s) \/ AllocateOverlayIPv4(s)
             \/ \E n \in Node : CheckDelete(s, n)
      PROVE  ConnInv'
  <2>1. /\ row' = row /\ link' = link /\ left' = left /\ clash \subseteq clash' /\ stranded' = stranded
        /\ SameTree
    BY <1>2 DEF Enroll, ReadParent, AllocateOverlayIPv4, CheckDelete, rowVars, historyVars, SameTree
  <2>2. /\ req[s].pc \notin Later /\ \A q \in Slots \ {s} : req'[q] = req[q]
        /\ \/ req'[s].pc \in {"free", "parent", "ip", "insert"} /\ req'[s].node = NULL
           \/ req'[s].pc = "delete"
    <3>1. ASSUME NEW t \in Token, Enroll(s, t)
          PROVE  /\ req[s].pc \notin Later /\ \A q \in Slots \ {s} : req'[q] = req[q]
                 /\ req'[s].pc = "parent" /\ req'[s].node = NULL
      BY <3>1 DEF Enroll, EnrollTypeOK, Idle, Later
    <3>2. CASE ReadParent(s) \/ AllocateOverlayIPv4(s)
      <4>1. req[s].pc \notin Later /\ req[s].node = NULL
        BY <3>2 DEF ReadParent, AllocateOverlayIPv4, Later, OneRequest
      <4>2. CASE Done(s)
        BY <4>1, <4>2, DoneType, IdleType
      <4>3. req \in [Slots -> Request]
        BY DEF EnrollTypeOK
      <4>4. CASE ReadParent(s) /\ ~Done(s)
        <5>1. req' = [req EXCEPT ![s].pc = "ip", ![s].lo = row[req[s].parent].lo,
                                 ![s].hi = row[req[s].parent].hi]
          BY <4>4 DEF ReadParent
        <5> QED
          BY <4>1, <4>3, <5>1 DEF Request
      <4>5. CASE AllocateOverlayIPv4(s) /\ ~Done(s)
        <5>1. PICK a \in FreeAddr : req' = [req EXCEPT ![s].pc = "insert", ![s].ip = a]
          BY <4>5 DEF AllocateOverlayIPv4
        <5> QED
          BY <4>1, <4>3, <5>1 DEF Request
      <4> QED
        BY <3>2, <4>2, <4>4, <4>5
    <3>3. ASSUME NEW n \in Node, CheckDelete(s, n)
          PROVE  /\ req[s].pc \notin Later /\ \A q \in Slots \ {s} : req'[q] = req[q]
                 /\ req'[s].pc = "delete"
      BY <3>3 DEF CheckDelete, EnrollTypeOK, Idle, Later
    <3> QED
      BY <1>2, <3>1, <3>2, <3>3
  <2>3. \A q \in Slots : Waits(q)
    BY <2>2 DEF Waits, OneRequest, Later
  <2> HIDE DEF ConnInv, EnrollInv
  <2> QED
    BY <2>1, <2>3, WaitKeeps
<1>3. ASSUME NEW s \in Slots, AllocateWGPort(s) PROVE ConnInv'
  <2>1. /\ link' = link /\ left' = left /\ clash \subseteq clash' /\ stranded \subseteq stranded'
        /\ req[s].pc = "port"
    BY <1>3 DEF AllocateWGPort, Strand
  <2>2. SameTree
    BY <1>3, PortTree
  <2>3. Waits(s) /\ \A q \in Slots \ {s} : req'[q] = req[q]
    <3>1. CASE Strand(s)
      BY <2>1, <3>1, DoneType, IdleType DEF Strand, Waits, Later
    <3>2. CASE ~Strand(s)
      <4>1. PICK x \in FreePorts(req[s].parent) : req' = [req EXCEPT ![s].pc = "link", ![s].port = x]
        BY <1>3, <3>2 DEF AllocateWGPort
      <4> QED
        BY <2>1, <4>1 DEF EnrollTypeOK, Request, Waits, Later
    <3> QED
      BY <3>1, <3>2
  <2>4. \A q \in Slots : Waits(q)
    BY <2>1, <2>3 DEF Waits, OneRequest
  <2> HIDE DEF ConnInv, EnrollInv
  <2> QED
    BY <2>1, <2>2, <2>4, WaitKeeps
<1>4. CASE ControllerRestart
  <2>1. /\ link' = link /\ left' = left /\ clash' = clash /\ SameTree
        /\ stranded \subseteq stranded'
        /\ \A s \in Slots : req[s].pc \in Later => req[s].node \in stranded'
    BY <1>4 DEF ControllerRestart, rowVars, SameTree, Later
  <2>2. \A s \in Slots : req'[s] = Idle
    BY <1>4 DEF ControllerRestart
  <2>3. \A s \in Slots : Waits(s)
    BY <2>1, <2>2, IdleType DEF Waits, Later
  <2> HIDE DEF ConnInv, EnrollInv
  <2> QED
    BY <2>1, <2>3, WaitKeeps
<1> QED
  BY <1>1, <1>2, <1>3, <1>4

\* A new row: its enrollment knows its parent.
LEMMA RowKeeps ==
  ASSUME ConnInv, EnrollInv', NEW s \in Slots, NEW n \in Node, NEW public \in BOOLEAN,
         NEW dial \in BOOLEAN, CreateNode(s, n, public, dial)
  PROVE  ConnInv'
<1>0. EnrollInv /\ OneRequest
  BY DEF ConnInv
<1>1. CASE row[req[s].parent] = NULL
  <2>1. /\ row' = row /\ link' = link /\ left' = left /\ clash' = clash /\ stranded' = stranded
        /\ Done(s) /\ req[s].pc = "insert"
    BY <1>1 DEF CreateNode
  <2>2. \A q \in Slots : Waits(q)
    BY <1>0, <2>1, DoneType, IdleType DEF Waits, EnrollInv, OneRequest, Later
  <2> QED
    BY <2>1, <2>2, WaitKeeps DEF SameTree
<1>2. CASE row[req[s].parent] # NULL
  <2>1. /\ n \notin Alive /\ n \notin left /\ req[s].parent \in Alive
        /\ Alive' = Alive \cup {n}
        /\ row'[n].parent = req[s].parent
        /\ \A m \in Node \ {n} : row'[m] = row[m]
        /\ \A q \in Slots \ {s} : req'[q] = req[q]
        /\ req'[s].pc = "port" /\ req'[s].node = n
        /\ req'[s].parent = req[s].parent
        /\ clash \subseteq clash'
    BY <1>0, <1>2, CreateNodeEffect
  <2>2. link' = link /\ left' = left /\ stranded' = stranded
    BY DEF CreateNode
  <2>3. n # Controller /\ Alive \subseteq Node
    BY <1>0, <2>1, EnrollmentAssumption DEF EnrollInv, Holds, Alive
  <2>4. OneRequest'
    <3>1. \A q \in Slots \ {s} : req[q].pc \in Later => req[q].node # n
      BY <1>0, <2>1 DEF OneRequest
    <3>2. \A q \in Slots : req'[q].pc \in {"free", "parent", "ip", "insert"} => req'[q].node = NULL
      BY <1>0, <2>1 DEF OneRequest
    <3>3. \A q \in Slots : req'[q].pc \in Later => req'[q].node \in (Alive' \cup left') \ {Controller}
      BY <1>0, <2>1, <2>2, <2>3 DEF OneRequest
    <3>4. \A p, q \in Slots :
            req'[p].pc \in Later /\ req'[q].pc \in Later /\ req'[p].node = req'[q].node => p = q
      BY <1>0, <2>1, <3>1 DEF OneRequest
    <3> QED
      BY <3>2, <3>3, <3>4 DEF OneRequest
  <2>5. ASSUME "deletion" \notin clash' PROVE TreeWritten' /\ Finished'
    <3>1. TreeWritten /\ Finished
      BY <2>1, <2>5 DEF ConnInv
    <3>2. \A m \in Alive : row'[m] = row[m]
      BY <2>1, <2>3
    <3>3. \A m \in Alive' \ {Controller} : row'[m].parent \in Alive'
      BY <2>1, <3>1, <3>2 DEF TreeWritten
    <3>4. \A m \in Alive : \A e : Linked(link', row', m, e) <=> Linked(link, row, m, e)
      BY <2>2, <3>2 DEF Linked
    <3>5. ASSUME NEW q \in Slots, req'[q].pc \in Later, req'[q].node \in Alive'
          PROVE  /\ row'[req'[q].node].parent = req'[q].parent
                 /\ req'[q].pc = "epParent" => Linked(link', row', req'[q].node, {})
                 /\ req'[q].pc = "epChild" => Linked(link', row', req'[q].node, {req'[q].parent})
      <4>1. CASE q = s
        BY <2>1, <4>1
      <4>2. CASE q # s
        <5>1. req'[q] = req[q] /\ req[q].node \in Alive
          BY <1>0, <2>1, <3>5, <4>2 DEF OneRequest
        <5> QED
          BY <3>1, <3>2, <3>5, <5>1, <2>2 DEF TreeWritten, Linked
      <4> QED
        BY <4>1, <4>2
    <3>6. Finished'
      <4>1. ASSUME NEW m \in Alive' \ (stranded' \cup {Controller})
            PROVE  \/ \E q \in Slots : req'[q].pc \in Later /\ req'[q].node = m
                   \/ Linked(link', row', m, {m, row'[m].parent})
        <5>1. CASE m = n
          BY <2>1, <5>1 DEF Later
        <5>2. CASE m # n
          <6>1. \A q \in Slots : req[q].pc \in Later => req'[q] = req[q]
            BY <2>1 DEF CreateNode, Later
          <6> QED
            BY <2>1, <2>2, <3>1, <3>2, <5>2, <6>1 DEF Finished, Linked
        <5> QED
          BY <5>1, <5>2
      <4> QED
        BY <4>1 DEF Finished
    <3> QED
      BY <3>3, <3>5, <3>6 DEF TreeWritten
  <2> QED
    BY <2>4, <2>5 DEF ConnInv
<1> QED
  BY <1>1, <1>2

\* The link and its two ends are of the node whose enrollment writes them.
LEMMA EndsKeep ==
  ASSUME ConnInv, EnrollInv', NEW s \in Slots, CreateLink(s) \/ ParentEndpoint(s) \/ ChildEndpoint(s)
  PROVE  ConnInv'
<1> DEFINE n == req[s].node
           p == req[s].parent
<1>0. EnrollInv /\ OneRequest /\ n \in Node /\ p \in Node /\ NULL \notin Node /\ req[s].pc \in Later
  BY EnrollmentAssumption DEF ConnInv, EnrollInv, Holds, CreateLink, ParentEndpoint, ChildEndpoint, Later
<1>1. row' = row /\ left' = left /\ clash' = clash /\ stranded' = stranded /\ Alive' = Alive
  BY DEF CreateLink, ParentEndpoint, ChildEndpoint, rowVars, historyVars, Alive
<1>2. /\ \A q \in Slots \ {s} : req'[q] = req[q]
      /\ \/ CreateLink(s) /\ req[s].pc = "link" /\ req'[s].pc = "epParent"
         \/ ParentEndpoint(s) /\ req[s].pc = "epParent" /\ req'[s].pc = "epChild"
         \/ ChildEndpoint(s) /\ req[s].pc = "epChild" /\ req'[s].pc = "free"
      /\ req'[s].pc # "free" => req'[s].node = n /\ req'[s].parent = p
      /\ req'[s].pc = "free" => req'[s].node = NULL
  BY <1>0, StepType, DoneType, IdleType
     DEF CreateLink, ParentEndpoint, ChildEndpoint, EnrollInv, RequestPC
<1>3. \A m \in Node \ {n} : link'[m] = link[m]
  BY <1>0 DEF CreateLink, ParentEndpoint, ChildEndpoint, CreateLinkEndpoint, EnrollInv, EnrollTypeOK
<1>4. OneRequest'
  <2>1. \A q \in Slots : req'[q].pc \in {"free", "parent", "ip", "insert"} => req'[q].node = NULL
    BY <1>0, <1>2 DEF OneRequest
  <2>2. \A q \in Slots : req'[q].pc \in Later => req[q].pc \in Later /\ req'[q].node = req[q].node
    BY <1>0, <1>2 DEF Later
  <2> QED
    BY <1>0, <1>1, <2>1, <2>2 DEF OneRequest
<1>5. ASSUME "deletion" \notin clash' PROVE TreeWritten' /\ Finished'
  <2>1. TreeWritten /\ Finished
    BY <1>1, <1>5 DEF ConnInv
  <2>2. \A m \in Node \ {n} : \A e : Linked(link', row', m, e) <=> Linked(link, row, m, e)
    BY <1>1, <1>3 DEF Linked
  <2>3. ASSUME n \in Alive
        PROVE  /\ row[n].parent = p
               /\ req'[s].pc = "epParent" => Linked(link', row', n, {})
               /\ req'[s].pc = "epChild" => Linked(link', row', n, {p})
               /\ req'[s].pc = "free" => Linked(link', row', n, {n, p})
    <3>1. row[n].parent = p /\ p \in Alive /\ row[n] # NULL /\ row[p] # NULL
      BY <1>0, <2>1, <2>3 DEF TreeWritten, OneRequest, Alive
    <3>2. CASE CreateLink(s)
      <4>1. link' = [link EXCEPT ![n] = [parent |-> p, port |-> req[s].port, ends |-> {}]]
        BY <3>1, <3>2 DEF CreateLink
      <4>2. req[s].port \in Port
        BY <1>0 DEF EnrollInv, EnrollTypeOK, Request
      <4>3. [parent |-> p, port |-> req[s].port, ends |-> {}] \in LinkRow
        BY <1>0, <4>2 DEF LinkRow
      <4>4. Linked(link', row', n, {})
        BY <1>0, <1>1, <3>1, <4>1, <4>3, RowAssumption DEF Linked, EnrollInv, EnrollTypeOK
      <4>5. req'[s].pc = "epParent"
        BY <1>2, <3>2 DEF CreateLink
      <4> QED
        BY <3>1, <4>4, <4>5
    <3>3. ASSUME NEW ends \in SUBSET Node, NEW end \in Node,
                 Linked(link, row, n, ends), CreateLinkEndpoint(n, end)
          PROVE  Linked(link', row', n, ends \cup {end})
      <4>1. link[n] \in LinkRow /\ link[n] # NULL
        BY <1>0, <3>3 DEF Linked, EnrollInv, EnrollTypeOK
      <4>2. link' = [link EXCEPT ![n].ends = @ \cup {end}]
        BY <3>3, <4>1 DEF CreateLinkEndpoint
      <4>3. link'[n] = [link[n] EXCEPT !.ends = @ \cup {end}]
        BY <1>0, <4>2 DEF EnrollInv, EnrollTypeOK
      <4>4. [link[n] EXCEPT !.ends = @ \cup {end}] \in LinkRow
        BY <3>3, <4>1 DEF LinkRow
      <4>5. link'[n] # NULL
        BY <4>3, <4>4, RowAssumption
      <4> QED
        BY <1>1, <3>3, <4>1, <4>3, <4>5 DEF Linked, LinkRow
    <3>4. CASE ParentEndpoint(s)
      <4>1. Linked(link, row, n, {}) /\ CreateLinkEndpoint(n, p) /\ req'[s].pc = "epChild"
        BY <1>0, <1>2, <2>1, <2>3, <3>4 DEF TreeWritten, ParentEndpoint
      <4>2. Linked(link', row', n, {} \cup {p})
        BY <1>0, <3>3, <4>1
      <4>3. {} \cup {p} = {p}
        OBVIOUS
      <4> QED
        BY <3>1, <4>1, <4>2, <4>3
    <3>5. CASE ChildEndpoint(s)
      <4>1. Linked(link, row, n, {p}) /\ CreateLinkEndpoint(n, n) /\ req'[s].pc = "free"
        BY <1>0, <1>2, <2>1, <2>3, <3>5 DEF TreeWritten, ChildEndpoint
      <4>2. Linked(link', row', n, {p} \cup {n})
        BY <1>0, <3>3, <4>1
      <4>3. {p} \cup {n} = {n, p}
        OBVIOUS
      <4> QED
        BY <3>1, <4>1, <4>2, <4>3
    <3> QED
      BY <3>2, <3>4, <3>5
  <2>4. ASSUME NEW q \in Slots, req'[q].pc \in Later, req'[q].node \in Alive'
        PROVE  /\ row'[req'[q].node].parent = req'[q].parent
               /\ req'[q].pc = "epParent" => Linked(link', row', req'[q].node, {})
               /\ req'[q].pc = "epChild" => Linked(link', row', req'[q].node, {req'[q].parent})
    <3>1. CASE q = s
      <4>1. req'[s].pc # "free" /\ req'[s].node = n /\ req'[s].parent = p /\ n \in Alive
        BY <1>1, <1>2, <2>4, <3>1 DEF Later
      <4> QED
        BY <1>1, <2>3, <3>1, <4>1
    <3>2. CASE q # s
      <4>1. req'[q] = req[q] /\ req[q].node \in Alive /\ req[q].node # n /\ req[q].pc \in Later
        BY <1>0, <1>1, <1>2, <2>4, <3>2 DEF OneRequest
      <4>2. req[q].node \in Node \ {n}
        BY <4>1 DEF Alive
      <4> QED
        BY <1>1, <2>1, <2>2, <4>1, <4>2 DEF TreeWritten
    <3> QED
      BY <3>1, <3>2
  <2>5. ASSUME NEW m \in Alive' \ (stranded' \cup {Controller})
        PROVE  \/ \E q \in Slots : req'[q].pc \in Later /\ req'[q].node = m
               \/ Linked(link', row', m, {m, row'[m].parent})
    <3>1. CASE m = n
      <4>1. CASE req'[s].pc = "free"
        BY <1>1, <2>3, <2>5, <3>1, <4>1 DEF Linked
      <4>2. CASE req'[s].pc # "free"
        BY <1>2, <3>1, <4>2 DEF Later
      <4> QED
        BY <4>1, <4>2
    <3>2. CASE m # n
      <4>1. m \in Node \ {n} /\ m \in Alive \ (stranded \cup {Controller})
        BY <1>1, <2>5, <3>2 DEF Alive
      <4>2. CASE \E q \in Slots : req[q].pc \in Later /\ req[q].node = m
        BY <1>2, <3>2, <4>2
      <4>3. CASE Linked(link, row, m, {m, row[m].parent})
        BY <1>1, <1>3, <4>1, <4>3 DEF Linked
      <4> QED
        BY <2>1, <4>1, <4>2, <4>3 DEF Finished
    <3> QED
      BY <3>1, <3>2
  <2>6. \A m \in Alive' \ {Controller} : row'[m].parent \in Alive'
    BY <1>1, <2>1 DEF TreeWritten
  <2> QED
    BY <1>1, <2>4, <2>5, <2>6 DEF TreeWritten, Finished
<1> QED
  BY <1>4, <1>5 DEF ConnInv

\* A deletion takes no link of the nodes that stay: it has no children.
LEMMA RemovalKeeps ==
  ASSUME ConnInv, EnrollInv', NEW s \in Slots, DeleteNode(s)
  PROVE  ConnInv'
<1> DEFINE d == req[s].node
<1>0. EnrollInv /\ OneRequest
  BY DEF ConnInv
<1>1. /\ d \in Node \ {Controller} /\ req[s].pc = "delete"
      /\ left' = left \cup {d} /\ clash' = clash
      /\ req'[s].pc = "free" /\ \A q \in Slots \ {s} : req'[q] = req[q]
      /\ \A n \in Node :
           /\ row'[n] = NULL <=> (n = d \/ row[n] = NULL)
           /\ row'[n] # NULL =>
                /\ row'[n].ip = row[n].ip
                /\ row'[n].parent = (IF row[n].parent = d THEN NULL ELSE row[n].parent)
  BY <1>0, DeleteEffect
<1>2. req'[s].node = NULL /\ stranded' = stranded
  BY <1>0, DoneType, IdleType DEF DeleteNode, EnrollInv, historyVars
<1>3. Alive' = Alive \ {d} /\ Alive \subseteq Node
  BY <1>1 DEF Alive
<1>4. \A q \in Slots : req'[q].pc \in Later => q # s /\ req'[q] = req[q]
  BY <1>1 DEF Later
<1>5. \A q \in Slots : req[q].pc \in Later => req'[q] = req[q]
  BY <1>1 DEF Later
<1>6. OneRequest'
  <2>1. \A q \in Slots : req'[q].pc \in {"free", "parent", "ip", "insert"} => req'[q].node = NULL
    BY <1>0, <1>1, <1>2 DEF OneRequest
  <2> QED
    BY <1>0, <1>1, <1>3, <1>4, <2>1 DEF OneRequest
<1>7. ASSUME "deletion" \notin clash' PROVE TreeWritten' /\ Finished'
  <2>1. TreeWritten /\ Finished
    BY <1>1, <1>7 DEF ConnInv
  <2>2. \A m \in Alive : row[m].parent # d
    <3>1. Children(d) = {}
      BY <1>0, <1>1, <1>7 DEF EnrollInv, StillChildless
    <3> QED
      BY <3>1 DEF Children
  <2>3. \A m \in Alive' : row'[m].parent = row[m].parent
    BY <1>1, <1>3, <2>2 DEF Alive
  <2>4. \A m \in Alive' : \A e : Linked(link, row, m, e) => Linked(link', row', m, e)
    <3>1. ASSUME NEW m \in Alive', link[m] # NULL, link[m].parent = row[m].parent
          PROVE  link'[m] = link[m]
      BY <1>3, <2>2, <3>1 DEF DeleteNode
    <3> QED
      BY <2>3, <3>1 DEF Linked
  <2>5. \A m \in Alive' \ {Controller} : row'[m].parent \in Alive'
    BY <1>3, <2>1, <2>2, <2>3 DEF TreeWritten
  <2>6. ASSUME NEW q \in Slots, req'[q].pc \in Later, req'[q].node \in Alive'
        PROVE  /\ row'[req'[q].node].parent = req'[q].parent
               /\ req'[q].pc = "epParent" => Linked(link', row', req'[q].node, {})
               /\ req'[q].pc = "epChild" => Linked(link', row', req'[q].node, {req'[q].parent})
    <3>1. req'[q] = req[q] /\ req[q].node \in Alive /\ req[q].node \in Alive'
      BY <1>3, <1>4, <2>6
    <3> QED
      BY <2>1, <2>3, <2>4, <2>6, <3>1 DEF TreeWritten
  <2>7. ASSUME NEW m \in Alive' \ (stranded' \cup {Controller})
        PROVE  \/ \E q \in Slots : req'[q].pc \in Later /\ req'[q].node = m
               \/ Linked(link', row', m, {m, row'[m].parent})
    <3>1. m \in Alive \ (stranded \cup {Controller}) /\ m \in Alive'
      BY <1>2, <1>3, <2>7
    <3>2. CASE \E q \in Slots : req[q].pc \in Later /\ req[q].node = m
      BY <1>5, <3>2
    <3>3. CASE Linked(link, row, m, {m, row[m].parent})
      <4>1. link[m] # NULL /\ link[m].parent = row[m].parent /\ link[m].ends = {m, row[m].parent}
        BY <3>3 DEF Linked
      <4>2. link'[m] = link[m]
        BY <1>3, <2>2, <3>1, <4>1 DEF DeleteNode
      <4> QED
        BY <2>3, <3>1, <4>1, <4>2 DEF Linked
    <3> QED
      BY <2>1, <3>1, <3>2, <3>3 DEF Finished
  <2> QED
    BY <2>5, <2>6, <2>7 DEF TreeWritten, Finished
<1> QED
  BY <1>6, <1>7 DEF ConnInv

\* The invariant of enrolled nodes' links.
LEMMA ConnInvariant == EnrollSpec => []ConnInv
<1>1. EnrollInit => ConnInv
  <2> SUFFICES ASSUME EnrollInit PROVE ConnInv
    OBVIOUS
  <2>1. EnrollInv
    BY EnrollInitially
  <2>2. \A s \in Slots : req[s].pc = "free" /\ req[s].node = NULL
    BY IdleType DEF EnrollInit
  <2>3. Alive \subseteq {Controller}
    BY DEF EnrollInit, Alive
  <2> QED
    BY <2>1, <2>2, <2>3 DEF ConnInv, OneRequest, TreeWritten, Finished, Later
<1>2. ConnInv /\ [EnrollNext]_enrollVars => ConnInv'
  <2> SUFFICES ASSUME ConnInv, [EnrollNext]_enrollVars PROVE ConnInv'
    OBVIOUS
  <2>1. EnrollInv'
    BY EnrollStepKeeps DEF ConnInv
  <2> QED
    BY <2>1, StepWaits, RowKeeps, EndsKeep, RemovalKeeps DEF EnrollNext, Handle
<1> QED
  BY <1>1, <1>2, PTL DEF EnrollSpec

\* Whoever is enrolled has a parent and a complete link to it, for any
\* interleaving of enrollments, deletions and restarts: the link's three
\* statements are written for one node by one request, and no deletion takes the
\* parent from under it.
THEOREM ConnectedCorrect == EnrollSpec => []Connected
<1>1. ASSUME ConnInv PROVE Connected
  <2> SUFFICES ASSUME "deletion" \notin clash, NEW n \in Alive \ (stranded \cup {Controller})
               PROVE  \/ \E s \in Slots : req[s].node = n /\ req[s].pc # "delete"
                      \/ row[n].parent # NULL /\ link[n] # NULL /\ link[n].ends = {n, row[n].parent}
    BY DEF Connected
  <2>1. row[n].parent \in Node /\ NULL \notin Node
    BY <1>1, EnrollmentAssumption DEF ConnInv, TreeWritten, Alive
  <2>2. \/ \E s \in Slots : req[s].pc \in Later /\ req[s].node = n
        \/ Linked(link, row, n, {n, row[n].parent})
    BY <1>1 DEF ConnInv, Finished
  <2> QED
    BY <2>1, <2>2 DEF Linked, Later
<1> QED
  BY <1>1, ConnInvariant, PTL

=============================================================================
