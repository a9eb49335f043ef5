------------------------- MODULE ConfigPublishProofs -------------------------
(***************************************************************************)
(* Proofs about ConfigPublish, and about ConfigApply on top of it, for     *)
(* every topology, any number of requests in progress, of agents and of    *)
(* restarts, and every value of the bounds.                                *)
(***************************************************************************)
EXTENDS ConfigApply, FiniteSetTheorems, TLAPS

AfterList    == {"links", "insert", "store"}
AfterCompile == {"insert", "store"}
Numbered     == {"nodes", "links", "insert"}

\* A request about a node names it; it is not the controller.
NodesNamed ==
  \A p \in Slots : req[p].pc \in {"enroll", "delete", "drop"} =>
    req[p].node \in Node \ {Controller}

\* A request that is alone is the only one in progress, and every request is
\* as long as nothing overlapped.
OneAtATime ==
  /\ \A p \in Slots : req[p].alone =>
       req[p].pc # "free" /\ \A q \in Slots : q # p => req[q].pc = "free"
  /\ overlap = "none" \/ ~raced => \A p \in Slots : req[p].pc # "free" => req[p].alone

\* What a request knows of the nodes: they exist or existed, and none is missing.
NodesListed ==
  /\ \A n \in Node : n \notin alive \cup left => desired[n] = NULL
  /\ \A p \in Slots :
       /\ req[p].nodes \subseteq alive \cup left
       /\ req[p].pc \in AfterList /\ overlap # "enrolls" => alive \subseteq req[p].nodes
       /\ req[p].pc \in AfterList /\ req[p].alone => req[p].nodes = alive

\* A compilation has one state for each listed node, under one number, and the
\* two ends of a link agree on it; it is the current topology if nothing
\* changed since.
WholeStates ==
  \A p \in Slots : req[p].pc \in AfterCompile =>
    /\ \A n \in Node : IF n \in req[p].nodes
                       THEN req[p].states[n] \in State /\ req[p].states[n].gen = req[p].gen
                       ELSE req[p].states[n] = NULL
    /\ \A l \in Link : \A n, m \in req[p].nodes \cap Ends[l] :
         l \in req[p].states[n].links <=> l \in req[p].states[m].links
    /\ req[p].alone /\ ~unpublished =>
         \A n \in req[p].nodes : req[p].states[n].links = LinksOf(n)

\* The numbers of an undisturbed publication and of what is served before it.
Generations ==
  /\ \A n \in Node : desired[n] # NULL => desired[n].gen = 1 \/ desired[n].gen <= lastGen
  /\ \A p \in Slots :
       /\ req[p].pc = "store" => req[p].gen <= lastGen
       /\ req[p].alone /\ req[p].pc \in Numbered => req[p].gen = lastGen + 1
       /\ req[p].alone /\ req[p].pc = "store" =>
            /\ req[p].gen = lastGen
            /\ \A n \in Node : desired[n] # NULL /\ lastGen > 1 => desired[n].gen < lastGen

PublishInv ==
  /\ PublishTypeOK /\ NodesNamed /\ OneAtATime /\ NodesListed /\ WholeStates /\ Generations
  /\ ServedCurrent /\ DeletedNotServed /\ EndsAgree

-----------------------------------------------------------------------------
(* Types.                                                                  *)

\* A request that is not in progress.
LEMMA IdleType == Idle \in Request /\ Idle.pc = "free" /\ Idle.alone = FALSE
  BY DEF Idle, Request, RequestPC

\* The links of a node.
LEMMA LinksType == ASSUME NEW n PROVE LinksOf(n) \subseteq Link
  BY DEF LinksOf

\* What the compiler makes for a set of nodes.
LEMMA CompiledType ==
  ASSUME NEW nodes, NEW gen \in Nat
  PROVE  /\ Compiled(nodes, gen) \in [Node -> State \cup {NULL}]
         /\ \A n \in Node : IF n \in nodes
              THEN /\ Compiled(nodes, gen)[n] \in State
                   /\ Compiled(nodes, gen)[n].gen = gen
                   /\ Compiled(nodes, gen)[n].links = LinksOf(n)
              ELSE Compiled(nodes, gen)[n] = NULL
<1>1. \A n \in Node : [gen |-> gen, links |-> LinksOf(n)] \in State
  BY LinksType DEF State
<1> QED
  BY <1>1 DEF Compiled

\* The initial state has the declared types.
LEMMA InitType == PublishInit => PublishTypeOK
<1> SUFFICES ASSUME PublishInit PROVE PublishTypeOK
  OBVIOUS
<1> USE DEF PublishInit
<1>1. lastGen \in Nat
  BY FS_CardinalityType, FS_Subset, TopologyAssumption
<1>2. req \in [Slots -> Request]
  BY IdleType
<1>3. desired \in [Node -> State \cup {NULL}]
  BY CompiledType
<1>4. linkRow \in [Link -> LinkStatus] /\ used \in [Counters -> Nat]
  BY DEF LinkStatus
<1> QED
  BY <1>1, <1>2, <1>3, <1>4, TopologyAssumption DEF PublishTypeOK

\* Setting fields of one request.
LEMMA StepType ==
  ASSUME PublishTypeOK, NEW p \in Slots, NEW pc \in RequestPC, Step(p, pc)
  PROVE  /\ req' \in [Slots -> Request]
         /\ req'[p].pc = pc
         /\ req'[p].node = req[p].node /\ req'[p].gen = req[p].gen
         /\ req'[p].nodes = req[p].nodes /\ req'[p].states = req[p].states
         /\ req'[p].enrolls = req[p].enrolls /\ req'[p].alone = req[p].alone
         /\ \A q \in Slots : q # p => req'[q] = req[q]
  BY DEF PublishTypeOK, Step, Request

\* A request that ends.
LEMMA DoneType ==
  ASSUME PublishTypeOK, NEW p \in Slots, Done(p)
  PROVE  /\ req' \in [Slots -> Request]
         /\ req'[p].pc = "free" /\ req'[p].alone = FALSE /\ req'[p].nodes = {}
         /\ \A q \in Slots : q # p => req'[q] = req[q]
  BY IdleType DEF PublishTypeOK, Done, Idle

\* A request that enters.
LEMMA BeginType ==
  ASSUME PublishTypeOK, NEW p \in Slots, NEW pc \in RequestPC, NEW n \in Node \cup {NULL},
         NEW e \in BOOLEAN, Begin(p, pc, n, e)
  PROVE  /\ req[p].pc = "free"
         /\ req' \in [Slots -> Request]
         /\ req'[p].pc = pc /\ req'[p].node = n /\ req'[p].nodes = {}
         /\ req'[p].alone = (Busy = {})
         /\ \A q \in Slots : q # p =>
              /\ req'[q].pc = req[q].pc /\ req'[q].node = req[q].node
              /\ req'[q].gen = req[q].gen /\ req'[q].nodes = req[q].nodes
              /\ req'[q].states = req[q].states /\ req'[q].alone = FALSE
         /\ overlap' \in {"none", "edits", "enrolls"} /\ raced' \in BOOLEAN
<1> DEFINE b == Busy = {}
<1>0. b \in BOOLEAN
  OBVIOUS
<1> USE DEF Begin
<1>1. req' = [q \in Slots |->
               IF q = p
               THEN [Idle EXCEPT !.pc = pc, !.node = n, !.enrolls = e, !.alone = b]
               ELSE [req[q] EXCEPT !.alone = FALSE]]
  OBVIOUS
<1>2. overlap' \in {"none", "edits", "enrolls"} /\ raced' \in BOOLEAN
  BY DEF PublishTypeOK
<1>3. req[p].pc = "free"
  OBVIOUS
<1> HIDE DEF b, Begin
<1>4. [Idle EXCEPT !.pc = pc, !.node = n, !.enrolls = e, !.alone = b] \in Request
  BY <1>0, IdleType DEF Request
<1>5. \A q \in Slots : [req[q] EXCEPT !.alone = FALSE] \in Request
  BY DEF PublishTypeOK, Request
<1>6. req' \in [Slots -> Request]
  BY <1>1, <1>4, <1>5
<1>7. /\ req'[p].pc = pc /\ req'[p].node = n /\ req'[p].nodes = {}
      /\ req'[p].alone = b
  BY <1>0, <1>1 DEF Idle
<1>8. \A q \in Slots : q # p =>
              /\ req'[q].pc = req[q].pc /\ req'[q].node = req[q].node
              /\ req'[q].gen = req[q].gen /\ req'[q].nodes = req[q].nodes
              /\ req'[q].states = req[q].states /\ req'[q].alone = FALSE
  BY <1>1 DEF PublishTypeOK, Request
<1> QED
  BY <1>2, <1>3, <1>6, <1>7, <1>8 DEF b

-----------------------------------------------------------------------------
(* Steps.                                                                  *)

\* Somebody is publishing while a request is in progress.
LEMMA BusyFacts ==
  ASSUME NEW p \in Slots, req[p].pc # "free"
  PROVE  p \in Busy /\ Busy # {} /\ ~Quiet
  BY DEF Busy, Quiet

\* What a step of a request in progress leaves to show, when the request stays
\* in progress.
LEMMA StepOneAtATime ==
  ASSUME OneAtATime, NEW p \in Slots, req[p].pc # "free",
         \A q \in Slots : q # p => req'[q] = req[q],
         req'[p].pc # "free", req'[p].alone = req[p].alone,
         UNCHANGED <<overlap, raced>>
  PROVE  OneAtATime'
  BY DEF OneAtATime

\* The request ends; it may have been a publication that was alone.
LEMMA DoneOneAtATime ==
  ASSUME OneAtATime, NEW p \in Slots, req[p].pc # "free",
         \A q \in Slots : q # p => req'[q] = req[q],
         req'[p].pc = "free", req'[p].alone = FALSE,
         overlap' = overlap \/ req[p].alone, raced' = raced
  PROVE  OneAtATime'
<1>1. CASE req[p].alone
  BY <1>1 DEF OneAtATime
<1>2. CASE ~req[p].alone
  BY <1>2 DEF OneAtATime
<1> QED
  BY <1>1, <1>2

\* Any request that enters, possibly with the row of a new node, possibly with a
\* changed link.
LEMMA ArrivalInv ==
  ASSUME PublishInv, NEW p \in Slots, NEW pc \in {"enroll", "delete", "gen"},
         NEW n \in Node \cup {NULL}, NEW e \in BOOLEAN, Begin(p, pc, n, e),
         pc # "gen" => n \in Node \ {Controller},
         UNCHANGED <<desired, lastGen, unpublished, left>>,
         \/ alive' = alive
         \/ e /\ n \in Node /\ n \notin alive \cup left /\ alive' = alive \cup {n},
         linkRow' \in [Link -> LinkStatus], used' \in [Counters -> Nat]
  PROVE  PublishInv'
<1> USE DEF PublishInv
<1>1. pc \in RequestPC
  BY DEF RequestPC
<1>2. /\ req[p].pc = "free"
      /\ req' \in [Slots -> Request]
      /\ req'[p].pc = pc /\ req'[p].node = n /\ req'[p].nodes = {}
      /\ req'[p].alone = (Busy = {})
      /\ \A q \in Slots : q # p =>
           /\ req'[q].pc = req[q].pc /\ req'[q].node = req[q].node
           /\ req'[q].gen = req[q].gen /\ req'[q].nodes = req[q].nodes
           /\ req'[q].states = req[q].states /\ req'[q].alone = FALSE
      /\ overlap' \in {"none", "edits", "enrolls"} /\ raced' \in BOOLEAN
  BY <1>1, BeginType
<1>3. /\ raced' = (raced \/ Busy # {})
      /\ Busy = {} => overlap' = overlap
      /\ Busy # {} => overlap' # "none"
      /\ Busy # {} /\ (e \/ overlap = "enrolls") => overlap' = "enrolls"
  BY DEF Begin
<1>4. \A q \in Slots : req[q].pc # "free" => Busy # {}
  BY BusyFacts
<1>5. Busy = {} \/ \E q \in Slots : q # p /\ req[q].pc # "free"
  BY <1>2 DEF Busy
<1> HIDE DEF PublishInv
<1>6. PublishTypeOK'
  BY <1>2 DEF PublishInv, PublishTypeOK
<1>7. NodesNamed'
  BY <1>2 DEF PublishInv, NodesNamed
<1>8. OneAtATime'
  <2>0. pc # "free"
    OBVIOUS
  <2>1. CASE Busy = {}
    <3>1. req'[p].alone = TRUE /\ \A q \in Slots : q # p => req'[q].pc = "free" /\ ~req'[q].alone
      BY <1>2, <1>4, <2>1
    <3> QED
      BY <1>2, <2>0, <3>1 DEF OneAtATime
  <2>2. CASE Busy # {}
    BY <1>2, <1>3, <2>2 DEF PublishInv, OneAtATime
  <2> QED
    BY <2>1, <2>2
<1>9. NodesListed'
  <2>1. \A m \in Node : m \notin alive' \cup left' => desired'[m] = NULL
    BY DEF PublishInv, NodesListed
  <2>2. \A q \in Slots : req'[q].nodes \subseteq alive' \cup left'
    BY <1>2 DEF PublishInv, NodesListed
  <2>3. \A q \in Slots : req'[q].pc \in AfterList => ~req'[q].alone /\ q # p /\ Busy # {}
    BY <1>2, <1>4 DEF AfterList
  <2>4. \A q \in Slots : req'[q].pc \in AfterList /\ overlap' # "enrolls" => alive' \subseteq req'[q].nodes
    BY <1>2, <1>3, <2>3 DEF PublishInv, NodesListed
  <2> QED
    BY <2>1, <2>2, <2>3, <2>4 DEF NodesListed
<1>10. WholeStates'
  <2>1. \A q \in Slots : req'[q].pc \in AfterCompile => ~req'[q].alone /\ q # p
    BY <1>2 DEF AfterCompile
  <2> QED
    BY <1>2, <2>1 DEF PublishInv, WholeStates
<1>11. Generations'
  <2>1. \A q \in Slots : req'[q].pc \in Numbered \cup {"store"} => ~req'[q].alone /\ q # p
    BY <1>2 DEF Numbered
  <2> QED
    BY <1>2, <2>1 DEF PublishInv, Generations
<1>12. ServedCurrent'
  BY <1>2 DEF ServedCurrent, Quiet, Busy
<1>13. DeletedNotServed'
  <2>1. \A q \in Slots : req[q].pc = "drop" => req'[q].pc = "drop" /\ req'[q].node = req[q].node
    BY <1>2
  <2> QED
    BY <1>3, <2>1 DEF PublishInv, DeletedNotServed
<1>14. EndsAgree'
  <2>1. overlap' # "enrolls" => overlap # "enrolls"
    BY <1>3
  <2>2. \A m \in alive' : desired[m] # NULL => m \in alive
    BY DEF PublishInv, NodesListed
  <2> QED
    BY <2>1, <2>2 DEF PublishInv, EndsAgree
<1> QED
  BY <1>6, <1>7, <1>8, <1>9, <1>10, <1>11, <1>12, <1>13, <1>14 DEF PublishInv

\* The new node's link.
LEMMA EnrollLinkInv ==
  ASSUME PublishInv, NEW p \in Slots, EnrollLink(p)
  PROVE  PublishInv'
<1> USE DEF PublishInv
<1>1. /\ req[p].pc = "enroll" /\ Step(p, "gen")
      /\ UNCHANGED <<alive, left, lastGen, desired, used, unpublished, overlap, raced>>
  BY DEF EnrollLink
<1>2. /\ req' \in [Slots -> Request]
      /\ req'[p].pc = "gen" /\ req'[p].nodes = req[p].nodes /\ req'[p].alone = req[p].alone
      /\ \A q \in Slots : q # p => req'[q] = req[q]
  BY <1>1, StepType DEF RequestPC
<1>3. linkRow' \in [Link -> LinkStatus]
  BY DEF EnrollLink, PublishTypeOK, LinkStatus
<1> HIDE DEF PublishInv
<1>4. PublishTypeOK'
  BY <1>1, <1>2, <1>3 DEF PublishInv, PublishTypeOK
<1>5. NodesNamed'
  BY <1>2 DEF PublishInv, NodesNamed
<1>6. OneAtATime'
  BY <1>1, <1>2, StepOneAtATime DEF PublishInv
<1>7. NodesListed'
  BY <1>1, <1>2 DEF PublishInv, NodesListed, AfterList
<1>8. WholeStates'
  <2>1. \A q \in Slots : req'[q].pc \in AfterCompile => req'[q] = req[q] /\ ~req[q].alone
    BY <1>1, <1>2 DEF PublishInv, OneAtATime, AfterCompile
  <2> QED
    BY <2>1 DEF PublishInv, WholeStates
<1>9. Generations'
  <2>1. \A q \in Slots : req'[q].pc \in Numbered \cup {"store"} => req'[q] = req[q]
    BY <1>2 DEF Numbered
  <2> QED
    BY <1>1, <2>1 DEF PublishInv, Generations
<1>10. ServedCurrent'
  BY <1>2 DEF ServedCurrent, Quiet, Busy
<1>11. DeletedNotServed'
  BY <1>1, <1>2 DEF PublishInv, DeletedNotServed
<1>12. EndsAgree'
  BY <1>1 DEF PublishInv, EndsAgree
<1> QED
  BY <1>4, <1>5, <1>6, <1>7, <1>8, <1>9, <1>10, <1>11, <1>12 DEF PublishInv

\* The rows of the deleted node.
LEMMA DeleteNodeInv ==
  ASSUME PublishInv, NEW p \in Slots, DeleteNode(p)
  PROVE  PublishInv'
<1> USE DEF PublishInv
<1>1. /\ req[p].pc = "delete" /\ Step(p, "drop")
      /\ alive' = alive \ {req[p].node} /\ left' = left \cup {req[p].node}
      /\ UNCHANGED <<lastGen, desired, used, unpublished, overlap, raced>>
  BY DEF DeleteNode
<1>2. /\ req' \in [Slots -> Request]
      /\ req'[p].pc = "drop" /\ req'[p].node = req[p].node
      /\ req'[p].nodes = req[p].nodes /\ req'[p].alone = req[p].alone
      /\ \A q \in Slots : q # p => req'[q] = req[q]
  BY <1>1, StepType DEF RequestPC
<1>3. req[p].node \in Node \ {Controller}
  BY <1>1 DEF NodesNamed
<1>4. linkRow' \in [Link -> LinkStatus]
  BY DEF DeleteNode, PublishTypeOK, LinkStatus
<1> HIDE DEF PublishInv
<1>5. PublishTypeOK'
  BY <1>1, <1>2, <1>3, <1>4 DEF PublishInv, PublishTypeOK
<1>6. NodesNamed'
  BY <1>2, <1>3 DEF PublishInv, NodesNamed
<1>7. OneAtATime'
  BY <1>1, <1>2, StepOneAtATime DEF PublishInv
<1>8. NodesListed'
  <2>1. alive \cup left \subseteq alive' \cup left' /\ alive' \subseteq alive
    BY <1>1
  <2>2. \A q \in Slots : req'[q].pc \in AfterList => req'[q] = req[q] /\ ~req[q].alone
    BY <1>1, <1>2 DEF PublishInv, OneAtATime, AfterList
  <2>3. \A q \in Slots : req'[q].nodes = req[q].nodes
    BY <1>2
  <2> QED
    BY <1>1, <2>1, <2>2, <2>3 DEF PublishInv, NodesListed
<1>9. WholeStates'
  <2>1. \A q \in Slots : req'[q].pc \in AfterCompile => req'[q] = req[q] /\ ~req[q].alone
    BY <1>1, <1>2 DEF PublishInv, OneAtATime, AfterCompile
  <2> QED
    BY <2>1 DEF PublishInv, WholeStates
<1>10. Generations'
  <2>1. \A q \in Slots : req'[q].pc \in Numbered \cup {"store"} => req'[q] = req[q]
    BY <1>2 DEF Numbered
  <2> QED
    BY <1>1, <2>1 DEF PublishInv, Generations
<1>11. ServedCurrent'
  BY <1>2 DEF ServedCurrent, Quiet, Busy
<1>12. DeletedNotServed'
  <2>1. \A q \in Slots : req[q].pc = "drop" => req'[q] = req[q]
    BY <1>1, <1>2
  <2>2. \A n \in Node \ alive' : n = req[p].node \/ n \in Node \ alive
    BY <1>1
  <2> QED
    BY <1>1, <1>2, <2>1, <2>2 DEF PublishInv, DeletedNotServed
<1>13. EndsAgree'
  BY <1>1 DEF PublishInv, EndsAgree
<1> QED
  BY <1>5, <1>6, <1>7, <1>8, <1>9, <1>10, <1>11, <1>12, <1>13 DEF PublishInv

\* What the deleted node was served.
LEMMA DropDesiredInv ==
  ASSUME PublishInv, NEW p \in Slots, DropDesired(p)
  PROVE  PublishInv'
<1> USE DEF PublishInv
<1>1. /\ req[p].pc = "drop" /\ Step(p, "gen")
      /\ desired' = [desired EXCEPT ![req[p].node] = NULL]
      /\ UNCHANGED <<alive, left, linkRow, lastGen, used, unpublished, overlap, raced>>
  BY DEF DropDesired, topologyVars
<1>2. /\ req' \in [Slots -> Request]
      /\ req'[p].pc = "gen" /\ req'[p].nodes = req[p].nodes /\ req'[p].alone = req[p].alone
      /\ \A q \in Slots : q # p => req'[q] = req[q]
  BY <1>1, StepType DEF RequestPC
<1>3. req[p].node \in Node
  BY <1>1 DEF NodesNamed
<1>4. desired' \in [Node -> State \cup {NULL}]
  BY <1>1 DEF PublishTypeOK
<1>5. /\ desired'[req[p].node] = NULL
      /\ \A n \in Node : n # req[p].node => desired'[n] = desired[n]
  BY <1>1, <1>3 DEF PublishTypeOK
<1> HIDE DEF PublishInv
<1>6. PublishTypeOK'
  BY <1>1, <1>2, <1>4 DEF PublishInv, PublishTypeOK
<1>7. NodesNamed'
  BY <1>2 DEF PublishInv, NodesNamed
<1>8. OneAtATime'
  BY <1>1, <1>2, StepOneAtATime DEF PublishInv
<1>9. NodesListed'
  BY <1>1, <1>2, <1>5 DEF PublishInv, NodesListed, AfterList
<1>10. WholeStates'
  <2>1. \A q \in Slots : req'[q].pc \in AfterCompile => req'[q] = req[q] /\ ~req[q].alone
    BY <1>1, <1>2 DEF PublishInv, OneAtATime, AfterCompile
  <2> QED
    BY <2>1 DEF PublishInv, WholeStates
<1>11. Generations'
  <2>1. \A q \in Slots : req'[q].pc \in Numbered \cup {"store"} => req'[q] = req[q]
    BY <1>2 DEF Numbered
  <2> QED
    BY <1>1, <1>5, <2>1 DEF PublishInv, Generations
<1>12. ServedCurrent'
  BY <1>2 DEF ServedCurrent, Quiet, Busy
<1>13. DeletedNotServed'
  <2>1. \A q \in Slots : req[q].pc = "drop" /\ q # p => req'[q] = req[q]
    BY <1>2
  <2> QED
    BY <1>1, <1>5, <2>1 DEF PublishInv, DeletedNotServed
<1>14. EndsAgree'
  <2>1. \A l \in Link : alive \cap Ends[l] \subseteq Node
    BY DEF PublishInv, PublishTypeOK
  <2> QED
    BY <1>1, <1>5, <2>1 DEF PublishInv, EndsAgree
<1> QED
  BY <1>6, <1>7, <1>8, <1>9, <1>10, <1>11, <1>12, <1>13, <1>14 DEF PublishInv

\* The generation number of a publication.
LEMMA NextGenerationInv ==
  ASSUME PublishInv, NEW p \in Slots, NextGeneration(p)
  PROVE  PublishInv'
<1> USE DEF PublishInv
<1>1. /\ req[p].pc = "gen"
      /\ req' = [req EXCEPT ![p].gen = lastGen + 1, ![p].pc = "nodes"]
      /\ UNCHANGED <<alive, left, linkRow, lastGen, desired, used, unpublished, overlap, raced>>
  BY DEF NextGeneration, topologyVars
<1>2. /\ req' \in [Slots -> Request]
      /\ req'[p].pc = "nodes" /\ req'[p].gen = lastGen + 1
      /\ req'[p].nodes = req[p].nodes /\ req'[p].alone = req[p].alone
      /\ \A q \in Slots : q # p => req'[q] = req[q]
  BY <1>1 DEF PublishTypeOK, Request, RequestPC
<1> HIDE DEF PublishInv
<1>3. PublishTypeOK'
  BY <1>1, <1>2 DEF PublishInv, PublishTypeOK
<1>4. NodesNamed'
  BY <1>2 DEF PublishInv, NodesNamed
<1>5. OneAtATime'
  BY <1>1, <1>2, StepOneAtATime DEF PublishInv
<1>6. NodesListed'
  BY <1>1, <1>2 DEF PublishInv, NodesListed, AfterList
<1>7. WholeStates'
  <2>1. \A q \in Slots : req'[q].pc \in AfterCompile => req'[q] = req[q] /\ ~req[q].alone
    BY <1>1, <1>2 DEF PublishInv, OneAtATime, AfterCompile
  <2> QED
    BY <2>1 DEF PublishInv, WholeStates
<1>8. Generations'
  <2>1. \A q \in Slots : q # p => req'[q] = req[q]
    BY <1>2
  <2> QED
    BY <1>1, <1>2, <2>1 DEF PublishInv, Generations, Numbered
<1>9. ServedCurrent'
  BY <1>2 DEF ServedCurrent, Quiet, Busy
<1>10. DeletedNotServed'
  BY <1>1, <1>2 DEF PublishInv, DeletedNotServed
<1>11. EndsAgree'
  BY <1>1 DEF PublishInv, EndsAgree
<1> QED
  BY <1>3, <1>4, <1>5, <1>6, <1>7, <1>8, <1>9, <1>10, <1>11 DEF PublishInv

\* The list of nodes of a publication.
LEMMA ListNodesInv ==
  ASSUME PublishInv, NEW p \in Slots, ListNodes(p)
  PROVE  PublishInv'
<1> USE DEF PublishInv
<1>1. /\ req[p].pc = "nodes"
      /\ req' = [req EXCEPT ![p].nodes = alive, ![p].pc = "links"]
      /\ UNCHANGED <<alive, left, linkRow, lastGen, desired, used, unpublished, overlap, raced>>
  BY DEF ListNodes, topologyVars
<1>2. /\ req' \in [Slots -> Request]
      /\ req'[p].pc = "links" /\ req'[p].gen = req[p].gen
      /\ req'[p].nodes = alive /\ req'[p].alone = req[p].alone
      /\ \A q \in Slots : q # p => req'[q] = req[q]
  BY <1>1 DEF PublishTypeOK, Request, RequestPC
<1> HIDE DEF PublishInv
<1>3. PublishTypeOK'
  BY <1>1, <1>2 DEF PublishInv, PublishTypeOK
<1>4. NodesNamed'
  BY <1>2 DEF PublishInv, NodesNamed
<1>5. OneAtATime'
  BY <1>1, <1>2, StepOneAtATime DEF PublishInv
<1>6. NodesListed'
  BY <1>1, <1>2 DEF PublishInv, NodesListed, AfterList
<1>7. WholeStates'
  <2>1. \A q \in Slots : req'[q].pc \in AfterCompile => req'[q] = req[q] /\ ~req[q].alone
    BY <1>1, <1>2 DEF PublishInv, OneAtATime, AfterCompile
  <2> QED
    BY <2>1 DEF PublishInv, WholeStates
<1>8. Generations'
  <2>1. \A q \in Slots : q # p => req'[q] = req[q]
    BY <1>2
  <2> QED
    BY <1>1, <1>2, <2>1 DEF PublishInv, Generations, Numbered
<1>9. ServedCurrent'
  BY <1>2 DEF ServedCurrent, Quiet, Busy
<1>10. DeletedNotServed'
  BY <1>1, <1>2 DEF PublishInv, DeletedNotServed
<1>11. EndsAgree'
  BY <1>1 DEF PublishInv, EndsAgree
<1> QED
  BY <1>3, <1>4, <1>5, <1>6, <1>7, <1>8, <1>9, <1>10, <1>11 DEF PublishInv

\* The compilation itself.
LEMMA CompileInv ==
  ASSUME PublishInv, NEW p \in Slots, Compile(p)
  PROVE  PublishInv'
<1> USE DEF PublishInv
<1> DEFINE c == Compiled(req[p].nodes, req[p].gen)
<1>1. /\ req[p].pc = "links"
      /\ req' = [req EXCEPT ![p].states = c, ![p].pc = "insert"]
      /\ unpublished' = FALSE
      /\ UNCHANGED <<alive, left, linkRow, lastGen, desired, used, overlap, raced>>
  BY DEF Compile, topologyVars
<1>2. req[p].gen \in Nat /\ req[p].nodes \subseteq Node
  BY DEF PublishTypeOK, Request
<1>3. /\ c \in [Node -> State \cup {NULL}]
      /\ \A n \in Node : IF n \in req[p].nodes
           THEN c[n] \in State /\ c[n].gen = req[p].gen /\ c[n].links = LinksOf(n)
           ELSE c[n] = NULL
  BY <1>2, CompiledType
<1> HIDE DEF c
<1>4. /\ req' \in [Slots -> Request]
      /\ req'[p].pc = "insert" /\ req'[p].gen = req[p].gen /\ req'[p].states = c
      /\ req'[p].nodes = req[p].nodes /\ req'[p].alone = req[p].alone
      /\ \A q \in Slots : q # p => req'[q] = req[q]
  BY <1>1, <1>3 DEF PublishTypeOK, Request, RequestPC
<1>5. \A n : LinksOf(n)' = LinksOf(n)
  BY <1>1 DEF LinksOf
<1> HIDE DEF PublishInv
<1>6. PublishTypeOK'
  BY <1>1, <1>4 DEF PublishInv, PublishTypeOK
<1>7. NodesNamed'
  BY <1>4 DEF PublishInv, NodesNamed
<1>8. OneAtATime'
  BY <1>1, <1>4, StepOneAtATime DEF PublishInv
<1>9. NodesListed'
  BY <1>1, <1>4 DEF PublishInv, NodesListed, AfterList
<1>10. WholeStates'
  <2>1. \A q \in Slots : q # p /\ req'[q].pc \in AfterCompile => req'[q] = req[q] /\ ~req[q].alone
    BY <1>1, <1>4 DEF PublishInv, OneAtATime, AfterCompile
  <2>2. \A l \in Link : \A n, m \in req[p].nodes \cap Ends[l] : l \in c[n].links <=> l \in c[m].links
    BY <1>2, <1>3 DEF LinksOf
  <2>3. \A n \in req[p].nodes : c[n].links = LinksOf(n)
    BY <1>2, <1>3
  <2>4. \A n \in Node : IF n \in req[p].nodes THEN c[n] \in State /\ c[n].gen = req[p].gen
                                                ELSE c[n] = NULL
    BY <1>3
  <2>5. ASSUME NEW q \in Slots, req'[q].pc \in AfterCompile
        PROVE  /\ \A n \in Node : IF n \in req'[q].nodes
                       THEN req'[q].states[n] \in State /\ req'[q].states[n].gen = req'[q].gen
                       ELSE req'[q].states[n] = NULL
               /\ \A l \in Link : \A n, m \in req'[q].nodes \cap Ends[l] :
                    l \in req'[q].states[n].links <=> l \in req'[q].states[m].links
               /\ req'[q].alone /\ ~unpublished' =>
                    \A n \in req'[q].nodes : req'[q].states[n].links = LinksOf(n)'
    <3>1. CASE q = p
      BY <1>4, <1>5, <2>2, <2>3, <2>4, <3>1
    <3>2. CASE q # p
      BY <2>1, <2>5, <3>2 DEF PublishInv, WholeStates, AfterCompile
    <3> QED
      BY <3>1, <3>2
  <2> QED
    BY <2>5 DEF WholeStates
<1>11. Generations'
  <2>1. \A q \in Slots : q # p => req'[q] = req[q]
    BY <1>4
  <2> QED
    BY <1>1, <1>4, <2>1 DEF PublishInv, Generations, Numbered
<1>12. ServedCurrent'
  BY <1>4 DEF ServedCurrent, Quiet, Busy
<1>13. DeletedNotServed'
  BY <1>1, <1>4 DEF PublishInv, DeletedNotServed
<1>14. EndsAgree'
  BY <1>1 DEF PublishInv, EndsAgree
<1> QED
  BY <1>6, <1>7, <1>8, <1>9, <1>10, <1>11, <1>12, <1>13, <1>14 DEF PublishInv

\* The row of the revision: the number of an undisturbed publication becomes the
\* highest one, above everything that is served.
LEMMA CreateConfigRevisionInv ==
  ASSUME PublishInv, NEW p \in Slots, CreateConfigRevision(p)
  PROVE  PublishInv'
<1> USE DEF PublishInv
<1>1. /\ req[p].pc = "insert" /\ Step(p, "store")
      /\ lastGen' = IF req[p].gen > lastGen THEN req[p].gen ELSE lastGen
      /\ UNCHANGED <<alive, left, linkRow, desired, used, unpublished, overlap, raced>>
  BY DEF CreateConfigRevision, topologyVars
<1>2. /\ req' \in [Slots -> Request]
      /\ req'[p].pc = "store" /\ req'[p].gen = req[p].gen /\ req'[p].states = req[p].states
      /\ req'[p].nodes = req[p].nodes /\ req'[p].alone = req[p].alone
      /\ \A q \in Slots : q # p => req'[q] = req[q]
  BY <1>1, StepType DEF RequestPC
<1>3. req[p].gen \in Nat /\ lastGen \in Nat
  BY DEF PublishTypeOK, Request
<1>4. lastGen' \in Nat /\ lastGen =< lastGen' /\ req[p].gen =< lastGen'
  BY <1>1, <1>3
<1>5. \A q \in Slots : q # p => ~req[q].alone
  BY <1>1 DEF OneAtATime
<1> HIDE DEF PublishInv
<1>6. PublishTypeOK'
  BY <1>1, <1>2, <1>4 DEF PublishInv, PublishTypeOK
<1>7. NodesNamed'
  BY <1>2 DEF PublishInv, NodesNamed
<1>8. OneAtATime'
  BY <1>1, <1>2, StepOneAtATime DEF PublishInv
<1>9. NodesListed'
  BY <1>1, <1>2 DEF PublishInv, NodesListed, AfterList
<1>10. WholeStates'
  <2>1. \A n : LinksOf(n)' = LinksOf(n)
    BY <1>1 DEF LinksOf
  <2>2. \A q \in Slots : /\ req'[q].pc \in AfterCompile => req[q].pc \in AfterCompile
                         /\ req'[q].gen = req[q].gen /\ req'[q].states = req[q].states
                         /\ req'[q].nodes = req[q].nodes /\ req'[q].alone = req[q].alone
    BY <1>1, <1>2 DEF AfterCompile
  <2>3. ASSUME NEW q \in Slots, req'[q].pc \in AfterCompile
        PROVE  /\ \A n \in Node : IF n \in req'[q].nodes
                       THEN req'[q].states[n] \in State /\ req'[q].states[n].gen = req'[q].gen
                       ELSE req'[q].states[n] = NULL
               /\ \A l \in Link : \A n, m \in req'[q].nodes \cap Ends[l] :
                    l \in req'[q].states[n].links <=> l \in req'[q].states[m].links
               /\ req'[q].alone /\ ~unpublished' =>
                    \A n \in req'[q].nodes : req'[q].states[n].links = LinksOf(n)'
    BY <1>1, <2>1, <2>2, <2>3 DEF PublishInv, WholeStates
  <2> QED
    BY <2>3 DEF WholeStates
<1>11. Generations'
  <2>1. \A n \in Node : desired[n] # NULL => desired[n].gen \in Nat
    BY DEF PublishInv, PublishTypeOK, State
  <2>2. \A n \in Node : desired'[n] # NULL => desired'[n].gen = 1 \/ desired'[n].gen =< lastGen'
    BY <1>1, <1>3, <1>4, <2>1 DEF PublishInv, Generations
  <2>3. \A q \in Slots : req'[q].pc = "store" => req'[q].gen =< lastGen'
    <3>1. \A q \in Slots : req[q].gen \in Nat
      BY DEF PublishInv, PublishTypeOK, Request
    <3> QED
      BY <1>2, <1>3, <1>4, <3>1 DEF PublishInv, Generations
  <2>4. \A q \in Slots : req'[q].alone => q = p
    BY <1>2, <1>5
  <2>5. req[p].alone => req[p].gen = lastGen + 1
    BY <1>1 DEF PublishInv, Generations, Numbered
  <2>6. req[p].alone => /\ req[p].gen = lastGen'
                        /\ \A n \in Node : desired[n] # NULL /\ lastGen' > 1 => desired[n].gen < lastGen'
    BY <1>1, <1>3, <2>1, <2>5 DEF PublishInv, Generations
  <2> QED
    BY <1>1, <1>2, <2>2, <2>3, <2>4, <2>6 DEF Generations, Numbered
<1>12. ServedCurrent'
  BY <1>2 DEF ServedCurrent, Quiet, Busy
<1>13. DeletedNotServed'
  BY <1>1, <1>2 DEF PublishInv, DeletedNotServed
<1>14. EndsAgree'
  BY <1>1 DEF PublishInv, EndsAgree
<1> QED
  BY <1>6, <1>7, <1>8, <1>9, <1>10, <1>11, <1>12, <1>13, <1>14 DEF PublishInv

\* The whole compilation replaces what is served; every node that exists is in
\* it, unless an enrollment overlapped.
LEMMA StoreInv ==
  ASSUME PublishInv, NEW p \in Slots, Store(p)
  PROVE  PublishInv'
<1> USE DEF PublishInv
<1>1. /\ req[p].pc = "store" /\ Done(p)
      /\ desired' = [n \in Node |-> IF req[p].states[n] # NULL
                                    THEN req[p].states[n] ELSE desired[n]]
      /\ overlap' = IF req[p].alone THEN "none" ELSE overlap
      /\ UNCHANGED <<alive, left, linkRow, lastGen, used, unpublished, raced>>
  BY DEF Store, topologyVars
<1>2. /\ req' \in [Slots -> Request]
      /\ req'[p].pc = "free" /\ req'[p].alone = FALSE /\ req'[p].nodes = {}
      /\ \A q \in Slots : q # p => req'[q] = req[q]
  BY <1>1, DoneType
<1>3. \A q \in Slots : q # p => ~req[q].alone
  BY <1>1 DEF OneAtATime
<1>4. /\ req[p].states \in [Node -> State \cup {NULL}]
      /\ desired' \in [Node -> State \cup {NULL}]
      /\ alive \subseteq Node
  BY <1>1 DEF PublishTypeOK, Request
<1>5. /\ \A n \in req[p].nodes \cap Node :
           desired'[n] = req[p].states[n] /\ desired'[n] # NULL /\ desired'[n].gen = req[p].gen
      /\ \A n \in Node \ req[p].nodes : desired'[n] = desired[n]
  BY <1>1, <1>4, StateAssumption DEF WholeStates, AfterCompile
<1>6. /\ req[p].alone => req[p].nodes = alive
      /\ overlap' # "enrolls" => alive \subseteq req[p].nodes
  BY <1>1 DEF NodesListed, AfterList
<1>7. overlap = "none" \/ ~raced => req[p].alone
  BY <1>1 DEF OneAtATime
<1>8. req[p].alone => \A q \in Slots : q # p => req[q].pc = "free"
  BY DEF OneAtATime
<1> HIDE DEF PublishInv
<1>9. PublishTypeOK'
  BY <1>1, <1>2, <1>4 DEF PublishInv, PublishTypeOK
<1>10. NodesNamed'
  BY <1>2 DEF PublishInv, NodesNamed
<1>11. OneAtATime'
  BY <1>1, <1>2, DoneOneAtATime DEF PublishInv
<1>12. NodesListed'
  <2>1. \A n \in Node : n \notin alive \cup left => desired'[n] = NULL
    BY <1>5 DEF PublishInv, NodesListed
  <2>2. \A q \in Slots : req'[q].nodes \subseteq alive \cup left
    BY <1>2 DEF PublishInv, NodesListed
  <2>3. \A q \in Slots : req'[q].pc \in AfterList => q # p /\ req'[q] = req[q] /\ overlap' = overlap
    BY <1>1, <1>2, <1>8 DEF AfterList
  <2> QED
    BY <1>1, <1>3, <2>1, <2>2, <2>3 DEF PublishInv, NodesListed
<1>13. WholeStates'
  <2>1. \A q \in Slots : req'[q].pc \in AfterCompile => req'[q] = req[q] /\ ~req[q].alone
    BY <1>2, <1>3 DEF AfterCompile
  <2> QED
    BY <2>1 DEF PublishInv, WholeStates
<1>14. Generations'
  <2>1. \A n \in Node : desired'[n] # NULL => desired'[n].gen = 1 \/ desired'[n].gen =< lastGen
    <3>1. req[p].gen =< lastGen
      BY <1>1 DEF PublishInv, Generations
    <3> QED
      BY <1>5, <3>1 DEF PublishInv, Generations
  <2>2. \A q \in Slots : req'[q].pc \in Numbered \cup {"store"} => req'[q] = req[q] /\ ~req[q].alone
    BY <1>2, <1>3 DEF Numbered
  <2> QED
    BY <1>1, <2>1, <2>2 DEF PublishInv, Generations
<1>15. ServedCurrent'
  <2>1. SUFFICES ASSUME overlap' = "none", ~unpublished
        PROVE  /\ \A n \in alive : desired'[n] # NULL /\ desired'[n].links = LinksOf(n)'
               /\ \A n, m \in alive : desired'[n].gen = desired'[m].gen
    BY <1>1 DEF ServedCurrent
  <2>2. req[p].alone
    BY <1>1, <1>7, <2>1
  <2>3. \A n \in alive : LinksOf(n)' = LinksOf(n)
    BY <1>1 DEF LinksOf
  <2>4. \A n \in alive : req[p].states[n].links = LinksOf(n)
    BY <1>1, <1>6, <2>1, <2>2 DEF PublishInv, WholeStates, AfterCompile
  <2> QED
    BY <1>4, <1>5, <1>6, <2>2, <2>3, <2>4
<1>16. DeletedNotServed'
  <2>1. SUFFICES ASSUME ~raced, NEW n \in Node \ alive PROVE desired'[n] = NULL
    BY <1>1 DEF DeletedNotServed
  <2>2. desired[n] = NULL
    BY <1>1, <1>7, <1>8, <2>1 DEF PublishInv, DeletedNotServed
  <2> QED
    BY <1>5, <1>6, <1>7, <2>1, <2>2
<1>17. EndsAgree'
  <2>1. SUFFICES ASSUME overlap' # "enrolls", NEW l \in Link, NEW n \in alive \cap Ends[l],
                        NEW m \in alive \cap Ends[l]
        PROVE  l \in desired'[n].links <=> l \in desired'[m].links
    BY <1>1 DEF EndsAgree
  <2>2. n \in req[p].nodes \cap Node /\ m \in req[p].nodes \cap Node
    BY <1>4, <1>6, <2>1
  <2>3. l \in req[p].states[n].links <=> l \in req[p].states[m].links
    BY <1>1, <2>2 DEF PublishInv, WholeStates, AfterCompile
  <2> QED
    BY <1>5, <2>2, <2>3
<1> QED
  BY <1>9, <1>10, <1>11, <1>12, <1>13, <1>14, <1>15, <1>16, <1>17 DEF PublishInv

\* A request that fails: its change of the topology stays unpublished.
LEMMA FailureInv ==
  ASSUME PublishInv, NEW p \in Slots, req[p].pc \notin {"free", "drop"}, Done(p),
         unpublished' = TRUE, used' \in [Counters -> Nat],
         UNCHANGED <<alive, left, linkRow, lastGen, desired, overlap, raced>>
  PROVE  PublishInv'
<1> USE DEF PublishInv
<1>1. /\ req' \in [Slots -> Request]
      /\ req'[p].pc = "free" /\ req'[p].alone = FALSE /\ req'[p].nodes = {}
      /\ \A q \in Slots : q # p => req'[q] = req[q]
  BY DoneType
<1>2. \A q \in Slots : q # p => ~req[q].alone
  BY DEF OneAtATime
<1> HIDE DEF PublishInv
<1>3. PublishTypeOK'
  BY <1>1 DEF PublishInv, PublishTypeOK
<1>4. NodesNamed'
  BY <1>1 DEF PublishInv, NodesNamed
<1>5. OneAtATime'
  BY <1>1, DoneOneAtATime DEF PublishInv
<1>6. NodesListed'
  BY <1>1 DEF PublishInv, NodesListed, AfterList
<1>7. WholeStates'
  <2>1. \A q \in Slots : req'[q].pc \in AfterCompile => req'[q] = req[q] /\ ~req[q].alone
    BY <1>1, <1>2 DEF AfterCompile
  <2> QED
    BY <2>1 DEF PublishInv, WholeStates
<1>8. Generations'
  <2>1. \A q \in Slots : req'[q].pc \in Numbered \cup {"store"} => req'[q] = req[q]
    BY <1>1 DEF Numbered
  <2> QED
    BY <2>1 DEF PublishInv, Generations
<1>9. ServedCurrent'
  BY DEF ServedCurrent
<1>10. DeletedNotServed'
  BY <1>1 DEF PublishInv, DeletedNotServed
<1>11. EndsAgree'
  BY DEF PublishInv, EndsAgree
<1> QED
  BY <1>3, <1>4, <1>5, <1>6, <1>7, <1>8, <1>9, <1>10, <1>11 DEF PublishInv

\* A change of a link that is not published.
LEMMA LinkChangeInv ==
  ASSUME PublishInv, linkRow' \in [Link -> LinkStatus], used' \in [Counters -> Nat],
         unpublished' = TRUE, UNCHANGED <<alive, left, lastGen, req, desired, overlap, raced>>
  PROVE  PublishInv'
<1>1. PublishTypeOK' /\ NodesNamed' /\ OneAtATime' /\ NodesListed'
  BY DEF PublishInv, PublishTypeOK, NodesNamed, OneAtATime, NodesListed
<1>2. WholeStates' /\ Generations'
  BY DEF PublishInv, WholeStates, Generations
<1>3. ServedCurrent' /\ DeletedNotServed' /\ EndsAgree'
  BY DEF PublishInv, ServedCurrent, DeletedNotServed, EndsAgree
<1> QED
  BY <1>1, <1>2, <1>3 DEF PublishInv

\* Nobody has a request in progress and the database has just been compiled: at
\* the start and after every restart.
Fresh ==
  /\ PublishTypeOK
  /\ \A p \in Slots : req[p] = Idle
  /\ desired = Compiled(alive, 1)

\* Such a state satisfies the invariant.
LEMMA FreshInv == Fresh => PublishInv
<1> SUFFICES ASSUME Fresh PROVE PublishInv
  OBVIOUS
<1>1. \A p \in Slots : req[p].pc = "free" /\ ~req[p].alone /\ req[p].nodes = {}
  BY DEF Fresh, Idle
<1>2. \A n \in Node : IF n \in alive
        THEN desired[n] \in State /\ desired[n].gen = 1 /\ desired[n].links = LinksOf(n)
        ELSE desired[n] = NULL
  BY CompiledType DEF Fresh
<1>3. PublishTypeOK /\ alive \subseteq Node
  BY DEF Fresh, PublishTypeOK
<1>4. NodesNamed /\ OneAtATime
  BY <1>1 DEF NodesNamed, OneAtATime
<1>5. NodesListed /\ WholeStates /\ Generations
  BY <1>1, <1>2 DEF NodesListed, WholeStates, Generations, AfterList, AfterCompile, Numbered
<1>6. ServedCurrent
  BY <1>2, <1>3, StateAssumption DEF ServedCurrent
<1>7. DeletedNotServed
  BY <1>2 DEF DeletedNotServed
<1>8. EndsAgree
  BY <1>2, <1>3 DEF EndsAgree, LinksOf
<1> QED
  BY <1>3, <1>4, <1>5, <1>6, <1>7, <1>8 DEF PublishInv

\* The invariant holds at the start.
LEMMA InitInv == PublishInit => PublishInv
<1> SUFFICES ASSUME PublishInit PROVE Fresh
  BY FreshInv
<1> QED
  BY InitType DEF PublishInit, Fresh

\* The controller comes back with what its database holds, or serves nothing.
LEMMA ControllerRestartInv == PublishInv /\ ControllerRestart => PublishInv'
<1>1. Fresh' => PublishInv'
  BY FreshInv, PTL
<1> SUFFICES ASSUME PublishInv, ControllerRestart PROVE PublishInv'
  OBVIOUS
<1> USE DEF PublishInv, ControllerRestart
<1>2. UNCHANGED <<alive, left, linkRow, lastGen>>
  BY DEF topologyVars
<1>3. req' \in [Slots -> Request] /\ \A p \in Slots : req'[p] = Idle
  BY IdleType
<1>4. used' \in [Counters -> Nat]
  BY DEF PublishTypeOK, Spend, Counters
<1>5. desired' \in [Node -> State \cup {NULL}]
  BY CompiledType
<1>6. unpublished' \in BOOLEAN /\ raced' = FALSE /\ overlap' = "none"
  OBVIOUS
<1>7. PublishTypeOK'
  BY <1>2, <1>3, <1>4, <1>5, <1>6 DEF PublishTypeOK
<1>8. CASE desired' = Compiled(alive, 1)
  <2>1. \A n : LinksOf(n)' = LinksOf(n)
    BY <1>2 DEF LinksOf
  <2>2. (desired = Compiled(alive, 1))'
    BY <1>2, <1>8, <2>1 DEF Compiled
  <2> QED
    BY <1>1, <1>3, <1>7, <2>2 DEF Fresh
<1>9. CASE desired' = [n \in Node |-> NULL] /\ unpublished' = TRUE
  <2>1. \A p \in Slots : req'[p].pc = "free" /\ ~req'[p].alone /\ req'[p].nodes = {}
    BY <1>3 DEF Idle
  <2>2. \A n \in Node : desired'[n] = NULL
    BY <1>9
  <2>3. alive' \subseteq Node
    BY <1>7 DEF PublishTypeOK
  <2> HIDE DEF PublishInv, ControllerRestart
  <2>4. NodesNamed' /\ OneAtATime'
    BY <2>1 DEF NodesNamed, OneAtATime
  <2>5. NodesListed' /\ WholeStates' /\ Generations'
    BY <2>1, <2>2 DEF NodesListed, WholeStates, Generations, AfterList, AfterCompile, Numbered
  <2>6. ServedCurrent' /\ DeletedNotServed' /\ EndsAgree'
    BY <1>9, <2>2, <2>3 DEF ServedCurrent, DeletedNotServed, EndsAgree
  <2> QED
    BY <1>7, <2>4, <2>5, <2>6 DEF PublishInv
<1> QED
  BY <1>8, <1>9

-----------------------------------------------------------------------------
(* The invariant.                                                          *)

\* The counters stay numbers.
LEMMA SpendType ==
  ASSUME PublishTypeOK, NEW counter \in Counters, NEW limit, Spend(counter, limit)
  PROVE  used' \in [Counters -> Nat]
  BY DEF PublishTypeOK, Spend

\* Every request that enters preserves the invariant.
LEMMA ArrivalStep ==
  ASSUME PublishInv, NEW p \in Slots, Arrival(p)
  PROVE  PublishInv'
<1>0. PublishTypeOK
  BY DEF PublishInv
<1>1. ASSUME NEW n \in Node, Enroll(p, n) PROVE PublishInv'
  <2>1. used' \in [Counters -> Nat]
    BY <1>0, <1>1, SpendType DEF Enroll, Counters
  <2>2. Begin(p, "enroll", n, TRUE) /\ n \in Node \ {Controller}
    BY <1>1 DEF Enroll
  <2>3. linkRow' \in [Link -> LinkStatus]
    BY <1>0, <1>1 DEF Enroll, PublishTypeOK
  <2>4. n \notin alive \cup left /\ alive' = alive \cup {n}
    BY <1>1 DEF Enroll
  <2>5. UNCHANGED <<desired, lastGen, unpublished, left>>
    BY <1>1 DEF Enroll
  <2> QED
    BY <2>1, <2>2, <2>3, <2>4, <2>5, ArrivalInv
<1>2. ASSUME NEW n \in Node, CheckDelete(p, n) PROVE PublishInv'
  <2>1. used' \in [Counters -> Nat]
    BY <1>0, <1>2, SpendType DEF CheckDelete, Counters
  <2>2. Begin(p, "delete", n, FALSE) /\ n \in Node \ {Controller}
    BY <1>0, <1>2 DEF CheckDelete, PublishTypeOK
  <2>3. linkRow' \in [Link -> LinkStatus]
    BY <1>0, <1>2 DEF CheckDelete, PublishTypeOK, topologyVars
  <2>4. UNCHANGED <<alive, desired, lastGen, unpublished, left>>
    BY <1>2 DEF CheckDelete, topologyVars
  <2> QED
    BY <2>1, <2>2, <2>3, <2>4, ArrivalInv
<1>3. ASSUME NEW l \in Link, CreateLink(p, l) PROVE PublishInv'
  <2>1. used' \in [Counters -> Nat]
    BY <1>0, <1>3, SpendType DEF CreateLink, Counters
  <2>2. linkRow' \in [Link -> LinkStatus]
    BY <1>0, <1>3 DEF CreateLink, SetLink, PublishTypeOK, LinkStatus
  <2>3. Begin(p, "gen", NULL, FALSE) /\ UNCHANGED <<alive, desired, lastGen, unpublished, left>>
    BY <1>3 DEF CreateLink
  <2> QED
    BY <2>1, <2>2, <2>3, ArrivalInv
<1>4. ASSUME NEW l \in Link, NEW status \in {"Active", "Disabled"}, UpdateLink(p, l, status)
      PROVE  PublishInv'
  <2>1. used' \in [Counters -> Nat]
    BY <1>0, <1>4, SpendType DEF UpdateLink, Counters
  <2>2. linkRow' \in [Link -> LinkStatus]
    BY <1>0, <1>4 DEF UpdateLink, SetLink, PublishTypeOK, LinkStatus
  <2>3. Begin(p, "gen", NULL, FALSE) /\ UNCHANGED <<alive, desired, lastGen, unpublished, left>>
    BY <1>4 DEF UpdateLink
  <2> QED
    BY <2>1, <2>2, <2>3, ArrivalInv
<1>5. ASSUME Publish(p) PROVE PublishInv'
  <2>1. used' \in [Counters -> Nat]
    BY <1>0, <1>5, SpendType DEF Publish, Counters
  <2>2. linkRow' \in [Link -> LinkStatus]
    BY <1>0, <1>5 DEF Publish, PublishTypeOK, topologyVars
  <2>3. Begin(p, "gen", NULL, FALSE) /\ UNCHANGED <<alive, desired, lastGen, unpublished, left>>
    BY <1>5 DEF Publish, topologyVars
  <2> QED
    BY <2>1, <2>2, <2>3, ArrivalInv
<1> QED
  BY <1>1, <1>2, <1>3, <1>4, <1>5 DEF Arrival

\* So does every request that fails.
LEMMA FailureStep ==
  ASSUME PublishInv, NEW p \in Slots, EnrollFails(p) \/ PublishFails(p)
  PROVE  PublishInv'
<1>0. PublishTypeOK
  BY DEF PublishInv
<1>1. CASE EnrollFails(p)
  <2>1. used' \in [Counters -> Nat]
    BY <1>0, <1>1, SpendType DEF EnrollFails, Counters, PublishTypeOK
  <2> QED
    BY <1>1, <2>1, FailureInv DEF EnrollFails, topologyVars
<1>2. CASE PublishFails(p)
  <2>1. used' \in [Counters -> Nat]
    BY <1>0, <1>2, SpendType DEF PublishFails, Counters
  <2> QED
    BY <1>2, <2>1, FailureInv DEF PublishFails, topologyVars
<1> QED
  BY <1>1, <1>2

\* So do the changes of links that are not published.
LEMMA LinkStep ==
  ASSUME PublishInv, NEW l \in Link, CreatePendingLink(l) \/ DeleteLink(l)
  PROVE  PublishInv'
<1>0. PublishTypeOK
  BY DEF PublishInv
<1>1. used' \in [Counters -> Nat]
  BY <1>0, SpendType DEF CreatePendingLink, DeleteLink, Counters
<1>2. linkRow' \in [Link -> LinkStatus]
  BY <1>0 DEF CreatePendingLink, DeleteLink, SetLink, PublishTypeOK, LinkStatus
<1> QED
  BY <1>1, <1>2, LinkChangeInv DEF CreatePendingLink, DeleteLink

\* The invariant depends on the state of the controller only.
LEMMA Stutter == PublishInv /\ UNCHANGED publishVars => PublishInv'
<1> SUFFICES ASSUME PublishInv, UNCHANGED publishVars PROVE PublishInv'
  OBVIOUS
<1> USE DEF publishVars, topologyVars
<1>1. PublishTypeOK' /\ NodesNamed' /\ OneAtATime' /\ NodesListed'
  BY DEF PublishInv, PublishTypeOK, NodesNamed, OneAtATime, NodesListed
<1>2. \A n : LinksOf(n)' = LinksOf(n)
  BY DEF LinksOf
<1>3. WholeStates' /\ Generations'
  BY <1>2 DEF PublishInv, WholeStates, Generations
<1>4. ServedCurrent' /\ DeletedNotServed' /\ EndsAgree'
  BY <1>2 DEF PublishInv, ServedCurrent, DeletedNotServed, EndsAgree, Quiet, Busy
<1> QED
  BY <1>1, <1>3, <1>4 DEF PublishInv

\* Every step preserves the invariant.
LEMMA NextInv == PublishInv /\ [PublishNext]_publishVars => PublishInv'
<1> SUFFICES ASSUME PublishInv, PublishNext PROVE PublishInv'
  BY Stutter
<1>1. ASSUME NEW p \in Slots, Progress(p) PROVE PublishInv'
  BY <1>1, EnrollLinkInv, DeleteNodeInv, DropDesiredInv, NextGenerationInv, ListNodesInv,
     CompileInv, CreateConfigRevisionInv, StoreInv DEF Progress
<1> QED
  BY <1>1, ArrivalStep, FailureStep, LinkStep, ControllerRestartInv DEF PublishNext

\* The inductive invariant holds in every reachable state.
THEOREM PublishInvariant == PublishSpec => []PublishInv
  BY InitInv, NextInv, PTL DEF PublishSpec

\* The type invariant of the controller's configuration state.
THEOREM PublishTypeCorrect == PublishSpec => []PublishTypeOK
<1>1. PublishInv => PublishTypeOK
  BY DEF PublishInv
<1> QED
  BY <1>1, PublishInvariant, PTL

\* After a publication that nothing overlapped, the controller serves its
\* database.
THEOREM ServedCorrect == PublishSpec => []ServedCurrent
<1>1. PublishInv => ServedCurrent
  BY DEF PublishInv
<1> QED
  BY <1>1, PublishInvariant, PTL

\* Deleted nodes are not served, as long as requests do not overlap.
THEOREM DeletedCorrect == PublishSpec => []DeletedNotServed
<1>1. PublishInv => DeletedNotServed
  BY DEF PublishInv
<1> QED
  BY <1>1, PublishInvariant, PTL

\* Both ends of a link are served the same link, even when publications overlap.
THEOREM EndsCorrect == PublishSpec => []EndsAgree
<1>1. PublishInv => EndsAgree
  BY DEF PublishInv
<1> QED
  BY <1>1, PublishInvariant, PTL

\* A higher number for whatever is served anew: it needs the invariant, because
\* the number was taken and recorded in earlier steps of the publication.
LEMMA GenerationStep ==
  ASSUME PublishInv, PublishNext, NEW n \in Node,
         desired[n] # NULL, desired'[n] # NULL, desired'[n] # desired[n],
         overlap' = "none", used'["ctl"] = used["ctl"], lastGen > 1
  PROVE  desired'[n].gen > desired[n].gen
<1>1. ASSUME NEW p \in Slots, Store(p) PROVE desired'[n].gen > desired[n].gen
  <2>1. /\ req[p].pc = "store"
        /\ desired'[n] = IF req[p].states[n] # NULL THEN req[p].states[n] ELSE desired[n]
        /\ overlap' = IF req[p].alone THEN "none" ELSE overlap
    BY <1>1 DEF Store
  <2>2. req[p].alone
    BY <2>1 DEF PublishInv, OneAtATime
  <2>3. desired'[n] = req[p].states[n]
    BY <2>1
  <2>4. desired'[n].gen = req[p].gen
    BY <2>1, <2>3 DEF PublishInv, WholeStates, AfterCompile
  <2>5. req[p].gen = lastGen /\ desired[n].gen < lastGen
    BY <2>1, <2>2 DEF PublishInv, Generations
  <2>6. lastGen \in Nat /\ desired[n].gen \in Nat
    BY DEF PublishInv, PublishTypeOK, State
  <2> QED
    BY <2>4, <2>5, <2>6
<1>2. ASSUME NEW p \in Slots, DropDesired(p) PROVE FALSE
  BY <1>2 DEF DropDesired, PublishInv, PublishTypeOK
<1>3. ControllerRestart => FALSE
  BY DEF ControllerRestart, Spend, PublishInv, PublishTypeOK, Counters
<1>4. CASE \E p \in Slots : Arrival(p)
  BY <1>4 DEF Arrival, Enroll, CheckDelete, CreateLink, UpdateLink, Publish
<1>5. CASE \E p \in Slots : Progress(p)
  BY <1>1, <1>2, <1>5 DEF Progress, EnrollLink, DeleteNode, NextGeneration, ListNodes, Compile,
     CreateConfigRevision
<1>6. CASE \E p \in Slots : EnrollFails(p) \/ PublishFails(p)
  BY <1>6 DEF EnrollFails, PublishFails
<1>7. CASE \E l \in Link : CreatePendingLink(l) \/ DeleteLink(l)
  BY <1>7 DEF CreatePendingLink, DeleteLink
<1> QED
  BY <1>3, <1>4, <1>5, <1>6, <1>7 DEF PublishNext

\* What a node is served changes only to a higher generation.
THEOREM GenerationsCorrect == PublishSpec => GenerationGrows
<1>1. PublishInv /\ [PublishNext]_publishVars =>
        [\A n \in Node :
           /\ desired[n] # NULL /\ desired'[n] # NULL /\ desired'[n] # desired[n]
           /\ overlap' = "none" /\ used'["ctl"] = used["ctl"] /\ lastGen > 1
           => desired'[n].gen > desired[n].gen]_publishVars
  BY GenerationStep
<1> QED
  BY <1>1, PublishInvariant, PTL DEF PublishSpec, GenerationGrows

-----------------------------------------------------------------------------
(* Agents and netd.                                                        *)

\* The state an agent works on, and the one a left-over call works on, is there.
Fetched ==
  \A n \in Node :
    /\ agent[n].pc \notin {"idle", "pull"} => agent[n].st \in State
    /\ orphan[n].pc # "none" => orphan[n].st \in State

ApplyTypes == TypeOK /\ Fetched

\* A number that agents may know: an undisturbed publication about to be stored
\* has a higher one.
Old(g) ==
  /\ g <= 1 \/ g <= lastGen
  /\ g <= 1 \/ \A p \in Slots : req[p].alone /\ req[p].pc = "store" => g < lastGen

OldNumbers(n) ==
  /\ activeGen[n] # NULL => Old(activeGen[n])
  /\ agent[n].st # NULL => Old(agent[n].st.gen)

\* Served by an undisturbed publication; and that is what the agent reports.
Served(n)  == n \in alive /\ overlap = "none" /\ desired[n] # NULL /\ desired[n].gen > 1
Current(n) == Served(n) /\ activeGen[n] = desired[n].gen

\* Under such a number the agent holds nothing but what is served.
HoldsServed(n) ==
  Served(n) /\ agent[n].st # NULL /\ (agent[n].st.gen = desired[n].gen \/ Current(n))
    => agent[n].st = desired[n]

\* The devices are those of the state the agent is activating or verifying.
DevicesHeld(n) ==
  ~foreign[n] =>
    /\ agent[n].pc = "good" => dev[n] = agent[n].st.links
    /\ agent[n].pc \in {"verify", "rollback"} /\ lastGood[n] # NULL => dev[n] = agent[n].st.links

\* A left-over call does not give netd its first good state after the agent has
\* verified one.
OrphanLate(n) ==
  orphan[n].pc # "none" /\ (activeGen[n] # NULL \/ agent[n].pc \in {"verify", "rollback"})
    => lastGood[n] # NULL

CurrentApplied(n) ==
  Current(n) /\ ~foreign[n] /\ lastGood[n] # NULL => dev[n] = desired[n].links

NodeInv(n) ==
  OldNumbers(n) /\ HoldsServed(n) /\ DevicesHeld(n) /\ OrphanLate(n) /\ CurrentApplied(n)

ApplyInv == PublishInv /\ ApplyTypes /\ \A n \in Node : NodeInv(n)

-----------------------------------------------------------------------------
(* The controller's steps.                                                 *)

\* What is served has a number agents may know.
LEMMA ServedOld ==
  ASSUME PublishInv, NEW n \in Node, desired[n] # NULL
  PROVE  desired[n].gen \in Nat /\ Old(desired[n].gen)
<1>1. desired[n].gen \in Nat /\ lastGen \in Nat
  BY DEF PublishInv, PublishTypeOK, State
<1>2. desired[n].gen = 1 \/ desired[n].gen <= lastGen
  BY DEF PublishInv, Generations
<1>3. \A p \in Slots : req[p].alone /\ req[p].pc = "store" /\ lastGen > 1 => desired[n].gen < lastGen
  BY DEF PublishInv, Generations
<1> QED
  BY <1>1, <1>2, <1>3 DEF Old

\* A request that enters, or a failure, leaves what is served and the numbers.
LEMMA ArrivalEffect ==
  ASSUME PublishInv, NEW p \in Slots, Arrival(p)
  PROVE  /\ UNCHANGED <<lastGen, desired>>
         /\ \A q \in Slots : req'[q].alone /\ req'[q].pc = "store" => FALSE
         /\ overlap' = "none" => overlap = "none"
         /\ \A n \in alive' : n \in alive \/ desired[n] = NULL
<1>1. ASSUME NEW pc \in {"enroll", "delete", "gen"}, NEW n \in Node \cup {NULL}, NEW e \in BOOLEAN,
             Begin(p, pc, n, e)
      PROVE  /\ \A q \in Slots : req'[q].alone /\ req'[q].pc = "store" => FALSE
             /\ overlap' = "none" => overlap = "none"
  <2>1. PublishTypeOK /\ pc \in RequestPC
    BY DEF PublishInv, RequestPC
  <2>2. /\ req[p].pc = "free"
        /\ req' \in [Slots -> Request]
        /\ req'[p].pc = pc /\ req'[p].node = n /\ req'[p].nodes = {}
        /\ req'[p].alone = (Busy = {})
        /\ \A q \in Slots : q # p =>
             /\ req'[q].pc = req[q].pc /\ req'[q].node = req[q].node
             /\ req'[q].gen = req[q].gen /\ req'[q].nodes = req[q].nodes
             /\ req'[q].states = req[q].states /\ req'[q].alone = FALSE
        /\ overlap' \in {"none", "edits", "enrolls"} /\ raced' \in BOOLEAN
    BY <1>1, <2>1, BeginType
  <2>3. overlap' = "none" => overlap = "none"
    BY <1>1 DEF Begin
  <2> QED
    BY <2>2, <2>3
<1>2. ASSUME NEW n \in Node, Enroll(p, n) \/ CheckDelete(p, n)
      PROVE  \E pc \in {"enroll", "delete"}, e \in BOOLEAN : Begin(p, pc, n, e)
  BY <1>2 DEF Enroll, CheckDelete
<1>3. (\A n \in Node : ~Enroll(p, n) /\ ~CheckDelete(p, n)) => Begin(p, "gen", NULL, FALSE)
  BY DEF Arrival, CreateLink, UpdateLink, Publish
<1>4. UNCHANGED <<lastGen, desired>>
  BY DEF Arrival, Enroll, CheckDelete, CreateLink, UpdateLink, Publish
<1>5. \A n \in alive' : n \in alive \/ desired[n] = NULL
  <2>1. ASSUME NEW n \in Node, Enroll(p, n) PROVE \A m \in alive' : m \in alive \/ desired[m] = NULL
    BY <2>1 DEF Enroll, PublishInv, NodesListed
  <2>2. ASSUME NEW n \in Node, CheckDelete(p, n) PROVE alive' = alive
    BY <2>2 DEF CheckDelete, topologyVars
  <2>3. Publish(p) => alive' = alive
    BY DEF Publish, topologyVars
  <2> QED
    BY <2>1, <2>2, <2>3 DEF Arrival, CreateLink, UpdateLink
<1> QED
  BY <1>1, <1>2, <1>3, <1>4, <1>5

\* A request that moves on or fails: only the last two steps of a publication
\* change the numbers or what is served.
LEMMA ProgressEffect ==
  ASSUME PublishInv, NEW p \in Slots, Progress(p) \/ EnrollFails(p) \/ PublishFails(p)
  PROVE  \/ CreateConfigRevision(p)
         \/ Store(p)
         \/ /\ UNCHANGED <<lastGen, overlap>> /\ alive' \subseteq alive
            /\ \A q \in Slots : req'[q].alone /\ req'[q].pc = "store" => req[q].alone /\ req[q].pc = "store"
            /\ \A n \in Node : desired'[n] = NULL \/ desired'[n] = desired[n]
<1>0. PublishTypeOK
  BY DEF PublishInv
<1>1. ASSUME NEW pc \in RequestPC \ {"store"}, Step(p, pc)
      PROVE  \A q \in Slots : req'[q].pc = "store" => req'[q] = req[q]
  BY <1>0, <1>1, StepType
<1>2. ASSUME Done(p) PROVE \A q \in Slots : req'[q].pc = "store" => req'[q] = req[q]
  BY <1>0, <1>2, DoneType
<1>3. CASE EnrollLink(p)
  BY <1>1, <1>3 DEF EnrollLink, RequestPC
<1>4. CASE DeleteNode(p)
  BY <1>1, <1>4 DEF DeleteNode, RequestPC
<1>5. CASE DropDesired(p)
  <2>1. UNCHANGED <<lastGen, overlap, alive>> /\ Step(p, "gen")
    BY <1>5 DEF DropDesired, topologyVars
  <2>2. \A n \in Node : desired'[n] = NULL \/ desired'[n] = desired[n]
    BY <1>0, <1>5 DEF DropDesired, PublishTypeOK
  <2> QED
    BY <1>1, <2>1, <2>2 DEF RequestPC
<1>6. CASE NextGeneration(p)
  <2>1. UNCHANGED <<lastGen, overlap, alive, desired>>
    BY <1>6 DEF NextGeneration, topologyVars
  <2>2. \A q \in Slots : req'[q].pc = "store" => req'[q] = req[q]
    BY <1>0, <1>6 DEF NextGeneration, PublishTypeOK, Request
  <2> QED
    BY <2>1, <2>2
<1>7. CASE ListNodes(p)
  <2>1. UNCHANGED <<lastGen, overlap, alive, desired>>
    BY <1>7 DEF ListNodes, topologyVars
  <2>2. \A q \in Slots : req'[q].pc = "store" => req'[q] = req[q]
    BY <1>0, <1>7 DEF ListNodes, PublishTypeOK, Request
  <2> QED
    BY <2>1, <2>2
<1>8. CASE Compile(p)
  <2>1. UNCHANGED <<lastGen, overlap, alive, desired>>
    BY <1>8 DEF Compile, topologyVars
  <2>2. \A q \in Slots : req'[q].pc = "store" => req'[q] = req[q]
    BY <1>0, <1>8 DEF Compile, PublishTypeOK, Request
  <2> QED
    BY <2>1, <2>2
<1>9. CASE EnrollFails(p)
  BY <1>2, <1>9 DEF EnrollFails, topologyVars
<1>10. CASE PublishFails(p)
  BY <1>2, <1>10 DEF PublishFails, topologyVars
<1> QED
  BY <1>3, <1>4, <1>5, <1>6, <1>7, <1>8, <1>9, <1>10 DEF Progress

\* What agents know stays old, and whatever is newly served under an undisturbed
\* publication has a number that none of them knows.
LEMMA ControllerEffect ==
  ASSUME PublishInv, PublishNext
  PROVE  /\ \A g \in Nat : Old(g) => Old(g)'
         /\ \A n \in Node : Served(n)' =>
              \/ Served(n) /\ desired'[n] = desired[n]
              \/ \A g \in Nat : Old(g) => g # desired'[n].gen
<1>0. PublishInv'
  BY NextInv
<1>t. lastGen \in Nat /\ lastGen' \in Nat
  BY <1>0 DEF PublishInv, PublishTypeOK
<1>1. ASSUME UNCHANGED lastGen, \A n \in alive' : n \in alive \/ desired[n] = NULL,
             \A q \in Slots : req'[q].alone /\ req'[q].pc = "store" => req[q].alone /\ req[q].pc = "store",
             \A n \in Node : desired'[n] = NULL \/ desired'[n] = desired[n],
             overlap' = "none" => overlap = "none"
      PROVE  /\ \A g \in Nat : Old(g) => Old(g)'
             /\ \A n \in Node : Served(n)' => Served(n) /\ desired'[n] = desired[n]
  BY <1>1 DEF Old, Served
<1>2. CASE \E p \in Slots : Arrival(p)
  BY <1>1, <1>2, ArrivalEffect
<1>3. ASSUME NEW p \in Slots, CreateConfigRevision(p)
      PROVE  /\ \A g \in Nat : Old(g) => Old(g)'
             /\ \A n \in Node : Served(n)' => Served(n) /\ desired'[n] = desired[n]
  <2>1. /\ req[p].pc = "insert" /\ Step(p, "store")
        /\ lastGen' = IF req[p].gen > lastGen THEN req[p].gen ELSE lastGen
        /\ UNCHANGED <<alive, desired, overlap>>
    BY <1>3 DEF CreateConfigRevision, topologyVars
  <2>2. \A q \in Slots : q # p => req'[q] = req[q]
    BY <2>1, StepType DEF PublishInv, RequestPC
  <2>3. req'[p].alone = req[p].alone
    BY <2>1, StepType DEF PublishInv, RequestPC
  <2>4. req[p].alone => lastGen' = lastGen + 1
    BY <2>1, <1>t DEF PublishInv, Generations, Numbered
  <2>5. lastGen' >= lastGen
    BY <2>1, <1>t DEF PublishInv, PublishTypeOK, Request
  <2>6. ASSUME NEW g \in Nat, Old(g) PROVE Old(g)'
    BY <1>t, <2>2, <2>3, <2>4, <2>5, <2>6 DEF Old
  <2> QED
    BY <2>1, <2>6 DEF Served
<1>4. ASSUME NEW p \in Slots, Store(p)
      PROVE  /\ \A g \in Nat : Old(g) => Old(g)'
             /\ \A n \in Node : Served(n)' => \A g \in Nat : Old(g) => g # desired'[n].gen
  <2>1. /\ req[p].pc = "store" /\ Done(p)
        /\ desired' = [n \in Node |-> IF req[p].states[n] # NULL
                                      THEN req[p].states[n] ELSE desired[n]]
        /\ overlap' = IF req[p].alone THEN "none" ELSE overlap
        /\ UNCHANGED <<alive, lastGen>>
    BY <1>4 DEF Store, topologyVars
  <2>2. /\ req'[p].pc = "free"
        /\ \A q \in Slots : q # p => req'[q] = req[q]
    BY <2>1, DoneType DEF PublishInv
  <2>3. \A g \in Nat : Old(g) => Old(g)'
    BY <2>1, <2>2 DEF Old
  <2>4. ASSUME NEW n \in Node, Served(n)', NEW g \in Nat, Old(g) PROVE g # desired'[n].gen
    <3>1. req[p].alone /\ n \in req[p].nodes
      BY <2>1, <2>4 DEF Served, PublishInv, OneAtATime, NodesListed, AfterList
    <3>2. desired'[n].gen = lastGen
      BY <2>1, <3>1, StateAssumption DEF PublishInv, WholeStates, AfterCompile, Generations
    <3>3. desired'[n].gen > 1
      BY <2>4 DEF Served
    <3> QED
      BY <1>t, <2>1, <2>4, <3>1, <3>2, <3>3 DEF Old
  <2> QED
    BY <2>3, <2>4
<1>5. ASSUME NEW p \in Slots, Progress(p) \/ EnrollFails(p) \/ PublishFails(p)
      PROVE  /\ \A g \in Nat : Old(g) => Old(g)'
             /\ \A n \in Node : Served(n)' =>
                  \/ Served(n) /\ desired'[n] = desired[n]
                  \/ \A g \in Nat : Old(g) => g # desired'[n].gen
  BY <1>1, <1>3, <1>4, <1>5, ProgressEffect
<1>6. CASE \E l \in Link : CreatePendingLink(l) \/ DeleteLink(l)
  BY <1>1, <1>6 DEF CreatePendingLink, DeleteLink
<1>7. CASE ControllerRestart
  <2>1. /\ \A q \in Slots : req'[q] = Idle
        /\ UNCHANGED <<alive, lastGen>>
    BY <1>7 DEF ControllerRestart, topologyVars
  <2>2. \A g \in Nat : Old(g) => Old(g)'
    BY <2>1 DEF Old, Idle
  <2>3. \A n \in Node : desired'[n] = NULL \/ desired'[n].gen = 1
    <3>1. \A n \in Node : Compiled(alive, 1)[n] = NULL \/ Compiled(alive, 1)[n].gen = 1
      BY CompiledType
    <3>2. desired' = Compiled(alive, 1) \/ desired' = [n \in Node |-> NULL]
      BY <1>7 DEF ControllerRestart
    <3> QED
      BY <3>1, <3>2
  <2>4. \A n \in Node : ~Served(n)'
    BY <2>3 DEF Served
  <2> QED
    BY <2>2, <2>4
<1> QED
  BY <1>2, <1>5, <1>6, <1>7 DEF PublishNext

-----------------------------------------------------------------------------
(* The nodes' steps.                                                       *)

\* A step of one node leaves the others alone, and the controller but for a
\* counter and what the node reported.
Alone(n) ==
  /\ UNCHANGED <<alive, left, linkRow, lastGen, req, desired, unpublished, overlap, raced>>
  /\ used' \in [Counters -> Nat]
  /\ reported' \in [Node -> Maybe(Nat)] /\ restarts' \in [{"agent", "netd"} -> Nat]
  /\ agent' = [m \in Node |-> agent'[m]] /\ activeGen' = [m \in Node |-> activeGen'[m]]
  /\ dev' = [m \in Node |-> dev'[m]] /\ lastGood' = [m \in Node |-> lastGood'[m]]
  /\ orphan' = [m \in Node |-> orphan'[m]] /\ foreign' = [m \in Node |-> foreign'[m]]
  /\ \A m \in Node \ {n} :
       /\ agent'[m] = agent[m] /\ activeGen'[m] = activeGen[m] /\ dev'[m] = dev[m]
       /\ lastGood'[m] = lastGood[m] /\ orphan'[m] = orphan[m] /\ foreign'[m] = foreign[m]

\* The controller's part of the invariant does not depend on the counters.
LEMMA PublishKept ==
  ASSUME PublishInv, used' \in [Counters -> Nat],
         UNCHANGED <<alive, left, linkRow, lastGen, req, desired, unpublished, overlap, raced>>
  PROVE  PublishInv'
<1>1. PublishTypeOK' /\ NodesNamed' /\ OneAtATime' /\ NodesListed'
  BY DEF PublishInv, PublishTypeOK, NodesNamed, OneAtATime, NodesListed
<1>2. \A n : LinksOf(n)' = LinksOf(n)
  BY DEF LinksOf
<1>3. WholeStates' /\ Generations'
  BY <1>2 DEF PublishInv, WholeStates, Generations
<1>4. ServedCurrent' /\ DeletedNotServed' /\ EndsAgree'
  BY <1>2 DEF PublishInv, ServedCurrent, DeletedNotServed, EndsAgree, Quiet, Busy
<1> QED
  BY <1>1, <1>3, <1>4 DEF PublishInv

\* What such a step leaves alone.
LEMMA Unmoved ==
  ASSUME NEW n, NEW m, Alone(n)
  PROVE  /\ \A g : Old(g)' <=> Old(g)
         /\ Served(m)' <=> Served(m)
         /\ desired' = desired
  BY DEF Alone, Old, Served

\* The types of what the step sets.
Typed(n) ==
  /\ agent[n] \in [pc: {"idle", "pull", "activate", "good", "verify", "rollback"}, st: Maybe(State)]
  /\ agent[n].pc \notin {"idle", "pull"} => agent[n].st \in State
  /\ orphan[n] \in [pc: {"none", "activate", "good"}, st: Maybe(State)]
  /\ orphan[n].pc # "none" => orphan[n].st \in State
  /\ activeGen[n] \in Maybe(Nat) /\ dev[n] \subseteq Link
  /\ lastGood[n] \in Maybe(State) /\ foreign[n] \in BOOLEAN

\* A step that sets well-typed values keeps the types.
LEMMA TypesKept ==
  ASSUME ApplyTypes, NEW n \in Node, Alone(n), Typed(n)', PublishTypeOK'
  PROVE  ApplyTypes'
<1>1. \A m \in Node : Typed(m)'
  BY DEF ApplyTypes, TypeOK, Fetched, Typed, Alone
<1>2. TypeOK'
  BY <1>1 DEF Alone, Typed, TypeOK
<1>3. Fetched'
  BY <1>1 DEF Typed, Fetched
<1> QED
  BY <1>2, <1>3 DEF ApplyTypes

\* So it is enough to look at the node that moved.
LEMMA AloneInv ==
  ASSUME ApplyInv, NEW n \in Node, Alone(n), Typed(n)', NodeInv(n)'
  PROVE  ApplyInv'
<1>1. PublishInv'
  BY PublishKept DEF ApplyInv, Alone
<1>2. ApplyTypes'
  BY <1>1, TypesKept DEF PublishInv, ApplyInv
<1>3. ASSUME NEW m \in Node \ {n} PROVE NodeInv(m)'
  <2>1. \A g : Old(g)' <=> Old(g)
    BY DEF Alone, Old
  <2>2. Served(m)' <=> Served(m)
    BY DEF Alone, Served
  <2> USE DEF ApplyInv, NodeInv, Alone
  <2>3. OldNumbers(m)'
    BY <2>1 DEF OldNumbers
  <2>4. HoldsServed(m)'
    BY <2>2 DEF HoldsServed, Current
  <2>5. DevicesHeld(m)' /\ OrphanLate(m)'
    BY DEF DevicesHeld, OrphanLate
  <2>6. CurrentApplied(m)'
    BY <2>2 DEF CurrentApplied, Current
  <2> QED
    BY <2>3, <2>4, <2>5, <2>6
<1> QED
  BY <1>1, <1>2, <1>3 DEF ApplyInv

\* Counting a failure.
LEMMA SpendFaults ==
  ASSUME PublishTypeOK, NEW limit, Spend("faults", limit)
  PROVE  used' \in [Counters -> Nat]
  BY SpendType DEF Counters

\* The fields of a desired state.
LEMMA StateFields == \A s \in State : s.gen \in Nat /\ s.links \subseteq Link
  BY DEF State

\* NULL is neither a desired state nor a generation.
LEMMA NullState == NULL \notin State /\ NULL \notin Nat
  BY StateAssumption, ApplyAssumption

\* The types, by node.
LEMMA NodeTypes ==
  ASSUME ApplyInv, NEW n \in Node
  PROVE  Typed(n) /\ PublishTypeOK /\ desired[n] \in Maybe(State)
  BY DEF ApplyInv, ApplyTypes, TypeOK, Fetched, PublishTypeOK, Maybe, Typed

\* The report.
LEMMA HeartbeatInv ==
  ASSUME ApplyInv, NEW n \in Online, Heartbeat(n)
  PROVE  ApplyInv'
<1>0. n \in Node
  BY ApplyAssumption
<1>1. Alone(n)
  BY <1>0 DEF Heartbeat, Alone, ApplyInv, ApplyTypes, TypeOK, publishVars, topologyVars, PublishTypeOK, At, Go, Rest
<1>2. /\ UNCHANGED <<activeGen, dev, lastGood, orphan, foreign>>
      /\ agent'[n] = [pc |-> "pull", st |-> agent[n].st]
      /\ agent[n].pc = "idle"
  BY <1>0 DEF ApplyInv, ApplyTypes, TypeOK, Maybe, Heartbeat, At, Go, Rest, Resting, NoCall
<1>3. Typed(n)'
  <2>1. Typed(n) /\ desired[n] \in Maybe(State)
    BY <1>0, NodeTypes
  <2>2. dev'[n] \subseteq Link
    BY <1>2, <2>1, StateFields, NullState DEF Typed, Maybe
  <2>3. foreign'[n] \in BOOLEAN
    BY <1>2, <2>1 DEF Typed
  <2> QED
    BY <1>2, <2>1, <2>2, <2>3, NullState, StateFields DEF Typed, Resting, NoCall, Maybe
<1>4. /\ \A g : Old(g)' <=> Old(g)
      /\ Served(n)' <=> Served(n)
      /\ desired' = desired
  BY <1>1, Unmoved
<1>5. Typed(n) /\ PublishInv /\ NodeInv(n) /\ desired[n] \in Maybe(State)
  BY <1>0, NodeTypes DEF ApplyInv
<1>6. OldNumbers(n)'
  BY <1>0, <1>2, <1>4, <1>5, ServedOld, NullState DEF NodeInv, OldNumbers, Typed, Resting, Maybe, State
<1>7. HoldsServed(n)'
  BY <1>2, <1>4, <1>5, NullState DEF NodeInv, HoldsServed, Current, Served, Typed, Resting, Maybe, State
<1>8. DevicesHeld(n)'
  BY <1>2, <1>5, NullState DEF NodeInv, DevicesHeld, OrphanLate, Typed, Resting, Maybe
<1>9. OrphanLate(n)'
  BY <1>2, <1>5, NullState DEF NodeInv, OrphanLate, Typed, Resting, NoCall, Maybe
<1>10. CurrentApplied(n)'
  BY <1>2, <1>4, <1>5, NullState DEF NodeInv, CurrentApplied, HoldsServed, DevicesHeld, OrphanLate, Current, Served, Typed, Resting, Maybe, State
<1> QED
  BY <1>0, <1>1, <1>3, <1>6, <1>7, <1>8, <1>9, <1>10, AloneInv DEF NodeInv

\* A report that is lost.
LEMMA HeartbeatLostInv ==
  ASSUME ApplyInv, NEW n \in Online, HeartbeatLost(n)
  PROVE  ApplyInv'
<1>0. n \in Node
  BY ApplyAssumption
<1>1. Alone(n)
  BY <1>0, SpendFaults DEF HeartbeatLost, Alone, ApplyInv, ApplyTypes, TypeOK, ControllerIdle, At, Go, Rest
<1>2. /\ UNCHANGED <<activeGen, dev, lastGood, orphan, foreign>>
      /\ agent'[n] = [pc |-> "pull", st |-> agent[n].st]
      /\ agent[n].pc = "idle"
  BY <1>0 DEF ApplyInv, ApplyTypes, TypeOK, Maybe, HeartbeatLost, At, Go, Rest, Resting, NoCall
<1>3. Typed(n)'
  <2>1. Typed(n) /\ desired[n] \in Maybe(State)
    BY <1>0, NodeTypes
  <2>2. dev'[n] \subseteq Link
    BY <1>2, <2>1, StateFields, NullState DEF Typed, Maybe
  <2>3. foreign'[n] \in BOOLEAN
    BY <1>2, <2>1 DEF Typed
  <2> QED
    BY <1>2, <2>1, <2>2, <2>3, NullState, StateFields DEF Typed, Resting, NoCall, Maybe
<1>4. /\ \A g : Old(g)' <=> Old(g)
      /\ Served(n)' <=> Served(n)
      /\ desired' = desired
  BY <1>1, Unmoved
<1>5. Typed(n) /\ PublishInv /\ NodeInv(n) /\ desired[n] \in Maybe(State)
  BY <1>0, NodeTypes DEF ApplyInv
<1>6. OldNumbers(n)'
  BY <1>0, <1>2, <1>4, <1>5, ServedOld, NullState DEF NodeInv, OldNumbers, Typed, Resting, Maybe, State
<1>7. HoldsServed(n)'
  BY <1>2, <1>4, <1>5, NullState DEF NodeInv, HoldsServed, Current, Served, Typed, Resting, Maybe, State
<1>8. DevicesHeld(n)'
  BY <1>2, <1>5, NullState DEF NodeInv, DevicesHeld, OrphanLate, Typed, Resting, Maybe
<1>9. OrphanLate(n)'
  BY <1>2, <1>5, NullState DEF NodeInv, OrphanLate, Typed, Resting, NoCall, Maybe
<1>10. CurrentApplied(n)'
  BY <1>2, <1>4, <1>5, NullState DEF NodeInv, CurrentApplied, HoldsServed, DevicesHeld, OrphanLate, Current, Served, Typed, Resting, Maybe, State
<1> QED
  BY <1>0, <1>1, <1>3, <1>6, <1>7, <1>8, <1>9, <1>10, AloneInv DEF NodeInv

\* A desired state that cannot be fetched.
LEMMA PullFailsInv ==
  ASSUME ApplyInv, NEW n \in Online, PullFails(n)
  PROVE  ApplyInv'
<1>0. n \in Node
  BY ApplyAssumption
<1>1. Alone(n)
  BY <1>0, SpendFaults DEF PullFails, Alone, ApplyInv, ApplyTypes, TypeOK, ControllerIdle, At, Go, Rest
<1>2. /\ UNCHANGED <<activeGen, dev, lastGood, orphan, foreign>>
      /\ agent'[n] = Resting
  BY <1>0 DEF ApplyInv, ApplyTypes, TypeOK, Maybe, PullFails, At, Go, Rest, Resting, NoCall
<1>3. Typed(n)'
  <2>1. Typed(n) /\ desired[n] \in Maybe(State)
    BY <1>0, NodeTypes
  <2>2. dev'[n] \subseteq Link
    BY <1>2, <2>1, StateFields, NullState DEF Typed, Maybe
  <2>3. foreign'[n] \in BOOLEAN
    BY <1>2, <2>1 DEF Typed
  <2> QED
    BY <1>2, <2>1, <2>2, <2>3, NullState, StateFields DEF Typed, Resting, NoCall, Maybe
<1>4. /\ \A g : Old(g)' <=> Old(g)
      /\ Served(n)' <=> Served(n)
      /\ desired' = desired
  BY <1>1, Unmoved
<1>5. Typed(n) /\ PublishInv /\ NodeInv(n) /\ desired[n] \in Maybe(State)
  BY <1>0, NodeTypes DEF ApplyInv
<1>6. OldNumbers(n)'
  BY <1>0, <1>2, <1>4, <1>5, ServedOld, NullState DEF NodeInv, OldNumbers, Typed, Resting, Maybe, State
<1>7. HoldsServed(n)'
  BY <1>2, <1>4, <1>5, NullState DEF NodeInv, HoldsServed, Current, Served, Typed, Resting, Maybe, State
<1>8. DevicesHeld(n)'
  BY <1>2, <1>5, NullState DEF NodeInv, DevicesHeld, OrphanLate, Typed, Resting, Maybe
<1>9. OrphanLate(n)'
  BY <1>2, <1>5, NullState DEF NodeInv, OrphanLate, Typed, Resting, NoCall, Maybe
<1>10. CurrentApplied(n)'
  BY <1>2, <1>4, <1>5, NullState DEF NodeInv, CurrentApplied, HoldsServed, DevicesHeld, OrphanLate, Current, Served, Typed, Resting, Maybe, State
<1> QED
  BY <1>0, <1>1, <1>3, <1>6, <1>7, <1>8, <1>9, <1>10, AloneInv DEF NodeInv

\* A failed activation of what runs already changes nothing.
LEMMA ActivateFailsInv ==
  ASSUME ApplyInv, NEW n \in Online, ActivateFails(n)
  PROVE  ApplyInv'
<1>0. n \in Node
  BY ApplyAssumption
<1>1. Alone(n)
  BY <1>0, SpendFaults DEF ActivateFails, Alone, ApplyInv, ApplyTypes, TypeOK, ControllerIdle, At, Go, Rest, PartlyReconciled
<1>2. /\ UNCHANGED <<activeGen, lastGood, orphan, foreign>>
      /\ agent[n].pc = "activate"
      /\ agent'[n] = Resting
      /\ dev'[n] \subseteq agent[n].st.links
      /\ dev[n] = agent[n].st.links => dev'[n] = dev[n]
  BY <1>0 DEF ApplyInv, ApplyTypes, TypeOK, Maybe, ActivateFails, At, Go, Rest, Resting, NoCall, PartlyReconciled
<1>3. Typed(n)'
  <2>1. Typed(n) /\ desired[n] \in Maybe(State)
    BY <1>0, NodeTypes
  <2>2. dev'[n] \subseteq Link
    BY <1>2, <2>1, StateFields, NullState DEF Typed, Maybe
  <2>3. foreign'[n] \in BOOLEAN
    BY <1>2, <2>1 DEF Typed
  <2> QED
    BY <1>2, <2>1, <2>2, <2>3, NullState, StateFields DEF Typed, Resting, NoCall, Maybe
<1>4. /\ \A g : Old(g)' <=> Old(g)
      /\ Served(n)' <=> Served(n)
      /\ desired' = desired
  BY <1>1, Unmoved
<1>5. Typed(n) /\ PublishInv /\ NodeInv(n) /\ desired[n] \in Maybe(State)
  BY <1>0, NodeTypes DEF ApplyInv
<1>6. OldNumbers(n)'
  BY <1>0, <1>2, <1>4, <1>5, ServedOld, NullState DEF NodeInv, OldNumbers, Typed, Resting, Maybe, State
<1>7. HoldsServed(n)'
  BY <1>2, <1>4, <1>5, NullState DEF NodeInv, HoldsServed, Current, Served, Typed, Resting, Maybe, State
<1>8. DevicesHeld(n)'
  BY <1>2, <1>5, NullState DEF NodeInv, DevicesHeld, OrphanLate, Typed, Resting, Maybe
<1>9. OrphanLate(n)'
  BY <1>2, <1>5, NullState DEF NodeInv, OrphanLate, Typed, Resting, NoCall, Maybe
<1>10. CurrentApplied(n)'
  BY <1>2, <1>4, <1>5, NullState DEF NodeInv, CurrentApplied, HoldsServed, DevicesHeld, OrphanLate, Current, Served, Typed, Resting, Maybe, State
<1> QED
  BY <1>0, <1>1, <1>3, <1>6, <1>7, <1>8, <1>9, <1>10, AloneInv DEF NodeInv

\* What is served now.
LEMMA PullInv ==
  ASSUME ApplyInv, NEW n \in Online, Pull(n)
  PROVE  ApplyInv'
<1>0. n \in Node
  BY ApplyAssumption
<1>1. Alone(n)
  BY <1>0 DEF Pull, Alone, ApplyInv, ApplyTypes, TypeOK, publishVars, topologyVars, PublishTypeOK, At, Go, Rest
<1>2. /\ UNCHANGED <<activeGen, dev, lastGood, orphan, foreign>>
      /\ agent'[n] = Resting \/ (desired[n] # NULL /\ agent'[n] = [pc |-> "activate", st |-> desired[n]])
  BY <1>0 DEF ApplyInv, ApplyTypes, TypeOK, Maybe, Pull, At, Go, Rest, Resting, NoCall
<1>3. Typed(n)'
  <2>1. Typed(n) /\ desired[n] \in Maybe(State)
    BY <1>0, NodeTypes
  <2>2. dev'[n] \subseteq Link
    BY <1>2, <2>1, StateFields, NullState DEF Typed, Maybe
  <2>3. foreign'[n] \in BOOLEAN
    BY <1>2, <2>1 DEF Typed
  <2> QED
    BY <1>2, <2>1, <2>2, <2>3, NullState, StateFields DEF Typed, Resting, NoCall, Maybe
<1>4. /\ \A g : Old(g)' <=> Old(g)
      /\ Served(n)' <=> Served(n)
      /\ desired' = desired
  BY <1>1, Unmoved
<1>5. Typed(n) /\ PublishInv /\ NodeInv(n) /\ desired[n] \in Maybe(State)
  BY <1>0, NodeTypes DEF ApplyInv
<1>6. OldNumbers(n)'
  BY <1>0, <1>2, <1>4, <1>5, ServedOld, NullState DEF NodeInv, OldNumbers, Typed, Resting, Maybe, State
<1>7. HoldsServed(n)'
  BY <1>2, <1>4, <1>5, NullState DEF NodeInv, HoldsServed, Current, Served, Typed, Resting, Maybe, State
<1>8. DevicesHeld(n)'
  BY <1>2, <1>5, NullState DEF NodeInv, DevicesHeld, OrphanLate, Typed, Resting, Maybe
<1>9. OrphanLate(n)'
  BY <1>2, <1>5, NullState DEF NodeInv, OrphanLate, Typed, Resting, NoCall, Maybe
<1>10. CurrentApplied(n)'
  BY <1>2, <1>4, <1>5, NullState DEF NodeInv, CurrentApplied, HoldsServed, DevicesHeld, OrphanLate, Current, Served, Typed, Resting, Maybe, State
<1> QED
  BY <1>0, <1>1, <1>3, <1>6, <1>7, <1>8, <1>9, <1>10, AloneInv DEF NodeInv

\* The devices of the fetched state.
LEMMA ActivateInv ==
  ASSUME ApplyInv, NEW n \in Online, Activate(n)
  PROVE  ApplyInv'
<1>0. n \in Node
  BY ApplyAssumption
<1>1. Alone(n)
  BY <1>0 DEF Activate, Alone, ApplyInv, ApplyTypes, TypeOK, publishVars, topologyVars, PublishTypeOK, At, Go, Rest, Reconciled
<1>2. /\ UNCHANGED <<activeGen, lastGood, orphan>>
      /\ agent[n].pc = "activate"
      /\ agent'[n] = [pc |-> "good", st |-> agent[n].st]
      /\ dev'[n] = agent[n].st.links
      /\ foreign'[n] = FALSE
  BY <1>0 DEF ApplyInv, ApplyTypes, TypeOK, Maybe, Activate, At, Go, Rest, Resting, NoCall, Reconciled
<1>3. Typed(n)'
  <2>1. Typed(n) /\ desired[n] \in Maybe(State)
    BY <1>0, NodeTypes
  <2>2. dev'[n] \subseteq Link
    BY <1>2, <2>1, StateFields, NullState DEF Typed, Maybe
  <2>3. foreign'[n] \in BOOLEAN
    BY <1>2, <2>1 DEF Typed
  <2> QED
    BY <1>2, <2>1, <2>2, <2>3, NullState, StateFields DEF Typed, Resting, NoCall, Maybe
<1>4. /\ \A g : Old(g)' <=> Old(g)
      /\ Served(n)' <=> Served(n)
      /\ desired' = desired
  BY <1>1, Unmoved
<1>5. Typed(n) /\ PublishInv /\ NodeInv(n) /\ desired[n] \in Maybe(State)
  BY <1>0, NodeTypes DEF ApplyInv
<1>6. OldNumbers(n)'
  BY <1>0, <1>2, <1>4, <1>5, ServedOld, NullState DEF NodeInv, OldNumbers, Typed, Resting, Maybe, State
<1>7. HoldsServed(n)'
  BY <1>2, <1>4, <1>5, NullState DEF NodeInv, HoldsServed, Current, Served, Typed, Resting, Maybe, State
<1>8. DevicesHeld(n)'
  BY <1>2, <1>5, NullState DEF NodeInv, DevicesHeld, OrphanLate, Typed, Resting, Maybe
<1>9. OrphanLate(n)'
  BY <1>2, <1>5, NullState DEF NodeInv, OrphanLate, Typed, Resting, NoCall, Maybe
<1>10. CurrentApplied(n)'
  BY <1>2, <1>4, <1>5, NullState DEF NodeInv, CurrentApplied, HoldsServed, DevicesHeld, OrphanLate, Current, Served, Typed, Resting, Maybe, State
<1> QED
  BY <1>0, <1>1, <1>3, <1>6, <1>7, <1>8, <1>9, <1>10, AloneInv DEF NodeInv

\* The state that netd would go back to.
LEMMA SetLastGoodInv ==
  ASSUME ApplyInv, NEW n \in Online, SetLastGood(n)
  PROVE  ApplyInv'
<1>0. n \in Node
  BY ApplyAssumption
<1>1. Alone(n)
  BY <1>0 DEF SetLastGood, Alone, ApplyInv, ApplyTypes, TypeOK, publishVars, topologyVars, PublishTypeOK, At, Go, Rest
<1>2. /\ UNCHANGED <<activeGen, dev, orphan, foreign>>
      /\ agent[n].pc = "good"
      /\ agent'[n] = [pc |-> "verify", st |-> agent[n].st]
      /\ lastGood'[n] = agent[n].st
  BY <1>0 DEF ApplyInv, ApplyTypes, TypeOK, Maybe, SetLastGood, At, Go, Rest, Resting, NoCall
<1>3. Typed(n)'
  <2>1. Typed(n) /\ desired[n] \in Maybe(State)
    BY <1>0, NodeTypes
  <2>2. dev'[n] \subseteq Link
    BY <1>2, <2>1, StateFields, NullState DEF Typed, Maybe
  <2>3. foreign'[n] \in BOOLEAN
    BY <1>2, <2>1 DEF Typed
  <2> QED
    BY <1>2, <2>1, <2>2, <2>3, NullState, StateFields DEF Typed, Resting, NoCall, Maybe
<1>4. /\ \A g : Old(g)' <=> Old(g)
      /\ Served(n)' <=> Served(n)
      /\ desired' = desired
  BY <1>1, Unmoved
<1>5. Typed(n) /\ PublishInv /\ NodeInv(n) /\ desired[n] \in Maybe(State)
  BY <1>0, NodeTypes DEF ApplyInv
<1>6. OldNumbers(n)'
  BY <1>0, <1>2, <1>4, <1>5, ServedOld, NullState DEF NodeInv, OldNumbers, Typed, Resting, Maybe, State
<1>7. HoldsServed(n)'
  BY <1>2, <1>4, <1>5, NullState DEF NodeInv, HoldsServed, Current, Served, Typed, Resting, Maybe, State
<1>8. DevicesHeld(n)'
  BY <1>2, <1>5, NullState DEF NodeInv, DevicesHeld, OrphanLate, Typed, Resting, Maybe
<1>9. OrphanLate(n)'
  BY <1>2, <1>5, NullState DEF NodeInv, OrphanLate, Typed, Resting, NoCall, Maybe
<1>10. CurrentApplied(n)'
  BY <1>2, <1>4, <1>5, NullState DEF NodeInv, CurrentApplied, HoldsServed, DevicesHeld, OrphanLate, Current, Served, Typed, Resting, Maybe, State
<1> QED
  BY <1>0, <1>1, <1>3, <1>6, <1>7, <1>8, <1>9, <1>10, AloneInv DEF NodeInv

\* From now on the agent reports this generation.
LEMMA VerifyInv ==
  ASSUME ApplyInv, NEW n \in Online, Verify(n)
  PROVE  ApplyInv'
<1>0. n \in Node
  BY ApplyAssumption
<1>1. Alone(n)
  BY <1>0 DEF Verify, Alone, ApplyInv, ApplyTypes, TypeOK, publishVars, topologyVars, PublishTypeOK, At, Go, Rest
<1>2. /\ UNCHANGED <<dev, lastGood, orphan, foreign>>
      /\ agent[n].pc = "verify"
      /\ agent'[n] = Resting
      /\ activeGen'[n] = agent[n].st.gen
  BY <1>0 DEF ApplyInv, ApplyTypes, TypeOK, Maybe, Verify, At, Go, Rest, Resting, NoCall
<1>3. Typed(n)'
  <2>1. Typed(n) /\ desired[n] \in Maybe(State)
    BY <1>0, NodeTypes
  <2>2. dev'[n] \subseteq Link
    BY <1>2, <2>1, StateFields, NullState DEF Typed, Maybe
  <2>3. foreign'[n] \in BOOLEAN
    BY <1>2, <2>1 DEF Typed
  <2> QED
    BY <1>2, <2>1, <2>2, <2>3, NullState, StateFields DEF Typed, Resting, NoCall, Maybe
<1>4. /\ \A g : Old(g)' <=> Old(g)
      /\ Served(n)' <=> Served(n)
      /\ desired' = desired
  BY <1>1, Unmoved
<1>5. Typed(n) /\ PublishInv /\ NodeInv(n) /\ desired[n] \in Maybe(State)
  BY <1>0, NodeTypes DEF ApplyInv
<1>6. OldNumbers(n)'
  BY <1>0, <1>2, <1>4, <1>5, ServedOld, NullState DEF NodeInv, OldNumbers, Typed, Resting, Maybe, State
<1>7. HoldsServed(n)'
  BY <1>2, <1>4, <1>5, NullState DEF NodeInv, HoldsServed, Current, Served, Typed, Resting, Maybe, State
<1>8. DevicesHeld(n)'
  BY <1>2, <1>5, NullState DEF NodeInv, DevicesHeld, OrphanLate, Typed, Resting, Maybe
<1>9. OrphanLate(n)'
  BY <1>2, <1>5, NullState DEF NodeInv, OrphanLate, Typed, Resting, NoCall, Maybe
<1>10. CurrentApplied(n)'
  BY <1>2, <1>4, <1>5, NullState DEF NodeInv, CurrentApplied, HoldsServed, DevicesHeld, OrphanLate, Current, Served, Typed, Resting, Maybe, State
<1> QED
  BY <1>0, <1>1, <1>3, <1>6, <1>7, <1>8, <1>9, <1>10, AloneInv DEF NodeInv

\* The verification fails.
LEMMA VerifyFailsInv ==
  ASSUME ApplyInv, NEW n \in Online, VerifyFails(n)
  PROVE  ApplyInv'
<1>0. n \in Node
  BY ApplyAssumption
<1>1. Alone(n)
  BY <1>0, SpendFaults DEF VerifyFails, Alone, ApplyInv, ApplyTypes, TypeOK, ControllerIdle, At, Go, Rest
<1>2. /\ UNCHANGED <<activeGen, dev, lastGood, orphan, foreign>>
      /\ agent[n].pc = "verify"
      /\ agent'[n] = [pc |-> "rollback", st |-> agent[n].st]
  BY <1>0 DEF ApplyInv, ApplyTypes, TypeOK, Maybe, VerifyFails, At, Go, Rest, Resting, NoCall
<1>3. Typed(n)'
  <2>1. Typed(n) /\ desired[n] \in Maybe(State)
    BY <1>0, NodeTypes
  <2>2. dev'[n] \subseteq Link
    BY <1>2, <2>1, StateFields, NullState DEF Typed, Maybe
  <2>3. foreign'[n] \in BOOLEAN
    BY <1>2, <2>1 DEF Typed
  <2> QED
    BY <1>2, <2>1, <2>2, <2>3, NullState, StateFields DEF Typed, Resting, NoCall, Maybe
<1>4. /\ \A g : Old(g)' <=> Old(g)
      /\ Served(n)' <=> Served(n)
      /\ desired' = desired
  BY <1>1, Unmoved
<1>5. Typed(n) /\ PublishInv /\ NodeInv(n) /\ desired[n] \in Maybe(State)
  BY <1>0, NodeTypes DEF ApplyInv
<1>6. OldNumbers(n)'
  BY <1>0, <1>2, <1>4, <1>5, ServedOld, NullState DEF NodeInv, OldNumbers, Typed, Resting, Maybe, State
<1>7. HoldsServed(n)'
  BY <1>2, <1>4, <1>5, NullState DEF NodeInv, HoldsServed, Current, Served, Typed, Resting, Maybe, State
<1>8. DevicesHeld(n)'
  BY <1>2, <1>5, NullState DEF NodeInv, DevicesHeld, OrphanLate, Typed, Resting, Maybe
<1>9. OrphanLate(n)'
  BY <1>2, <1>5, NullState DEF NodeInv, OrphanLate, Typed, Resting, NoCall, Maybe
<1>10. CurrentApplied(n)'
  BY <1>2, <1>4, <1>5, NullState DEF NodeInv, CurrentApplied, HoldsServed, DevicesHeld, OrphanLate, Current, Served, Typed, Resting, Maybe, State
<1> QED
  BY <1>0, <1>1, <1>3, <1>6, <1>7, <1>8, <1>9, <1>10, AloneInv DEF NodeInv

\* The last good state again, or part of it.
LEMMA RollbackInv ==
  ASSUME ApplyInv, NEW n \in Online, Rollback(n)
  PROVE  ApplyInv'
<1>0. n \in Node
  BY ApplyAssumption
<1>1. Alone(n)
  BY <1>0 DEF Rollback, Alone, ApplyInv, ApplyTypes, TypeOK, publishVars, topologyVars, PublishTypeOK, At, Go, Rest, Reconciled, PartlyReconciled
<1>2. /\ UNCHANGED <<activeGen, lastGood, orphan>>
      /\ agent[n].pc = "rollback"
      /\ agent'[n] = Resting
      /\ \/ lastGood[n] = NULL /\ dev'[n] = dev[n] /\ foreign'[n] = foreign[n]
         \/ /\ lastGood[n] # NULL /\ dev'[n] \subseteq lastGood[n].links
            /\ dev[n] = lastGood[n].links => dev'[n] = dev[n]
            /\ foreign'[n] <=> foreign[n] \/ lastGood[n] # agent[n].st
            /\ foreign'[n] \in BOOLEAN
  <2>1. agent[n].pc = "rollback" /\ agent'[n] = Resting /\ UNCHANGED <<activeGen, lastGood, orphan>>
    BY <1>0 DEF Rollback, At, Rest, ApplyInv, ApplyTypes, TypeOK
  <2>2. CASE lastGood[n] = NULL
    BY <1>0, <2>1, <2>2, NodeTypes DEF Rollback, Typed
  <2>3. CASE lastGood[n] # NULL
    <3>1. Reconciled(n, lastGood[n]) \/ PartlyReconciled(n, lastGood[n])
      BY <2>3 DEF Rollback
    <3>2. dev \in [Node -> SUBSET Link] /\ foreign \in [Node -> BOOLEAN]
      BY DEF ApplyInv, ApplyTypes, TypeOK
    <3>3. /\ dev'[n] \subseteq lastGood[n].links
          /\ dev[n] = lastGood[n].links => dev'[n] = dev[n]
      BY <1>0, <3>1, <3>2 DEF Reconciled, PartlyReconciled
    <3>4. foreign' = [foreign EXCEPT ![n] = @ \/ lastGood[n] # agent[n].st]
      BY <2>3 DEF Rollback
    <3>5. (foreign'[n] <=> foreign[n] \/ lastGood[n] # agent[n].st) /\ foreign'[n] \in BOOLEAN
      BY <1>0, <3>2, <3>4
    <3> QED
      BY <2>1, <2>3, <3>3, <3>5
  <2> QED
    BY <2>2, <2>3
<1>3. Typed(n)'
  <2>1. Typed(n) /\ desired[n] \in Maybe(State)
    BY <1>0, NodeTypes
  <2>2. dev'[n] \subseteq Link
    <3>1. dev'[n] = dev[n] \/ (lastGood[n] # NULL /\ dev'[n] \subseteq lastGood[n].links)
      BY <1>2
    <3>2. lastGood[n] # NULL => lastGood[n].links \subseteq Link
      BY <2>1, StateFields DEF Typed, Maybe
    <3> QED
      BY <2>1, <3>1, <3>2 DEF Typed
  <2>3. foreign'[n] \in BOOLEAN
    BY <1>2, <2>1 DEF Typed
  <2> QED
    BY <1>2, <2>1, <2>2, <2>3, NullState, StateFields DEF Typed, Resting, NoCall, Maybe
<1>4. /\ \A g : Old(g)' <=> Old(g)
      /\ Served(n)' <=> Served(n)
      /\ desired' = desired
  BY <1>1, Unmoved
<1>5. Typed(n) /\ PublishInv /\ NodeInv(n) /\ desired[n] \in Maybe(State)
  BY <1>0, NodeTypes DEF ApplyInv
<1>6. OldNumbers(n)'
  BY <1>0, <1>2, <1>4, <1>5, ServedOld, NullState DEF NodeInv, OldNumbers, Typed, Resting, Maybe, State
<1>7. HoldsServed(n)'
  BY <1>2, <1>4, <1>5, NullState DEF NodeInv, HoldsServed, Current, Served, Typed, Resting, Maybe, State
<1>8. DevicesHeld(n)'
  BY <1>2, <1>5, NullState DEF NodeInv, DevicesHeld, OrphanLate, Typed, Resting, Maybe
<1>9. OrphanLate(n)'
  BY <1>2, <1>5, NullState DEF NodeInv, OrphanLate, Typed, Resting, NoCall, Maybe
<1>10. CurrentApplied(n)'
  BY <1>2, <1>4, <1>5, NullState DEF NodeInv, CurrentApplied, HoldsServed, DevicesHeld, OrphanLate, Current, Served, Typed, Resting, Maybe, State
<1> QED
  BY <1>0, <1>1, <1>3, <1>6, <1>7, <1>8, <1>9, <1>10, AloneInv DEF NodeInv

\* The agent forgets its generation, netd goes on.
LEMMA AgentRestartInv ==
  ASSUME ApplyInv, NEW n \in Online, AgentRestart(n)
  PROVE  ApplyInv'
<1>0. n \in Node
  BY ApplyAssumption
<1>1. Alone(n)
  <2>1. TypeOK /\ PublishTypeOK
    BY DEF ApplyInv, ApplyTypes, TypeOK
  <2>2. restarts' \in [{"agent", "netd"} -> Nat]
    BY <2>1 DEF AgentRestart, TypeOK
  <2>3. agent' = [m \in Node |-> agent'[m]] /\ orphan' = [m \in Node |-> orphan'[m]]
    BY <2>1 DEF AgentRestart, TypeOK, Rest
  <2>4. /\ activeGen' = [m \in Node |-> activeGen'[m]] /\ dev' = [m \in Node |-> dev'[m]]
        /\ lastGood' = [m \in Node |-> lastGood'[m]] /\ foreign' = [m \in Node |-> foreign'[m]]
        /\ reported' \in [Node -> Maybe(Nat)] /\ used' \in [Counters -> Nat]
    BY <2>1 DEF AgentRestart, TypeOK, PublishTypeOK, publishVars
  <2>5. UNCHANGED <<alive, left, linkRow, lastGen, req, desired, unpublished, overlap, raced>>
    BY DEF AgentRestart, publishVars, topologyVars
  <2>6. \A m \in Node \ {n} :
          /\ agent'[m] = agent[m] /\ activeGen'[m] = activeGen[m] /\ dev'[m] = dev[m]
          /\ lastGood'[m] = lastGood[m] /\ orphan'[m] = orphan[m] /\ foreign'[m] = foreign[m]
    BY <1>0, <2>1 DEF AgentRestart, TypeOK, Rest
  <2> QED
    BY <2>2, <2>3, <2>4, <2>5, <2>6 DEF Alone
<1>2. /\ UNCHANGED <<dev, lastGood, foreign>>
      /\ agent'[n] = Resting
      /\ activeGen'[n] = NULL
      /\ orphan'[n] = IF agent[n].pc \in {"activate", "good"} THEN agent[n] ELSE orphan[n]
  BY <1>0 DEF ApplyInv, ApplyTypes, TypeOK, Maybe, AgentRestart, At, Go, Rest, Resting, NoCall
<1>3. Typed(n)'
  <2>1. Typed(n) /\ desired[n] \in Maybe(State)
    BY <1>0, NodeTypes
  <2>2. dev'[n] \subseteq Link
    BY <1>2, <2>1, StateFields, NullState DEF Typed, Maybe
  <2>3. foreign'[n] \in BOOLEAN
    BY <1>2, <2>1 DEF Typed
  <2> QED
    BY <1>2, <2>1, <2>2, <2>3, NullState, StateFields DEF Typed, Resting, NoCall, Maybe
<1>4. /\ \A g : Old(g)' <=> Old(g)
      /\ Served(n)' <=> Served(n)
      /\ desired' = desired
  BY <1>1, Unmoved
<1>5. Typed(n) /\ PublishInv /\ NodeInv(n) /\ desired[n] \in Maybe(State)
  BY <1>0, NodeTypes DEF ApplyInv
<1>6. OldNumbers(n)'
  BY <1>0, <1>2, <1>4, <1>5, ServedOld, NullState DEF NodeInv, OldNumbers, Typed, Resting, Maybe, State
<1>7. HoldsServed(n)'
  BY <1>2, <1>4, <1>5, NullState DEF NodeInv, HoldsServed, Current, Served, Typed, Resting, Maybe, State
<1>8. DevicesHeld(n)'
  BY <1>2, <1>5, NullState DEF NodeInv, DevicesHeld, OrphanLate, Typed, Resting, Maybe
<1>9. OrphanLate(n)'
  BY <1>2, <1>5, NullState DEF NodeInv, OrphanLate, Typed, Resting, NoCall, Maybe
<1>10. CurrentApplied(n)'
  BY <1>2, <1>4, <1>5, NullState DEF NodeInv, CurrentApplied, HoldsServed, DevicesHeld, OrphanLate, Current, Served, Typed, Resting, Maybe, State
<1> QED
  BY <1>0, <1>1, <1>3, <1>6, <1>7, <1>8, <1>9, <1>10, AloneInv DEF NodeInv

\* netd comes back empty.
LEMMA NetdRestartInv ==
  ASSUME ApplyInv, NEW n \in Online, NetdRestart(n)
  PROVE  ApplyInv'
<1>0. n \in Node
  BY ApplyAssumption
<1>1. Alone(n)
  <2>1. TypeOK /\ PublishTypeOK
    BY DEF ApplyInv, ApplyTypes, TypeOK
  <2>2. restarts' \in [{"agent", "netd"} -> Nat]
    BY <2>1 DEF NetdRestart, TypeOK
  <2>3. agent' = [m \in Node |-> agent'[m]] /\ orphan' = [m \in Node |-> orphan'[m]]
    BY <2>1 DEF NetdRestart, TypeOK, Rest
  <2>4. /\ activeGen' = [m \in Node |-> activeGen'[m]] /\ dev' = [m \in Node |-> dev'[m]]
        /\ lastGood' = [m \in Node |-> lastGood'[m]] /\ foreign' = [m \in Node |-> foreign'[m]]
        /\ reported' \in [Node -> Maybe(Nat)] /\ used' \in [Counters -> Nat]
    BY <2>1 DEF NetdRestart, TypeOK, PublishTypeOK, publishVars
  <2>5. UNCHANGED <<alive, left, linkRow, lastGen, req, desired, unpublished, overlap, raced>>
    BY DEF NetdRestart, publishVars, topologyVars
  <2>6. \A m \in Node \ {n} :
          /\ agent'[m] = agent[m] /\ activeGen'[m] = activeGen[m] /\ dev'[m] = dev[m]
          /\ lastGood'[m] = lastGood[m] /\ orphan'[m] = orphan[m] /\ foreign'[m] = foreign[m]
    BY <1>0, <2>1 DEF NetdRestart, TypeOK, Rest
  <2> QED
    BY <2>2, <2>3, <2>4, <2>5, <2>6 DEF Alone
<1>2. /\ UNCHANGED <<activeGen, foreign>>
      /\ agent'[n] = IF agent[n].pc \in {"activate", "good"} THEN Resting ELSE agent[n]
      /\ dev'[n] = {} /\ lastGood'[n] = NULL /\ orphan'[n] = NoCall
  BY <1>0 DEF ApplyInv, ApplyTypes, TypeOK, Maybe, NetdRestart, At, Go, Rest, Resting, NoCall
<1>3. Typed(n)'
  <2>1. Typed(n) /\ desired[n] \in Maybe(State)
    BY <1>0, NodeTypes
  <2>2. dev'[n] \subseteq Link
    BY <1>2, <2>1, StateFields, NullState DEF Typed, Maybe
  <2>3. foreign'[n] \in BOOLEAN
    BY <1>2, <2>1 DEF Typed
  <2> QED
    BY <1>2, <2>1, <2>2, <2>3, NullState, StateFields DEF Typed, Resting, NoCall, Maybe
<1>4. /\ \A g : Old(g)' <=> Old(g)
      /\ Served(n)' <=> Served(n)
      /\ desired' = desired
  BY <1>1, Unmoved
<1>5. Typed(n) /\ PublishInv /\ NodeInv(n) /\ desired[n] \in Maybe(State)
  BY <1>0, NodeTypes DEF ApplyInv
<1>6. OldNumbers(n)'
  BY <1>0, <1>2, <1>4, <1>5, ServedOld, NullState DEF NodeInv, OldNumbers, Typed, Resting, Maybe, State
<1>7. HoldsServed(n)'
  BY <1>2, <1>4, <1>5, NullState DEF NodeInv, HoldsServed, Current, Served, Typed, Resting, Maybe, State
<1>8. DevicesHeld(n)'
  BY <1>2, <1>5, NullState DEF NodeInv, DevicesHeld, OrphanLate, Typed, Resting, Maybe
<1>9. OrphanLate(n)'
  BY <1>2, <1>5, NullState DEF NodeInv, OrphanLate, Typed, Resting, NoCall, Maybe
<1>10. CurrentApplied(n)'
  BY <1>2, <1>4, <1>5, NullState DEF NodeInv, CurrentApplied, HoldsServed, DevicesHeld, OrphanLate, Current, Served, Typed, Resting, Maybe, State
<1> QED
  BY <1>0, <1>1, <1>3, <1>6, <1>7, <1>8, <1>9, <1>10, AloneInv DEF NodeInv

\* A left-over call changes the devices behind the agent's back.
LEMMA OrphanActivateInv ==
  ASSUME ApplyInv, NEW n \in Online, OrphanActivate(n)
  PROVE  ApplyInv'
<1>0. n \in Node
  BY ApplyAssumption
<1>1. Alone(n)
  BY <1>0 DEF OrphanActivate, Alone, ApplyInv, ApplyTypes, TypeOK, publishVars, topologyVars, PublishTypeOK, At, Go, Rest, Reconciled
<1>2. /\ UNCHANGED <<agent, activeGen, lastGood>>
      /\ orphan[n].pc = "activate"
      /\ orphan'[n] = [pc |-> "good", st |-> orphan[n].st]
      /\ dev'[n] = orphan[n].st.links
      /\ foreign'[n] = TRUE
  BY <1>0 DEF ApplyInv, ApplyTypes, TypeOK, Maybe, OrphanActivate, At, Go, Rest, Resting, NoCall, Reconciled
<1>3. Typed(n)'
  <2>1. Typed(n) /\ desired[n] \in Maybe(State)
    BY <1>0, NodeTypes
  <2>2. dev'[n] \subseteq Link
    BY <1>2, <2>1, StateFields, NullState DEF Typed, Maybe
  <2>3. foreign'[n] \in BOOLEAN
    BY <1>2, <2>1 DEF Typed
  <2> QED
    BY <1>2, <2>1, <2>2, <2>3, NullState, StateFields DEF Typed, Resting, NoCall, Maybe
<1>4. /\ \A g : Old(g)' <=> Old(g)
      /\ Served(n)' <=> Served(n)
      /\ desired' = desired
  BY <1>1, Unmoved
<1>5. Typed(n) /\ PublishInv /\ NodeInv(n) /\ desired[n] \in Maybe(State)
  BY <1>0, NodeTypes DEF ApplyInv
<1>6. OldNumbers(n)'
  BY <1>0, <1>2, <1>4, <1>5, ServedOld, NullState DEF NodeInv, OldNumbers, Typed, Resting, Maybe, State
<1>7. HoldsServed(n)'
  BY <1>2, <1>4, <1>5, NullState DEF NodeInv, HoldsServed, Current, Served, Typed, Resting, Maybe, State
<1>8. DevicesHeld(n)'
  BY <1>2, <1>5, NullState DEF NodeInv, DevicesHeld, OrphanLate, Typed, Resting, Maybe
<1>9. OrphanLate(n)'
  BY <1>2, <1>5, NullState DEF NodeInv, OrphanLate, Typed, Resting, NoCall, Maybe
<1>10. CurrentApplied(n)'
  BY <1>2, <1>4, <1>5, NullState DEF NodeInv, CurrentApplied, HoldsServed, DevicesHeld, OrphanLate, Current, Served, Typed, Resting, Maybe, State
<1> QED
  BY <1>0, <1>1, <1>3, <1>6, <1>7, <1>8, <1>9, <1>10, AloneInv DEF NodeInv

\* So does one that fails.
LEMMA OrphanActivateFailsInv ==
  ASSUME ApplyInv, NEW n \in Online, OrphanActivateFails(n)
  PROVE  ApplyInv'
<1>0. n \in Node
  BY ApplyAssumption
<1>1. Alone(n)
  BY <1>0, SpendFaults DEF OrphanActivateFails, Alone, ApplyInv, ApplyTypes, TypeOK, ControllerIdle, At, Go, Rest, PartlyReconciled
<1>2. /\ UNCHANGED <<agent, activeGen, lastGood>>
      /\ orphan[n].pc = "activate"
      /\ orphan'[n] = NoCall
      /\ dev'[n] \subseteq orphan[n].st.links
      /\ foreign'[n] = TRUE
  BY <1>0 DEF ApplyInv, ApplyTypes, TypeOK, Maybe, OrphanActivateFails, At, Go, Rest, Resting, NoCall, PartlyReconciled
<1>3. Typed(n)'
  <2>1. Typed(n) /\ desired[n] \in Maybe(State)
    BY <1>0, NodeTypes
  <2>2. dev'[n] \subseteq Link
    BY <1>2, <2>1, StateFields, NullState DEF Typed, Maybe
  <2>3. foreign'[n] \in BOOLEAN
    BY <1>2, <2>1 DEF Typed
  <2> QED
    BY <1>2, <2>1, <2>2, <2>3, NullState, StateFields DEF Typed, Resting, NoCall, Maybe
<1>4. /\ \A g : Old(g)' <=> Old(g)
      /\ Served(n)' <=> Served(n)
      /\ desired' = desired
  BY <1>1, Unmoved
<1>5. Typed(n) /\ PublishInv /\ NodeInv(n) /\ desired[n] \in Maybe(State)
  BY <1>0, NodeTypes DEF ApplyInv
<1>6. OldNumbers(n)'
  BY <1>0, <1>2, <1>4, <1>5, ServedOld, NullState DEF NodeInv, OldNumbers, Typed, Resting, Maybe, State
<1>7. HoldsServed(n)'
  BY <1>2, <1>4, <1>5, NullState DEF NodeInv, HoldsServed, Current, Served, Typed, Resting, Maybe, State
<1>8. DevicesHeld(n)'
  BY <1>2, <1>5, NullState DEF NodeInv, DevicesHeld, OrphanLate, Typed, Resting, Maybe
<1>9. OrphanLate(n)'
  BY <1>2, <1>5, NullState DEF NodeInv, OrphanLate, Typed, Resting, NoCall, Maybe
<1>10. CurrentApplied(n)'
  BY <1>2, <1>4, <1>5, NullState DEF NodeInv, CurrentApplied, HoldsServed, DevicesHeld, OrphanLate, Current, Served, Typed, Resting, Maybe, State
<1> QED
  BY <1>0, <1>1, <1>3, <1>6, <1>7, <1>8, <1>9, <1>10, AloneInv DEF NodeInv

\* A left-over call sets the last good state.
LEMMA OrphanSetLastGoodInv ==
  ASSUME ApplyInv, NEW n \in Online, OrphanSetLastGood(n)
  PROVE  ApplyInv'
<1>0. n \in Node
  BY ApplyAssumption
<1>1. Alone(n)
  BY <1>0 DEF OrphanSetLastGood, Alone, ApplyInv, ApplyTypes, TypeOK, publishVars, topologyVars, PublishTypeOK, At, Go, Rest
<1>2. /\ UNCHANGED <<agent, activeGen, dev, foreign>>
      /\ orphan[n].pc = "good"
      /\ orphan'[n] = NoCall
      /\ lastGood'[n] = orphan[n].st
  BY <1>0 DEF ApplyInv, ApplyTypes, TypeOK, Maybe, OrphanSetLastGood, At, Go, Rest, Resting, NoCall
<1>3. Typed(n)'
  <2>1. Typed(n) /\ desired[n] \in Maybe(State)
    BY <1>0, NodeTypes
  <2>2. dev'[n] \subseteq Link
    BY <1>2, <2>1, StateFields, NullState DEF Typed, Maybe
  <2>3. foreign'[n] \in BOOLEAN
    BY <1>2, <2>1 DEF Typed
  <2> QED
    BY <1>2, <2>1, <2>2, <2>3, NullState, StateFields DEF Typed, Resting, NoCall, Maybe
<1>4. /\ \A g : Old(g)' <=> Old(g)
      /\ Served(n)' <=> Served(n)
      /\ desired' = desired
  BY <1>1, Unmoved
<1>5. Typed(n) /\ PublishInv /\ NodeInv(n) /\ desired[n] \in Maybe(State)
  BY <1>0, NodeTypes DEF ApplyInv
<1>6. OldNumbers(n)'
  BY <1>0, <1>2, <1>4, <1>5, ServedOld, NullState DEF NodeInv, OldNumbers, Typed, Resting, Maybe, State
<1>7. HoldsServed(n)'
  BY <1>2, <1>4, <1>5, NullState DEF NodeInv, HoldsServed, Current, Served, Typed, Resting, Maybe, State
<1>8. DevicesHeld(n)'
  BY <1>2, <1>5, NullState DEF NodeInv, DevicesHeld, OrphanLate, Typed, Resting, Maybe
<1>9. OrphanLate(n)'
  BY <1>2, <1>5, NullState DEF NodeInv, OrphanLate, Typed, Resting, NoCall, Maybe
<1>10. CurrentApplied(n)'
  BY <1>2, <1>4, <1>5, NullState DEF NodeInv, CurrentApplied, HoldsServed, DevicesHeld, OrphanLate, Current, Served, Typed, Resting, Maybe, State
<1> QED
  BY <1>0, <1>1, <1>3, <1>6, <1>7, <1>8, <1>9, <1>10, AloneInv DEF NodeInv

-----------------------------------------------------------------------------
(* The invariant of both sides.                                            *)

\* At the start no agent holds anything.
LEMMA ApplyInitInv == Init => ApplyInv
<1> SUFFICES ASSUME Init PROVE ApplyInv
  OBVIOUS
<1>1. PublishInv
  BY InitInv DEF Init
<1>2. PublishTypeOK
  BY <1>1 DEF PublishInv
<1>3. TypeOK
  BY <1>2 DEF Init, TypeOK, Resting, NoCall, Maybe
<1>4. Fetched
  BY DEF Init, Fetched, Resting, NoCall
<1>5. ASSUME NEW n \in Node PROVE NodeInv(n)
  <2>1. /\ agent[n] = Resting /\ activeGen[n] = NULL /\ lastGood[n] = NULL
        /\ orphan[n] = NoCall
    BY DEF Init
  <2> QED
    BY <2>1 DEF NodeInv, OldNumbers, HoldsServed, DevicesHeld, OrphanLate, CurrentApplied,
       Resting, NoCall
<1> QED
  BY <1>1, <1>3, <1>4, <1>5 DEF ApplyInv, ApplyTypes

\* The controller's steps: an agent never knows the number of what is newly
\* served.
LEMMA ControllerInv ==
  ASSUME ApplyInv, PublishNext, UNCHANGED nodeVars
  PROVE  ApplyInv'
<1>1. PublishInv'
  BY NextInv DEF ApplyInv
<1>2. ApplyTypes'
  <2>1. PublishTypeOK'
    BY <1>1 DEF PublishInv
  <2> QED
    BY <2>1 DEF ApplyInv, ApplyTypes, TypeOK, Fetched, nodeVars
<1>3. ASSUME NEW n \in Node PROVE NodeInv(n)'
  <2>1. /\ \A g \in Nat : Old(g) => Old(g)'
        /\ Served(n)' =>
             \/ Served(n) /\ desired'[n] = desired[n]
             \/ \A g \in Nat : Old(g) => g # desired'[n].gen
    BY ControllerEffect DEF ApplyInv
  <2>2. /\ activeGen[n] # NULL => activeGen[n] \in Nat
        /\ agent[n].st # NULL => agent[n].st.gen \in Nat
        /\ desired'[n] # NULL => desired'[n].gen \in Nat
    BY <1>1, NodeTypes, StateFields DEF Typed, Maybe, PublishInv, PublishTypeOK
  <2>3. NodeInv(n) /\ UNCHANGED <<agent, activeGen, dev, lastGood, orphan, foreign>>
    BY DEF ApplyInv, nodeVars
  <2>4. OldNumbers(n)'
    BY <2>1, <2>2, <2>3 DEF NodeInv, OldNumbers
  <2>5. DevicesHeld(n)' /\ OrphanLate(n)'
    BY <2>3 DEF NodeInv, DevicesHeld, OrphanLate
  <2>6. Served(n)' /\ ~(Served(n) /\ desired'[n] = desired[n]) =>
          /\ activeGen[n] # desired'[n].gen
          /\ agent[n].st # NULL => agent[n].st.gen # desired'[n].gen
    <3>1. Served(n)' => desired'[n].gen # NULL
      BY <2>2, NullState DEF Served
    <3> QED
      BY <2>1, <2>2, <2>3, <3>1 DEF NodeInv, OldNumbers
  <2>7. HoldsServed(n)'
    BY <2>3, <2>6 DEF NodeInv, HoldsServed, Current
  <2>8. CurrentApplied(n)'
    BY <2>3, <2>6 DEF NodeInv, CurrentApplied, Current
  <2> QED
    BY <2>4, <2>5, <2>7, <2>8 DEF NodeInv
<1> QED
  BY <1>1, <1>2, <1>3 DEF ApplyInv

\* The invariant does not look at the history of reports.
LEMMA ApplyStutter == ApplyInv /\ UNCHANGED vars => ApplyInv'
<1> SUFFICES ASSUME ApplyInv, UNCHANGED vars PROVE ApplyInv'
  OBVIOUS
<1>1. PublishInv'
  BY Stutter DEF ApplyInv, vars
<1>2. UNCHANGED <<alive, lastGen, req, desired, overlap>> /\ UNCHANGED nodeVars
  BY DEF vars, publishVars, topologyVars
<1>3. ApplyTypes'
  BY <1>1, <1>2 DEF ApplyInv, PublishInv, ApplyTypes, TypeOK, Fetched, nodeVars
<1>4. ASSUME NEW n \in Node PROVE NodeInv(n)'
  <2>1. NodeInv(n)
    BY DEF ApplyInv
  <2> QED
    BY <1>2, <2>1 DEF NodeInv, OldNumbers, Old, HoldsServed, DevicesHeld, OrphanLate,
       CurrentApplied, Current, Served, nodeVars
<1> QED
  BY <1>1, <1>3, <1>4 DEF ApplyInv

\* Every step preserves the invariant.
LEMMA ApplyNextInv == ApplyInv /\ [Next]_vars => ApplyInv'
<1> SUFFICES ASSUME ApplyInv, Next PROVE ApplyInv'
  BY ApplyStutter
<1>1. ASSUME NEW n \in Online, Tick(n) \/ Failure(n) \/ Restart(n) \/ OrphanStep(n)
      PROVE  ApplyInv'
  <2>1. CASE Tick(n)
    BY <2>1, HeartbeatInv, PullInv, ActivateInv, SetLastGoodInv, VerifyInv, RollbackInv DEF Tick
  <2>2. CASE Failure(n)
    BY <2>2, HeartbeatLostInv, PullFailsInv, ActivateFailsInv, VerifyFailsInv,
       OrphanActivateFailsInv DEF Failure
  <2>3. CASE Restart(n) \/ OrphanStep(n)
    BY <2>3, AgentRestartInv, NetdRestartInv, OrphanActivateInv, OrphanSetLastGoodInv
    DEF Restart, OrphanStep
  <2> QED
    BY <1>1, <2>1, <2>2, <2>3
<1> QED
  BY <1>1, ControllerInv DEF Next, NodeNext

\* The invariant of the controller, the agents and netd together.
THEOREM ApplyInvariant == Spec => []ApplyInv
  BY ApplyInitInv, ApplyNextInv, PTL DEF Spec

\* The type invariant of agents and netd, with the controller's.
THEOREM ApplyTypeCorrect == Spec => []TypeOK
<1>1. ApplyInv => TypeOK
  BY DEF ApplyInv, ApplyTypes
<1> QED
  BY <1>1, ApplyInvariant, PTL

\* What a node reports is what its devices are, for any number of overlapping
\* requests, failures and restarts.
THEOREM ReportedCorrect == Spec => []ReportedIsApplied
<1>1. ASSUME ApplyInv PROVE ReportedIsApplied
  <2>1. ASSUME NEW n \in Online \cap alive,
               desired[n] # NULL, activeGen[n] = desired[n].gen, activeGen[n] > 1,
               overlap = "none", lastGood[n] # NULL, ~foreign[n]
        PROVE  dev[n] = desired[n].links
    <3>1. n \in Node
      BY ApplyAssumption
    <3> QED
      BY <1>1, <2>1, <3>1 DEF ApplyInv, NodeInv, CurrentApplied, Current, Served
  <2> QED
    BY <2>1 DEF ReportedIsApplied
<1> QED
  BY <1>1, ApplyInvariant, PTL

=============================================================================
