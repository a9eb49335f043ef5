------------------------- MODULE TrafficPolicyProofs -------------------------
(***************************************************************************)
(* Proofs about TrafficPolicy, for any set of nodes and policies and paths *)
(* of any length.  The inductive invariant says of every policy, at every  *)
(* statement of its creation, which rows it already has.                   *)
(***************************************************************************)
EXTENDS TrafficPolicy, TLAPS

Asked ==
  [pc : {"unsent", "policy", "match", "hops", "done"}, path : Seq(Node),
   match : Match, config : Config, next : Nat \ {0}]

Types ==
  /\ alive \subseteq Node
  /\ policies \subseteq Policy
  /\ matches \in [Policy -> SUBSET Match] /\ configs \in [Policy -> SUBSET Config]
  /\ hops \in [Policy -> SUBSET (Nat \X Node)]
  /\ req \in [Policy -> Asked]

\* The rows of p are gone with it, and name nodes that exist.
Clean(p) ==
  /\ p \notin policies => matches[p] = {} /\ hops[p] = {} /\ configs[p] = {}
  /\ \A i \in Nat, n \in Node : <<i, n>> \in hops[p] => n \in alive

\* A policy that is listed has the rows of the statements that were executed.
Written(p) ==
  LET q == req[p] IN
  /\ q.pc \in {"unsent", "policy"} => p \notin policies
  /\ q.pc \in {"policy", "match"} => q.next = 1
  /\ q.pc = "done" => q.next > Len(q.path)
  /\ p \in policies =>
       /\ IF q.pc \in {"hops", "done"} THEN Kept(matches[p], q.match) ELSE matches[p] = {}
       /\ IF q.pc = "done" THEN Kept(configs[p], q.config) ELSE configs[p] = {}
       /\ \A i \in Nat, n \in Node :
            <<i, n>> \in hops[p] <=>
              i \in 1 .. Len(q.path) /\ i < q.next /\ n = q.path[i] /\ n \in alive

IInv == Types /\ \A p \in Policy : Clean(p) /\ Written(p)

-----------------------------------------------------------------------------

\* A path of the domain that Next draws from is a sequence of nodes.
LEMMA PathIsSeq == \A path \in Path : path \in Seq(Node) /\ Len(path) >= 2
<1> SUFFICES ASSUME NEW path \in Path
             PROVE path \in Seq(Node) /\ Len(path) >= 2
  OBVIOUS
<1>1. PICK k \in 2 .. MaxHops : path \in [1 .. k -> Node]
  BY DEF Path
<1>2. k \in Nat /\ k >= 2
  BY <1>1, PolicyAssumption
<1> QED
  BY <1>1, <1>2

\* A row as it would be kept when only the nodes of A are left.
Now(A, row) == [c \in DOMAIN row |-> IF row[c] \in A THEN row[c] ELSE NULL]

KeptIn(A, rows, row) ==
  /\ rows \in {{}, {Now(A, row)}}
  /\ Named(row) \subseteq A \cup {NULL} => rows # {}
  /\ Named(row) \subseteq Node \cup {NULL} \/ rows = {}

LEMMA KeptIsKeptIn == \A rows, row : Kept(rows, row) <=> KeptIn(alive, rows, row)
BY DEF Kept, KeptIn, Now

\* What the INSERT leaves is kept.
LEMMA Inserted ==
  ASSUME NEW A \in SUBSET Node, NEW D, NEW row \in [D -> Ref]
  PROVE  KeptIn(A, IF Named(row) \subseteq A \cup {NULL} THEN {row} ELSE {}, row)
<1>1. CASE Named(row) \subseteq A \cup {NULL}
  <2>1. \A c \in D : row[c] \in A \cup {NULL}
    BY <1>1 DEF Named
  <2>2. Now(A, row) = row
    <3>1. \A c \in D : (IF row[c] \in A THEN row[c] ELSE NULL) = row[c]
      BY <2>1
    <3> QED
      BY <3>1 DEF Now
  <2> QED
    BY <1>1, <2>2 DEF KeptIn
<1>2. CASE ~(Named(row) \subseteq A \cup {NULL})
  BY <1>2 DEF KeptIn
<1> QED
  BY <1>1, <1>2

\* What the deletion of a node leaves is kept.
LEMMA StillKept ==
  ASSUME NEW A \in SUBSET Node, NEW n \in Node, NEW D, NEW row \in [D -> Ref], NEW rows,
         KeptIn(A, rows, row)
  PROVE  KeptIn(A \ {n}, {Cleared(x, n) : x \in rows}, row)
<1>1. Cleared(Now(A, row), n) = Now(A \ {n}, row)
  <2>1. DOMAIN row = D /\ DOMAIN Now(A, row) = D
    BY DEF Now
  <2>2. n # NULL
    BY PolicyAssumption
  <2>3. \A c \in D : (IF Now(A, row)[c] = n THEN NULL ELSE Now(A, row)[c])
                       = (IF row[c] \in A \ {n} THEN row[c] ELSE NULL)
    BY <2>1, <2>2 DEF Now
  <2>4. Cleared(Now(A, row), n)
          = [c \in D |-> IF Now(A, row)[c] = n THEN NULL ELSE Now(A, row)[c]]
    BY <2>1 DEF Cleared
  <2>5. Now(A \ {n}, row) = [c \in D |-> IF row[c] \in A \ {n} THEN row[c] ELSE NULL]
    BY <2>1 DEF Now
  <2> QED
    BY <2>3, <2>4, <2>5
<1> DEFINE left == {Cleared(x, n) : x \in rows}
<1>2. rows = {} => left = {}
  OBVIOUS
<1>3. rows # {} => left = {Now(A \ {n}, row)}
  BY <1>1 DEF KeptIn
<1>4. Named(row) \subseteq (A \ {n}) \cup {NULL} => rows # {}
  BY DEF KeptIn
<1> QED
  BY <1>2, <1>3, <1>4 DEF KeptIn

LEMMA InitIInv == Init => IInv
<1> SUFFICES ASSUME Init PROVE IInv
  OBVIOUS
<1>1. << >> \in Seq(Node)
  OBVIOUS
<1>2. Unsent \in Asked
  <2>1. Unsent.match \in Match /\ Unsent.config \in Config
    BY DEF Unsent, Match, Config, Ref
  <2> QED
    BY <1>1, <2>1 DEF Unsent, Asked
<1>3. Types
  BY <1>2 DEF Init, Types
<1>4. ASSUME NEW p \in Policy PROVE Clean(p) /\ Written(p)
  <2>1. Clean(p)
    BY DEF Init, Clean
  <2>2. req[p].pc = "unsent" /\ p \notin policies
    BY DEF Init, Unsent
  <2> QED
    BY <2>1, <2>2 DEF Written
<1> QED
  BY <1>3, <1>4 DEF IInv

\* What happens to the other policies when only the rows of one change.
LEMMA Others ==
  ASSUME NEW p \in Policy, NEW r \in Policy, p # r, Clean(r) /\ Written(r),
         alive' = alive, r \in policies' <=> r \in policies,
         matches'[r] = matches[r], hops'[r] = hops[r], configs'[r] = configs[r], req'[r] = req[r]
  PROVE  (Clean(r) /\ Written(r))'
BY DEF Clean, Written, Kept

LEMMA TypesNext == Types /\ [Next]_vars => Types'
<1> SUFFICES ASSUME Types, [Next]_vars PROVE Types'
  OBVIOUS
<1> USE DEF Types
<1>1. ASSUME NEW p \in Policy, NEW path \in Path, NEW match \in Match, NEW config \in Config,
             Validate(p, path, match, config)
      PROVE  Types'
  <2> DEFINE e == [c \in {"egress"} |->
                     IF config[c] = NULL THEN path[Len(path)] ELSE config[c]]
             row == [pc |-> "policy", path |-> path, next |-> 1, match |-> match, config |-> e]
  <2>1. path \in Seq(Node) /\ Len(path) >= 2
    BY PathIsSeq
  <2>2. e \in Config
    <3>1. path[Len(path)] \in Node
      BY <2>1
    <3> QED
      BY <3>1 DEF Config, Ref
  <2>3. row \in Asked
    BY <2>1, <2>2 DEF Asked
  <2>4. req' = [req EXCEPT ![p] = row]
    BY <1>1 DEF Validate
  <2>5. req' \in [Policy -> Asked]
    BY <2>3, <2>4
  <2> QED
    BY <1>1, <2>5 DEF Validate, rowVars
<1>2. ASSUME NEW p \in Policy, CreatePolicy(p) PROVE Types'
  BY <1>2 DEF CreatePolicy, Asked
<1>3. ASSUME NEW p \in Policy, SavePolicyMatch(p) PROVE Types'
  <2>1. matches' \in [Policy -> SUBSET Match]
    BY <1>3 DEF SavePolicyMatch, Insert, Asked
  <2>2. req' \in [Policy -> Asked]
    BY <1>3 DEF SavePolicyMatch, Asked
  <2> QED
    BY <1>3, <2>1, <2>2 DEF SavePolicyMatch
<1>4. ASSUME NEW p \in Policy, SavePolicyHop(p) PROVE Types'
  <2> DEFINE q == req[p]  n == q.path[q.next]
  <2>1. q \in Asked /\ q.next \in 1 .. Len(q.path)
    BY <1>4 DEF SavePolicyHop, Asked
  <2>2. q.next \in Nat /\ n \in Node
    BY <2>1 DEF Asked
  <2>3. hops' \in [Policy -> SUBSET (Nat \X Node)]
    BY <1>4, <2>2 DEF SavePolicyHop
  <2>4. req' \in [Policy -> Asked]
    <3>1. [q EXCEPT !.next = q.next + 1] \in Asked
      <4>1. \A a \in Asked, k \in Nat \ {0} : [a EXCEPT !.next = k] \in Asked
        BY DEF Asked
      <4>2. q.next + 1 \in Nat \ {0}
        BY <2>1
      <4> QED
        BY <2>1, <4>1, <4>2
    <3>2. req' = [req EXCEPT ![p] = [q EXCEPT !.next = q.next + 1]]
      BY <1>4 DEF SavePolicyHop
    <3> QED
      BY <3>1, <3>2
  <2>5. UNCHANGED <<alive, policies, matches, configs>>
    BY <1>4 DEF SavePolicyHop
  <2> QED
    BY <2>3, <2>4, <2>5
<1>5. ASSUME NEW p \in Policy, SavePolicyConfig(p) PROVE Types'
  <2>1. configs' \in [Policy -> SUBSET Config]
    BY <1>5 DEF SavePolicyConfig, Insert, Asked
  <2>2. req' \in [Policy -> Asked]
    BY <1>5 DEF SavePolicyConfig, Asked
  <2> QED
    BY <1>5, <2>1, <2>2 DEF SavePolicyConfig
<1>6. ASSUME NEW p \in Policy, DeletePolicy(p) PROVE Types'
  BY <1>6 DEF DeletePolicy
<1>7. ASSUME NEW n \in Node, DeleteNode(n) PROVE Types'
  <2>1. \A row \in Match : Cleared(row, n) \in Match
    BY DEF Match, Ref, Cleared
  <2>2. \A row \in Config : Cleared(row, n) \in Config
    BY DEF Config, Ref, Cleared
  <2>3. matches' \in [Policy -> SUBSET Match]
    BY <1>7, <2>1 DEF DeleteNode
  <2>4. configs' \in [Policy -> SUBSET Config]
    BY <1>7, <2>2 DEF DeleteNode
  <2> QED
    BY <1>7, <2>3, <2>4 DEF DeleteNode
<1>8. ASSUME NEW l \in Pair, ChangeLink(l) PROVE Types'
  BY <1>8 DEF ChangeLink, rowVars
<1>9. CASE UNCHANGED vars
  BY <1>9 DEF vars, rowVars
<1> QED
  BY <1>1, <1>2, <1>3, <1>4, <1>5, <1>6, <1>7, <1>8, <1>9 DEF Next

LEMMA StepIInv == IInv /\ [Next]_vars => IInv'
<1> SUFFICES ASSUME IInv, [Next]_vars, Types' PROVE \A r \in Policy : (Clean(r) /\ Written(r))'
  BY TypesNext DEF IInv
<1>0. Types /\ \A r \in Policy : Clean(r) /\ Written(r)
  BY DEF IInv
<1>1. ASSUME NEW p \in Policy, NEW path \in Path, NEW match \in Match, NEW config \in Config,
             Validate(p, path, match, config), NEW r \in Policy
      PROVE  (Clean(r) /\ Written(r))'
  <2>1. CASE r = p
    <3>1. p \notin policies /\ Clean(p)
      BY <1>0, <1>1 DEF Validate, Written
    <3>2. UNCHANGED <<alive, policies, matches, hops, configs>>
      BY <1>1 DEF Validate, rowVars
    <3>3. req'[p].pc = "policy" /\ req'[p].next = 1
      BY <1>0, <1>1 DEF Validate, Types
    <3> QED
      BY <2>1, <3>1, <3>2, <3>3 DEF Clean, Written
  <2>2. CASE r # p
    BY <1>0, <1>1, <2>2, Others DEF Validate, rowVars, Types
  <2> QED
    BY <2>1, <2>2
<1>2. ASSUME NEW p \in Policy, CreatePolicy(p), NEW r \in Policy
      PROVE  (Clean(r) /\ Written(r))'
  <2>1. CASE r = p
    <3>1. p \notin policies /\ Clean(p) /\ req[p].next = 1
      BY <1>0, <1>2 DEF CreatePolicy, Written
    <3>2. req'[p].pc = "match" /\ req'[p].next = 1
      BY <1>0, <1>2, <3>1 DEF CreatePolicy, Types, Asked
    <3>3. UNCHANGED <<alive, matches, hops, configs>>
      BY <1>2 DEF CreatePolicy
    <3> QED
      BY <2>1, <3>1, <3>2, <3>3 DEF Clean, Written
  <2>2. CASE r # p
    BY <1>0, <1>2, <2>2, Others DEF CreatePolicy, Types
  <2> QED
    BY <2>1, <2>2
<1>3. ASSUME NEW p \in Policy, SavePolicyMatch(p), NEW r \in Policy
      PROVE  (Clean(r) /\ Written(r))'
  <2>1. CASE r = p
    <3> DEFINE m == req[p].match
    <3>1. UNCHANGED <<alive, policies, hops, configs>> /\ req[p].pc = "match" /\ m \in Match
      BY <1>0, <1>3 DEF SavePolicyMatch, Types, Asked
    <3>2. /\ req'[p].pc = "hops" /\ req'[p].path = req[p].path
          /\ req'[p].next = req[p].next /\ req'[p].match = m
      BY <1>0, <1>3 DEF SavePolicyMatch, Types, Asked
    <3>3. matches'[p] = IF Stored(p, Named(m)) THEN matches[p] \cup {m} ELSE matches[p]
      BY <1>0, <1>3 DEF SavePolicyMatch, Insert, Types
    <3>4. Clean(p)'
      BY <1>0, <3>1, <3>3 DEF Clean, Stored
    <3>5. ASSUME p \in policies PROVE KeptIn(alive, matches'[p], m)
      <4>1. matches'[p] = IF Named(m) \subseteq alive \cup {NULL} THEN {m} ELSE {}
        BY <1>0, <3>1, <3>3, <3>5 DEF Written, Stored
      <4>2. m \in [{"source", "destination"} -> Ref] /\ alive \in SUBSET Node
        BY <1>0, <3>1 DEF Match, Types
      <4>3. KeptIn(alive, IF Named(m) \subseteq alive \cup {NULL} THEN {m} ELSE {}, m)
        BY <4>2, Inserted
      <4> QED
        BY <4>1, <4>3
    <3>6. p \in policies => Kept(matches[p], req[p].match)'
      BY <3>1, <3>2, <3>5 DEF Kept, KeptIn, Now
    <3> QED
      BY <1>0, <2>1, <3>1, <3>2, <3>4, <3>6 DEF Written
  <2>2. CASE r # p
    BY <1>0, <1>3, <2>2, Others DEF SavePolicyMatch, Insert, Types
  <2> QED
    BY <2>1, <2>2
<1>4. ASSUME NEW p \in Policy, SavePolicyHop(p), NEW r \in Policy
      PROVE  (Clean(r) /\ Written(r))'
  <2>1. CASE r = p
    <3> DEFINE q == req[p]  n == q.path[q.next]
    <3>1. UNCHANGED <<alive, policies, matches, configs>> /\ q.pc = "hops"
      BY <1>4 DEF SavePolicyHop
    <3>2. q \in Asked /\ q.next \in 1 .. Len(q.path) /\ n \in Node
      BY <1>0, <1>4 DEF SavePolicyHop, Types, Asked
    <3>3. req'[p] = [q EXCEPT !.next = q.next + 1]
      BY <1>0, <1>4 DEF SavePolicyHop, Types
    <3>4. /\ req'[p].pc = "hops" /\ req'[p].path = q.path
          /\ req'[p].next = q.next + 1 /\ req'[p].match = q.match
      BY <3>1, <3>2, <3>3 DEF Asked
    <3>5. hops'[p] = IF Stored(p, {n}) THEN hops[p] \cup {<<q.next, n>>} ELSE hops[p]
      BY <1>0, <1>4 DEF SavePolicyHop, Types
    <3>6. Clean(p)'
      BY <1>0, <3>1, <3>2, <3>5, PolicyAssumption DEF Clean, Stored
    <3>7. ASSUME p \in policies, NEW i \in Nat, NEW m \in Node
          PROVE  <<i, m>> \in hops'[p] <=>
                   i \in 1 .. Len(q.path) /\ i < q.next + 1 /\ m = q.path[i] /\ m \in alive
      <4>1. Stored(p, {n}) <=> n \in alive
        BY <3>2, <3>7, PolicyAssumption DEF Stored
      <4>2. <<i, m>> \in hops[p] <=>
              i \in 1 .. Len(q.path) /\ i < q.next /\ m = q.path[i] /\ m \in alive
        BY <1>0, <3>7 DEF Written
      <4>3. q.next \in Nat
        BY <3>2
      <4>4. CASE i = q.next
        <5>1. <<i, m>> \notin hops[p]
          BY <4>2, <4>3, <4>4
        <5>2. <<i, m>> \in hops'[p] <=> n \in alive /\ m = n
          BY <3>5, <4>1, <4>4, <5>1
        <5> QED
          BY <3>2, <4>3, <4>4, <5>2
      <4>5. CASE i # q.next
        <5>1. <<i, m>> \in hops'[p] <=> <<i, m>> \in hops[p]
          BY <3>5, <4>5
        <5>2. i < q.next + 1 <=> i < q.next
          BY <4>3, <4>5
        <5> QED
          BY <4>2, <5>1, <5>2
      <4> QED
        BY <4>4, <4>5
    <3>8. p \in policies => Kept(matches[p], q.match) /\ configs[p] = {}
      BY <1>0, <3>1 DEF Written
    <3> QED
      BY <2>1, <3>1, <3>4, <3>6, <3>7, <3>8 DEF Written, Kept
  <2>2. CASE r # p
    BY <1>0, <1>4, <2>2, Others DEF SavePolicyHop, Types
  <2> QED
    BY <2>1, <2>2
<1>5. ASSUME NEW p \in Policy, SavePolicyConfig(p), NEW r \in Policy
      PROVE  (Clean(r) /\ Written(r))'
  <2>1. CASE r = p
    <3> DEFINE k == req[p].config
    <3>1. /\ UNCHANGED <<alive, policies, matches, hops>> /\ k \in Config
          /\ req[p].pc = "hops" /\ req[p].next > Len(req[p].path)
      BY <1>0, <1>5 DEF SavePolicyConfig, Types, Asked
    <3>2. /\ req'[p].pc = "done" /\ req'[p].path = req[p].path /\ req'[p].config = k
          /\ req'[p].next = req[p].next /\ req'[p].match = req[p].match
      BY <1>0, <1>5 DEF SavePolicyConfig, Types, Asked
    <3>3. configs'[p] = IF Stored(p, Named(k)) THEN configs[p] \cup {k} ELSE configs[p]
      BY <1>0, <1>5 DEF SavePolicyConfig, Insert, Types
    <3>4. Clean(p)'
      BY <1>0, <3>1, <3>3 DEF Clean, Stored
    <3>5. ASSUME p \in policies PROVE KeptIn(alive, configs'[p], k)
      <4>1. configs'[p] = IF Named(k) \subseteq alive \cup {NULL} THEN {k} ELSE {}
        BY <1>0, <3>1, <3>3, <3>5 DEF Written, Stored
      <4>2. k \in [{"egress"} -> Ref] /\ alive \in SUBSET Node
        BY <1>0, <3>1 DEF Config, Types
      <4>3. KeptIn(alive, IF Named(k) \subseteq alive \cup {NULL} THEN {k} ELSE {}, k)
        BY <4>2, Inserted
      <4> QED
        BY <4>1, <4>3
    <3>6. p \in policies => Kept(configs[p], req[p].config)'
      BY <3>1, <3>2, <3>5 DEF Kept, KeptIn, Now
    <3>7. p \in policies => Kept(matches[p], req[p].match)'
      BY <1>0, <3>1, <3>2 DEF Written, Kept
    <3> QED
      BY <1>0, <2>1, <3>1, <3>2, <3>4, <3>6, <3>7 DEF Written
  <2>2. CASE r # p
    BY <1>0, <1>5, <2>2, Others DEF SavePolicyConfig, Insert, Types
  <2> QED
    BY <2>1, <2>2
<1>6. ASSUME NEW p \in Policy, DeletePolicy(p), NEW r \in Policy
      PROVE  (Clean(r) /\ Written(r))'
  <2>1. CASE r = p
    <3>1. p \notin policies' /\ UNCHANGED <<alive, req>>
      BY <1>6 DEF DeletePolicy
    <3>2. matches'[p] = {} /\ hops'[p] = {} /\ configs'[p] = {}
      BY <1>0, <1>6 DEF DeletePolicy, Types
    <3> QED
      BY <1>0, <2>1, <3>1, <3>2 DEF Clean, Written
  <2>2. CASE r # p
    BY <1>0, <1>6, <2>2, Others DEF DeletePolicy, Types
  <2> QED
    BY <2>1, <2>2
<1>7. ASSUME NEW n \in Node, DeleteNode(n), NEW r \in Policy
      PROVE  (Clean(r) /\ Written(r))'
  <2>1. alive' = alive \ {n} /\ UNCHANGED <<policies, req>>
    BY <1>7 DEF DeleteNode
  <2>2. /\ matches'[r] = {Cleared(row, n) : row \in matches[r]}
        /\ configs'[r] = {Cleared(row, n) : row \in configs[r]}
    BY <1>7 DEF DeleteNode
  <2>3. hops'[r] = {h \in hops[r] : h[2] # n}
    BY <1>7 DEF DeleteNode
  <2>4. \A i \in Nat, m \in Node : <<i, m>> \in hops'[r] <=> <<i, m>> \in hops[r] /\ m # n
    BY <2>3
  <2>5. Clean(r)'
    <3>1. r \notin policies' => matches'[r] = {} /\ hops'[r] = {} /\ configs'[r] = {}
      BY <1>0, <2>1, <2>2, <2>3 DEF Clean
    <3>2. \A i \in Nat, m \in Node : <<i, m>> \in hops'[r] => m \in alive'
      BY <1>0, <2>1, <2>4 DEF Clean
    <3> QED
      BY <3>1, <3>2 DEF Clean
  <2>6. /\ alive \in SUBSET Node
        /\ req[r].match \in [{"source", "destination"} -> Ref]
        /\ req[r].config \in [{"egress"} -> Ref]
    BY <1>0 DEF Types, Asked, Match, Config
  <2>7. Kept(matches[r], req[r].match) => Kept(matches[r], req[r].match)'
    <3>1. ASSUME KeptIn(alive, matches[r], req[r].match)
          PROVE  KeptIn(alive \ {n}, {Cleared(x, n) : x \in matches[r]}, req[r].match)
      BY <2>6, <3>1, StillKept
    <3> QED
      BY <2>1, <2>2, <3>1 DEF Kept, KeptIn, Now
  <2>8. Kept(configs[r], req[r].config) => Kept(configs[r], req[r].config)'
    <3>1. ASSUME KeptIn(alive, configs[r], req[r].config)
          PROVE  KeptIn(alive \ {n}, {Cleared(x, n) : x \in configs[r]}, req[r].config)
      BY <2>6, <3>1, StillKept
    <3> QED
      BY <2>1, <2>2, <3>1 DEF Kept, KeptIn, Now
  <2>9. /\ matches[r] = {} => matches'[r] = {}
        /\ configs[r] = {} => configs'[r] = {}
    BY <2>2
  <2>10. ASSUME r \in policies, NEW i \in Nat, NEW m \in Node
         PROVE  <<i, m>> \in hops'[r] <=>
                  i \in 1 .. Len(req[r].path) /\ i < req[r].next /\ m = req[r].path[i] /\ m \in alive'
    BY <1>0, <2>1, <2>4, <2>10 DEF Written
  <2>11. Written(r)'
    BY <1>0, <2>1, <2>7, <2>8, <2>9, <2>10 DEF Written
  <2> QED
    BY <2>5, <2>11
<1>8. ASSUME NEW l \in Pair, ChangeLink(l), NEW r \in Policy
      PROVE  (Clean(r) /\ Written(r))'
  BY <1>0, <1>8 DEF ChangeLink, rowVars, Clean, Written, Kept
<1>9. ASSUME UNCHANGED vars, NEW r \in Policy
      PROVE  (Clean(r) /\ Written(r))'
  BY <1>0, <1>9 DEF vars, rowVars, Clean, Written, Kept
<1> QED
  BY <1>1, <1>2, <1>3, <1>4, <1>5, <1>6, <1>7, <1>8, <1>9 DEF Next

LEMMA IInvHolds == Spec => []IInv
<1>1. Init => IInv
  BY InitIInv
<1>2. IInv /\ [Next]_vars => IInv'
  BY StepIInv
<1> QED
  BY <1>1, <1>2, PTL DEF Spec

-----------------------------------------------------------------------------

\* No row of a policy is left behind or written after its deletion, and no row
\* names a node that is gone, for any set of nodes and any overlap of requests.
THEOREM PoliciesClean == Spec => []NoOrphans
<1>1. ASSUME IInv PROVE NoOrphans
  <2>1. \A p \in Policy : Clean(p) /\ Written(p) /\ hops[p] \subseteq Nat \X Node
    BY <1>1 DEF IInv, Types
  <2>2. ASSUME NEW rows, NEW row, rows = {} \/ Kept(rows, row), NEW x \in rows
        PROVE  Named(x) \subseteq alive \cup {NULL}
    <3>1. x = Now(alive, row)
      BY <2>2, KeptIsKeptIn DEF KeptIn
    <3> QED
      BY <3>1 DEF Named, Now
  <2>3. ASSUME NEW p \in Policy, NEW row \in matches[p] \cup configs[p]
        PROVE  Named(row) \subseteq alive \cup {NULL}
    <3>1. /\ matches[p] = {} \/ Kept(matches[p], req[p].match)
          /\ configs[p] = {} \/ Kept(configs[p], req[p].config)
      BY <2>1 DEF Clean, Written
    <3> QED
      BY <2>2, <2>3, <3>1
  <2>4. ASSUME NEW p \in Policy, NEW h \in hops[p] PROVE h[2] \in alive
    <3>1. PICK i \in Nat, n \in Node : h = <<i, n>>
      BY <2>1
    <3> QED
      BY <2>1, <2>4, <3>1 DEF Clean
  <2> QED
    BY <2>1, <2>3, <2>4 DEF NoOrphans, Clean
<1> QED
  BY <1>1, IInvHolds, PTL

\* A finished policy holds what was asked for, as far as the nodes it names exist,
\* for paths of any length and any overlap of creations, deletions of nodes and changes of links.
THEOREM PoliciesComplete == Spec => []StoredAsRequested
<1>1. ASSUME IInv PROVE StoredAsRequested
  <2> SUFFICES ASSUME NEW p \in policies, req[p].pc = "done"
      PROVE  /\ hops[p] = {<<i, req[p].path[i]>> :
                             i \in {j \in DOMAIN req[p].path : req[p].path[j] \in alive}}
             /\ Kept(matches[p], req[p].match) /\ Kept(configs[p], req[p].config)
    BY DEF StoredAsRequested
  <2> DEFINE path == req[p].path
             asked == {<<i, path[i]>> : i \in {j \in DOMAIN path : path[j] \in alive}}
  <2>1. p \in Policy /\ Types /\ Written(p)
    BY <1>1 DEF IInv, Types
  <2>2. path \in Seq(Node) /\ req[p].next \in Nat /\ hops[p] \subseteq Nat \X Node
    BY <2>1 DEF Types, Asked
  <2>3. req[p].next > Len(path) /\ DOMAIN path = 1 .. Len(path) /\ Len(path) \in Nat
    BY <2>1, <2>2 DEF Written
  <2>4. \A i \in Nat, n \in Node :
          <<i, n>> \in hops[p] <=> i \in DOMAIN path /\ n = path[i] /\ n \in alive
    <3> SUFFICES ASSUME NEW i \in Nat, NEW n \in Node
        PROVE  <<i, n>> \in hops[p] <=> i \in DOMAIN path /\ n = path[i] /\ n \in alive
      OBVIOUS
    <3>1. <<i, n>> \in hops[p] <=>
            i \in 1 .. Len(path) /\ i < req[p].next /\ n = path[i] /\ n \in alive
      BY <2>1 DEF Written
    <3>2. i \in 1 .. Len(path) => i < req[p].next
      BY <2>2, <2>3
    <3> QED
      BY <2>3, <3>1, <3>2
  <2>5. hops[p] \subseteq asked
    <3> SUFFICES ASSUME NEW h \in hops[p] PROVE h \in asked
      OBVIOUS
    <3>1. PICK i \in Nat, n \in Node : h = <<i, n>>
      BY <2>2
    <3>2. i \in DOMAIN path /\ n = path[i] /\ n \in alive
      BY <2>4, <3>1
    <3> QED
      BY <3>1, <3>2
  <2>6. asked \subseteq hops[p]
    <3> SUFFICES ASSUME NEW i \in DOMAIN path, path[i] \in alive PROVE <<i, path[i]>> \in hops[p]
      OBVIOUS
    <3>1. i \in Nat /\ path[i] \in Node
      BY <2>2, <2>3
    <3> QED
      BY <2>4, <3>1
  <2> QED
    BY <2>1, <2>5, <2>6 DEF Written
<1> QED
  BY <1>1, IInvHolds, PTL

=============================================================================
