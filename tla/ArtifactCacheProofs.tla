------------------------ MODULE ArtifactCacheProofs ------------------------
(* Proofs about ArtifactCache: the mutex of a store and the downloads into *)
(* it, what may arrive there, and what a staged node holds, for any tree,  *)
(* any files and any number of clients and restarts.                       *)
EXTENDS ArtifactCache, TLAPS

CallRow ==
  [pc: {"none", "lock", "ask", "serve", "fallback", "broken"}, file: File \cup {NULL}]

AgentRow ==
  [pc: {"idle", "next", "ask", "copy", "self"}, todo: SUBSET File, file: File \cup {NULL}]

Types ==
  /\ lock \in [Node -> Client \cup {NULL}]
  /\ call \in [Client -> CallRow]
  /\ agent \in [Node -> AgentRow]

\* m waits for a download into the store of n.
Waits(n, m) ==
  \/ Parent[m] = n /\ call[m].pc = "ask"
  \/ m = n /\ agent[n].pc = "ask"

\* Exactly the holder of the mutex waits, and the store's own request is under
\* way meanwhile.
Owned(n) ==
  /\ \A m \in Client : Waits(n, m) <=> lock[n] = m
  /\ lock[n] # NULL => call[n].pc # "none"

IInv == Types /\ \A n \in Node : Owned(n)

-----------------------------------------------------------------------------

LEMMA Clients ==
  /\ Node \subseteq Client /\ NULL \notin Client
  /\ \A m \in Client : Parent[m] # m
  BY TreeAssumption DEF Client

LEMMA Rows == NoCall \in CallRow /\ NoCall.pc = "none" /\ Rest \in AgentRow /\ Rest.pc = "idle"
  BY DEF NoCall, Rest, CallRow, AgentRow

LEMMA Initially == Init => IInv
<1> SUFFICES ASSUME Init PROVE IInv
  OBVIOUS
<1>1. Types
  BY Rows DEF Init, Types
<1>2. ASSUME NEW n \in Node PROVE Owned(n)
  BY <1>2, Clients, Rows DEF Init, Owned, Waits
<1> QED
  BY <1>1, <1>2 DEF IInv

\* A step of one client's request or of one agent that neither starts nor ends a
\* download.
LEMMA CallKeeps ==
  ASSUME IInv, NEW m \in Client, NEW c \in CallRow, call' = [call EXCEPT ![m] = c],
         call[m].pc # "ask", c.pc \notin {"ask", "none"}, UNCHANGED <<lock, agent>>
  PROVE  IInv'
<1>1. Types'
  BY DEF IInv, Types
<1>2. \A k \in Client : call'[k] = IF k = m THEN c ELSE call[k]
  BY DEF IInv, Types
<1>3. ASSUME NEW n \in Node PROVE Owned(n)'
  BY <1>2, Clients DEF IInv, Owned, Waits
<1> QED
  BY <1>1, <1>3 DEF IInv

LEMMA AgentKeeps ==
  ASSUME IInv, NEW n \in Node, NEW a \in AgentRow, agent' = [agent EXCEPT ![n] = a],
         agent[n].pc # "ask", a.pc # "ask", UNCHANGED <<lock, call>>
  PROVE  IInv'
<1>1. Types'
  BY DEF IInv, Types
<1>2. \A k \in Node : agent'[k] = IF k = n THEN a ELSE agent[k]
  BY DEF IInv, Types
<1>3. ASSUME NEW k \in Node PROVE Owned(k)'
  BY <1>2 DEF IInv, Owned, Waits
<1> QED
  BY <1>1, <1>3 DEF IInv

LEMMA AskKeeps ==
  ASSUME IInv, NEW i \in Installer, NEW f \in File, Ask(i, f)
  PROVE  IInv'
<1> DEFINE c == [pc |-> "lock", file |-> f]
<1>1. c \in CallRow /\ c.pc = "lock" /\ i \in Client
  BY DEF CallRow, Client
<1>2. call' = [call EXCEPT ![i] = c] /\ call[i].pc # "ask" /\ UNCHANGED <<lock, agent>>
  BY DEF Ask
<1> HIDE DEF c
<1> QED
  BY <1>1, <1>2, CallKeeps

LEMMA HitKeeps ==
  ASSUME IInv, NEW m \in Client, Hit(m)
  PROVE  IInv'
<1> DEFINE c(pc) == [call[m] EXCEPT !.pc = pc]
<1>1. call[m] \in CallRow /\ call[m].pc = "lock"
  BY DEF Hit, IInv, Types
<1>2. c("serve") \in CallRow /\ c("serve").pc = "serve"
      /\ c("fallback") \in CallRow /\ c("fallback").pc = "fallback"
  BY <1>1 DEF CallRow
<1>3. /\ call' = [call EXCEPT ![m] = c("serve")] \/ call' = [call EXCEPT ![m] = c("fallback")]
      /\ UNCHANGED <<lock, agent>>
  BY DEF Hit
<1> HIDE DEF c
<1> QED
  BY <1>1, <1>2, <1>3, CallKeeps

LEMMA MissKeeps ==
  ASSUME IInv, NEW m \in Client, Miss(m)
  PROVE  IInv'
<1> DEFINE p == Parent[m]
           c == [pc |-> "lock", file |-> call[m].file]
           d == [call[m] EXCEPT !.pc = "ask"]
<1>1. /\ p \in Node /\ p \in Client /\ p # m /\ lock[p] = NULL
      /\ call[p].pc = "none" /\ call[m].pc = "lock"
  BY Clients DEF Miss
<1>2. call[m] \in CallRow
  BY DEF IInv, Types
<1>3. c \in CallRow /\ d \in CallRow /\ c.pc = "lock" /\ d.pc = "ask"
  BY <1>2 DEF CallRow
<1>4. lock' = [lock EXCEPT ![p] = m] /\ UNCHANGED agent
      /\ call' = [call EXCEPT ![m].pc = "ask", ![p] = c]
  BY DEF Miss
<1>5. call' \in [Client -> CallRow]
      /\ \A k \in Client : call'[k] = IF k = m THEN d ELSE IF k = p THEN c ELSE call[k]
  BY <1>1, <1>2, <1>3, <1>4 DEF IInv, Types
<1> HIDE DEF c, d
<1>6. Types'
  BY <1>1, <1>4, <1>5 DEF IInv, Types
<1>7. ASSUME NEW n \in Node, n # p PROVE Owned(n)'
  <2>1. Owned(n) /\ lock'[n] = lock[n] /\ n \in Client
    BY <1>4, <1>7, Clients DEF IInv, Types
  <2>2. \A k \in Client : Waits(n, k)' <=> Waits(n, k)
    BY <1>1, <1>3, <1>4, <1>5, <1>7 DEF Waits
  <2>3. call[n].pc # "none" => call'[n].pc # "none"
    BY <1>3, <1>5, <2>1
  <2> QED
    BY <2>1, <2>2, <2>3 DEF Owned
<1>8. Owned(p)'
  <2>1. Owned(p) /\ lock'[p] = m
    BY <1>1, <1>4 DEF IInv, Types
  <2>2. \A k \in Client : ~Waits(p, k)
    BY <1>1, <2>1, Clients DEF Owned
  <2>3. \A k \in Client : Waits(p, k)' <=> k = m
    BY <1>1, <1>3, <1>4, <1>5, <2>2 DEF Waits
  <2>4. call'[p].pc # "none"
    BY <1>1, <1>3, <1>5
  <2> QED
    BY <2>1, <2>3, <2>4 DEF Owned
<1> QED
  BY <1>6, <1>7, <1>8 DEF IInv

\* The holder of a store's mutex stops waiting when the store's request ends.
LEMMA ReturnKeeps ==
  ASSUME IInv, NEW m \in Client, NEW ok \in BOOLEAN, EnsureReturns(m, ok),
         call[m].pc \notin {"none", "ask"}
  PROVE  IInv'
<1> DEFINE h == IF m \in Node THEN lock[m] ELSE NULL
           Ended(k) == [call[k] EXCEPT !.pc = IF ok THEN "serve" ELSE "fallback"]
<1>1. \A k \in Client : call[k] \in CallRow
  BY DEF IInv, Types
<1>2. \A k \in Client : Ended(k) \in CallRow /\ Ended(k).pc \in {"serve", "fallback"}
  BY <1>1 DEF CallRow
<1>3. call' = [k \in Client |-> IF k = m THEN NoCall ELSE IF k = h THEN Ended(k) ELSE call[k]]
  BY DEF EnsureReturns
<1> HIDE DEF Ended
<1>4. /\ call' \in [Client -> CallRow]
      /\ \A k \in Client :
           /\ k = m => call'[k].pc = "none"
           /\ k = h /\ k # m => call'[k].pc \in {"serve", "fallback"}
           /\ k # h /\ k # m => call'[k] = call[k]
  BY <1>1, <1>2, <1>3, Rows
<1>5. /\ lock' \in [Node -> Client \cup {NULL}]
      /\ \A n \in Node : lock'[n] = IF n = m THEN NULL ELSE lock[n]
  BY DEF EnsureReturns, IInv, Types
<1>6. /\ agent' \in [Node -> AgentRow]
      /\ \A n \in Node : n # m \/ h # m => agent'[n] = agent[n]
      /\ m \in Node /\ h = m => agent'[m].pc # "ask"
  <2>1. CASE m \in Node /\ h = m
    <3> DEFINE a == agent[m]
               b == IF ok THEN [a EXCEPT !.pc = "copy"]
                    ELSE IF call[m].file \in Optional
                         THEN [pc |-> "next", todo |-> a.todo \ {a.file}, file |-> NULL]
                    ELSE Rest
    <3>1. a \in AgentRow
      BY <2>1 DEF IInv, Types
    <3>2. b \in AgentRow /\ b.pc # "ask"
      <4>1. CASE ok
        BY <3>1, <4>1 DEF AgentRow
      <4>2. CASE ~ok /\ call[m].file \in Optional
        BY <3>1, <4>2 DEF AgentRow
      <4>3. CASE ~ok /\ call[m].file \notin Optional
        BY <4>3, Rows
      <4> QED
        BY <4>1, <4>2, <4>3
    <3>3. agent' = [agent EXCEPT ![m] = b]
      BY <2>1 DEF EnsureReturns
    <3> HIDE DEF b
    <3> QED
      BY <2>1, <3>2, <3>3 DEF IInv, Types
  <2>2. CASE ~(m \in Node /\ h = m)
    <3>1. agent' = agent
      BY <2>2 DEF EnsureReturns
    <3> QED
      BY <2>2, <3>1 DEF IInv, Types
  <2> QED
    BY <2>1, <2>2
<1>7. Types'
  BY <1>4, <1>5, <1>6 DEF Types
<1>8. m \in Node => \A k \in Client : Waits(m, k) <=> h = k
  BY DEF IInv, Owned
<1>9. ASSUME NEW n \in Node, n # m PROVE Owned(n)'
  <2>1. Owned(n) /\ lock'[n] = lock[n] /\ n \in Client /\ agent'[n] = agent[n]
    BY <1>5, <1>6, <1>9, Clients DEF IInv
  <2>2. ASSUME NEW k \in Client PROVE Waits(n, k)' <=> Waits(n, k)
    <3>1. k = h /\ k # m => Parent[k] # n
      BY <1>8, <1>9, Clients DEF Waits
    <3> QED
      BY <1>4, <2>1, <3>1 DEF Waits
  <2>3. call[n].pc # "none" => call'[n].pc # "none"
    BY <1>4, <1>9, <2>1
  <2> QED
    BY <2>1, <2>2, <2>3 DEF Owned
<1>10. ASSUME m \in Node PROVE Owned(m)'
  <2>1. lock'[m] = NULL
    BY <1>5, <1>10
  <2>2. ASSUME NEW k \in Client PROVE ~Waits(m, k)'
    <3>1. k # h => ~Waits(m, k)
      BY <1>8, <1>10
    <3>2. k = m => Parent[k] # m
      BY Clients
    <3> QED
      BY <1>4, <1>6, <1>10, <3>1, <3>2 DEF Waits
  <2> QED
    BY <2>1, <2>2, Clients DEF Owned
<1> QED
  BY <1>7, <1>9, <1>10 DEF IInv

LEMMA AnswerKeeps ==
  ASSUME IInv, NEW m \in Client, Serve(m) \/ Fallback(m) \/ Broken(m) \/ Disconnect(m)
  PROVE  IInv'
<1>1. call[m].pc \notin {"none", "ask"}
  BY DEF Serve, Fallback, Broken, Disconnect
<1>2. EnsureReturns(m, TRUE) \/ EnsureReturns(m, FALSE)
  BY DEF Serve, Fallback, Broken, Disconnect, Receive
<1> QED
  BY <1>1, <1>2, ReturnKeeps

LEMMA EnsureKeeps ==
  ASSUME IInv, NEW n \in Node, NEW f \in File, EnsureFile(n, f)
  PROVE  IInv'
<1>1. agent[n] \in AgentRow /\ agent[n].pc = "next" /\ lock[n] = NULL /\ n \in Client
  BY Clients DEF EnsureFile, IInv, Types
<1>2. CASE Has(cache[n][f])
  <2> DEFINE a == [agent[n] EXCEPT !.pc = "copy", !.file = f]
  <2>1. a \in AgentRow /\ a.pc = "copy"
    BY <1>1 DEF AgentRow
  <2>2. agent' = [agent EXCEPT ![n] = a] /\ UNCHANGED <<lock, call>>
    BY <1>2 DEF EnsureFile, callVars, IInv, Types
  <2> HIDE DEF a
  <2> QED
    BY <1>1, <2>1, <2>2, AgentKeeps
<1>3. CASE ~Has(cache[n][f])
  <2> DEFINE a == [agent[n] EXCEPT !.pc = "ask", !.file = f]
             c == [pc |-> "lock", file |-> f]
  <2>1. a \in AgentRow /\ a.pc = "ask" /\ c \in CallRow /\ c.pc = "lock"
    BY <1>1 DEF AgentRow, CallRow
  <2>2. /\ agent' = [agent EXCEPT ![n] = a] /\ call[n].pc = "none"
        /\ lock' = [lock EXCEPT ![n] = n] /\ call' = [call EXCEPT ![n] = c]
    BY <1>3 DEF EnsureFile, IInv, Types
  <2> HIDE DEF a, c
  <2>3. Types'
    BY <1>1, <2>1, <2>2 DEF IInv, Types
  <2>4. /\ \A k \in Client : call'[k] = IF k = n THEN c ELSE call[k]
        /\ \A k \in Node : agent'[k] = IF k = n THEN a ELSE agent[k]
        /\ \A k \in Node : lock'[k] = IF k = n THEN n ELSE lock[k]
    BY <2>2 DEF IInv, Types
  <2>5. ASSUME NEW k \in Node PROVE Owned(k)'
    BY <1>1, <2>1, <2>2, <2>4, Clients DEF IInv, Owned, Waits
  <2> QED
    BY <2>3, <2>5 DEF IInv
<1> QED
  BY <1>2, <1>3

LEMMA PrefetchKeeps ==
  ASSUME IInv, NEW n \in Node, Prefetch(n)
  PROVE  IInv'
<1> USE DEF callVars
<1>1. agent[n] \in AgentRow
  BY DEF IInv, Types
<1>2. CASE BeginPrefetch(n)
  <2> DEFINE a == [pc |-> "next", todo |-> File, file |-> NULL]
  <2>1. a \in AgentRow /\ a.pc = "next"
    BY DEF AgentRow
  <2> QED
    BY <1>2, <2>1, AgentKeeps DEF BeginPrefetch
<1>3. CASE CopyToRelease(n)
  <2> DEFINE a == [agent[n] EXCEPT !.pc = "self"]
  <2>1. a \in AgentRow /\ a.pc = "self"
    BY <1>1 DEF AgentRow
  <2>2. agent' = [agent EXCEPT ![n] = a]
    BY <1>3 DEF CopyToRelease
  <2> HIDE DEF a
  <2> QED
    BY <1>3, <2>1, <2>2, AgentKeeps DEF CopyToRelease
<1>4. CASE CopyToItself(n)
  <2> DEFINE a == [pc |-> "next", todo |-> agent[n].todo \ {agent[n].file}, file |-> NULL]
  <2>1. a \in AgentRow /\ a.pc = "next"
    BY <1>1 DEF AgentRow
  <2>2. agent' = [agent EXCEPT ![n] = a]
    BY <1>4 DEF CopyToItself
  <2> HIDE DEF a
  <2> QED
    BY <1>4, <2>1, <2>2, AgentKeeps DEF CopyToItself
<1>5. CASE ReportStaged(n)
  BY <1>5, Rows, AgentKeeps DEF ReportStaged
<1>6. ASSUME NEW f \in File, EnsureFile(n, f) PROVE IInv'
  BY <1>6, EnsureKeeps
<1> QED
  BY <1>2, <1>3, <1>4, <1>5, <1>6 DEF Prefetch

\* A restarted agent waits for nothing, and nobody waits for it.
LEMMA StartKeeps ==
  ASSUME IInv, NEW n \in Node, Start(n)
  PROVE  IInv'
<1> DEFINE Dead(m) == [call[m] EXCEPT !.pc = "broken"]
<1>1. \A m \in Client : call[m] \in CallRow /\ Dead(m) \in CallRow /\ Dead(m).pc = "broken"
  BY DEF IInv, Types, CallRow
<1>2. /\ call' = [m \in Client |-> IF Parent[m] = n /\ call[m].pc # "none"
                                   THEN Dead(m) ELSE call[m]]
      /\ lock' = [lock EXCEPT ![n] = NULL] /\ agent' = [agent EXCEPT ![n] = Rest]
  BY DEF Start
<1> HIDE DEF Dead
<1>3. Types'
  BY <1>1, <1>2, Rows DEF IInv, Types
<1>4. /\ \A m \in Client : Parent[m] # n => call'[m] = call[m]
      /\ \A m \in Client : Parent[m] = n => call'[m].pc # "ask"
      /\ \A m \in Client : call[m].pc # "none" => call'[m].pc # "none"
      /\ \A k \in Node : k # n => lock'[k] = lock[k] /\ agent'[k] = agent[k]
      /\ lock'[n] = NULL /\ agent'[n].pc # "ask"
  BY <1>1, <1>2, Rows DEF IInv, Types
<1>5. ASSUME NEW k \in Node PROVE Owned(k)'
  <2>1. CASE k = n
    BY <1>4, <2>1, Clients DEF Owned, Waits
  <2>2. CASE k # n
    BY <1>4, <2>2, Clients DEF IInv, Owned, Waits
  <2> QED
    BY <2>1, <2>2
<1> QED
  BY <1>3, <1>5 DEF IInv

\* The same of the controller, whose store never waits.
LEMMA StartControllerKeeps ==
  ASSUME IInv, StartController
  PROVE  IInv'
<1> DEFINE Dead(m) == [call[m] EXCEPT !.pc = "broken"]
<1>1. \A m \in Client : call[m] \in CallRow /\ Dead(m) \in CallRow /\ Dead(m).pc = "broken"
  BY DEF IInv, Types, CallRow
<1>2. /\ call' = [m \in Client |-> IF Parent[m] = Origin /\ call[m].pc # "none"
                                   THEN Dead(m) ELSE call[m]]
      /\ lock' = lock /\ agent' = agent
  BY DEF StartController
<1> HIDE DEF Dead
<1>3. Types'
  BY <1>1, <1>2 DEF IInv, Types
<1>4. \A m \in Client : /\ Parent[m] # Origin => call'[m] = call[m]
                        /\ call[m].pc # "none" => call'[m].pc # "none"
  BY <1>1, <1>2
<1>5. ASSUME NEW k \in Node PROVE Owned(k)'
  <2>1. Owned(k) /\ k # Origin /\ k \in Client
    BY TreeAssumption, Clients DEF IInv, Client
  <2>2. \A m \in Client : Waits(k, m)' <=> Waits(k, m)
    BY <1>2, <1>4, <2>1 DEF Waits
  <2> QED
    BY <1>2, <1>4, <2>1, <2>2 DEF Owned
<1> QED
  BY <1>3, <1>5 DEF IInv

LEMMA StepKeeps == IInv /\ [Next]_vars => IInv'
<1> SUFFICES ASSUME IInv, [Next]_vars
             PROVE  IInv'
  OBVIOUS
<1>1. ASSUME UNCHANGED <<lock, call, agent>> PROVE IInv'
  BY <1>1 DEF IInv, Types, Owned, Waits
<1>2. CASE (\E src \in Sources : CreateUpdate(src)) \/ SeedFails \/ StartJob
             \/ (\E f \in File : SeedBegins(f) \/ SeedEnds(f) \/ InstallController(f))
             \/ (\E n \in Node : Install(n)) \/ UNCHANGED vars
  BY <1>1, <1>2 DEF CreateUpdate, SeedFails, StartJob, SeedBegins, SeedEnds, InstallController,
     Install, vars, callVars
<1>3. ASSUME NEW i \in Installer, NEW f \in File, Ask(i, f) PROVE IInv'
  BY <1>3, AskKeeps
<1>4. ASSUME NEW m \in Client, Handle(m) \/ Disconnect(m) PROVE IInv'
  BY <1>4, HitKeeps, MissKeeps, AnswerKeeps DEF Handle
<1>5. ASSUME NEW n \in Node, Prefetch(n) \/ Start(n) PROVE IInv'
  BY <1>5, PrefetchKeeps, StartKeeps
<1>6. CASE StartController
  BY <1>6, StartControllerKeeps
<1> QED
  BY <1>2, <1>3, <1>4, <1>5, <1>6 DEF Next

\* At most one download into a store is under way, whoever asks for it, and its
\* mutex is held by exactly the one that waits for the answer, for every tree and
\* however requests, failures and restarts of agents overlap (Store.Ensure).
THEOREM DownloadsCorrect == Spec => []OneDownload
<1>1. IInv => OneDownload
  <2> SUFFICES ASSUME IInv, NEW n \in Node
               PROVE  /\ Waiting(n) = IF lock[n] = NULL THEN {} ELSE {lock[n]}
                      /\ lock[n] # NULL => call[n].pc # "none"
    BY DEF OneDownload
  <2>1. Waiting(n) = {m \in Client : Waits(n, m)}
    BY Clients DEF Waiting, Waits
  <2>2. lock[n] \in Client \cup {NULL} /\ Owned(n)
    BY DEF IInv, Types
  <2> QED
    BY <2>1, <2>2, Clients DEF Owned
<1> QED
  BY <1>1, Initially, StepKeeps, PTL DEF Spec

-----------------------------------------------------------------------------
(* What may arrive in a clean chain of stores.                             *)

ShapeInv == DOMAIN cache = Store /\ \A s \in Store : DOMAIN cache[s] = File

CleanFile(content) == content \in {"none", "empty", Target}

\* A step that writes one file of one store, or none.
Writes(s, f, content) ==
  cache' = [cache EXCEPT ![s][f] = content] \/ cache' = cache

LEMMA Written ==
  ASSUME ShapeInv, NEW s, NEW f, NEW content, Writes(s, f, content)
  PROVE  /\ DOMAIN cache' = Store /\ \A t \in Store : DOMAIN cache'[t] = File
         /\ \A t \in Store, g \in File :
              cache'[t][g] = cache[t][g] \/ (t = s /\ g = f /\ cache'[t][g] = content)
  BY DEF ShapeInv, Writes

LEMMA ShapeInitially == Init => ShapeInv
<1> SUFFICES ASSUME Init PROVE ShapeInv
  OBVIOUS
<1>1. DOMAIN cache = Store
  BY DEF Init
<1>2. ASSUME NEW s \in Store PROVE DOMAIN cache[s] = File
  <2>1. CASE s = Origin
    BY <2>1 DEF Init
  <2>2. CASE s # Origin
    BY <2>2 DEF Init, SeedAtStart, SeedSelf
  <2> QED
    BY <2>1, <2>2
<1> QED
  BY <1>1, <1>2 DEF ShapeInv

LEMMA Answers ==
  ASSUME NEW m \in Client, Serve(m) \/ Fallback(m) \/ Broken(m) \/ Disconnect(m)
  PROVE  /\ job' = job
         /\ \/ cache' = cache
            \/ /\ m \in Node
               /\ \/ Writes(m, call[m].file, cache[Parent[m]][call[m].file])
                  \/ FromBin(m) /\ Writes(m, call[m].file, bin[Parent[m]][call[m].file])
<1> DEFINE f == call[m].file
           p == Parent[m]
<1>0. ASSUME NEW c, Receive(m, c)
      PROVE  cache' = cache \/ (m \in Node /\ Writes(m, f, c))
  BY <1>0 DEF Receive, Writes
<1>1. CASE Serve(m)
  <2>1. job' = job /\ Receive(m, cache[p][f])
    BY <1>1 DEF Serve
  <2> QED
    BY <1>0, <2>1
<1>2. CASE Fallback(m)
  <2>1. job' = job
    BY <1>2 DEF Fallback
  <2>2. \/ Receive(m, cache[p][f])
        \/ Receive(m, bin[p][f]) /\ FromBin(m)
        \/ cache' = cache
    BY <1>2 DEF Fallback, FromBin
  <2> QED
    BY <1>0, <2>1, <2>2
<1>3. CASE Broken(m) \/ Disconnect(m)
  BY <1>3 DEF Broken, Disconnect, dirVars
<1> QED
  BY <1>1, <1>2, <1>3

\* A started store holds no file that is not empty.
LEMMA StartWrites ==
  ASSUME ShapeInv, NEW n \in Node, Start(n)
  PROVE  /\ DOMAIN cache' = Store /\ \A t \in Store : DOMAIN cache'[t] = File
         /\ \A t \in Store, g \in File :
              cache'[t][g] = cache[t][g] \/ (t = n /\ cache'[t][g] \in {"none", "empty"})
<1>1. \A dir, src : \A g \in File : SeedAtStart(dir, src)[g] \in {"none", "empty"}
  BY DEF SeedAtStart, SeedSelf
<1>2. \A dir, src : DOMAIN SeedAtStart(dir, src) = File
  BY DEF SeedAtStart, SeedSelf
<1>3. cache' = [cache EXCEPT ![n] = SeedAtStart(@, bin[n])]
  BY DEF Start
<1> QED
  BY <1>1, <1>2, <1>3 DEF ShapeInv

\* A started controller has the files of its bin/ in the origin.
LEMMA ReseedWrites ==
  ASSUME ShapeInv, StartController
  PROVE  /\ DOMAIN cache' = Store /\ \A t \in Store : DOMAIN cache'[t] = File
         /\ \A t \in Store : t # Origin => cache'[t] = cache[t]
         /\ \A g \in File : cache'[Origin][g] =
              IF bin[Origin][g] = "none" THEN cache[Origin][g] ELSE bin[Origin][g]
         /\ job = "ready" => job' = "ready"
<1>1. Origin \in Store
  BY DEF Store
<1>2. cache' = [cache EXCEPT ![Origin] = Seed(cache[Origin], bin[Origin])]
  BY DEF StartController
<1>3. job = "ready" => job' = "ready"
  BY DEF StartController
<1> QED
  BY <1>1, <1>2, <1>3 DEF ShapeInv, Seed

LEMMA OtherSteps ==
  ASSUME [Next]_vars
  PROVE  \/ cache' = cache /\ (job = "ready" => job' = "ready")
         \/ job = "seeding" /\ \E f \in File : \E c : c # "none" /\ Writes(Origin, f, c)
         \/ \E m \in Client : Serve(m) \/ Fallback(m) \/ Broken(m) \/ Disconnect(m)
         \/ job' = job /\ \E n \in Node : agent[n].pc = "self" /\ \E f : Writes(n, f, "empty")
         \/ job' = job /\ \E n \in Node : Start(n)
         \/ StartController
<1> USE DEF dirVars, callVars
<1>1. ASSUME (\E src \in Sources : CreateUpdate(src)) \/ SeedFails \/ StartJob
      PROVE  cache' = cache /\ job # "ready"
  BY <1>1 DEF CreateUpdate, SeedFails, StartJob
<1>2. ASSUME NEW f \in File, SeedBegins(f) \/ SeedEnds(f)
      PROVE  job = "seeding" /\ \E c : c # "none" /\ Writes(Origin, f, c)
  <2>1. CASE SeedBegins(f)
    <3> DEFINE c == IF cache[Origin][f] = "empty" THEN "partial" ELSE "empty"
    <3>1. c # "none"
      OBVIOUS
    <3>2. job = "seeding" /\ cache' = [cache EXCEPT ![Origin][f] = c]
      BY <2>1 DEF SeedBegins
    <3> QED
      BY <3>1, <3>2 DEF Writes
  <2>2. CASE SeedEnds(f)
    BY <2>2 DEF SeedEnds, Writes
  <2> QED
    BY <1>2, <2>1, <2>2
<1>3. ASSUME NEW n \in Node, CopyToItself(n)
      PROVE  job' = job /\ agent[n].pc = "self" /\ Writes(n, agent[n].file, "empty")
  BY <1>3 DEF CopyToItself, Writes
<1>4. ASSUME NEW n \in Node, Prefetch(n), ~CopyToItself(n)
      PROVE  UNCHANGED <<cache, job>>
  BY <1>4 DEF Prefetch, BeginPrefetch, CopyToRelease, ReportStaged, EnsureFile
<1>5. ASSUME (\E n \in Node : Install(n)) \/ (\E f \in File : InstallController(f))
      PROVE  UNCHANGED <<cache, job>>
  BY <1>5 DEF Install, InstallController
<1>6. ASSUME NEW i \in Installer, NEW f \in File, Ask(i, f)
      PROVE  UNCHANGED <<cache, job>>
  BY <1>6 DEF Ask
<1>7. ASSUME NEW m \in Client, Hit(m) \/ Miss(m)
      PROVE  UNCHANGED <<cache, job>>
  BY <1>7 DEF Hit, Miss
<1>8. ASSUME NEW n \in Node, Start(n) PROVE job' = job
  BY <1>8 DEF Start
<1>9. CASE UNCHANGED vars
  BY <1>9 DEF vars
<1> QED
  BY <1>1, <1>2, <1>3, <1>4, <1>5, <1>6, <1>7, <1>8, <1>9 DEF Next, Handle

LEMMA ShapeKept == ShapeInv /\ [Next]_vars => ShapeInv'
<1> SUFFICES ASSUME ShapeInv, [Next]_vars
             PROVE  ShapeInv'
  OBVIOUS
<1>1. CASE cache' = cache
  BY <1>1 DEF ShapeInv
<1>2. ASSUME NEW s, NEW f, NEW c, Writes(s, f, c)
      PROVE  ShapeInv'
  BY <1>2, Written DEF ShapeInv
<1>3. ASSUME NEW n \in Node, Start(n)
      PROVE  ShapeInv'
  BY <1>3, StartWrites DEF ShapeInv
<1>4. CASE StartController
  BY <1>4, ReseedWrites DEF ShapeInv
<1>5. ASSUME NEW m \in Client, Serve(m) \/ Fallback(m) \/ Broken(m) \/ Disconnect(m)
      PROVE  ShapeInv'
  BY <1>1, <1>2, <1>5, Answers
<1> QED
  BY <1>1, <1>2, <1>3, <1>4, <1>5, OtherSteps

LEMMA CleanKept ==
  ASSUME ShapeInv, [Next]_vars, NEW n \in Node, Clean(n), \A m \in Line[n] : ~FromBin(m),
         ~(StartController /\ \E f \in File : bin[Origin][f] # Target)
  PROVE  Clean(n)'
<1> DEFINE Stores == Line[n] \cup {Origin}
<1>1. /\ Stores \subseteq Store /\ Origin \notin Node /\ Node \subseteq Store
      /\ \A m \in Line[n] : m \in Node /\ Parent[m] \in Stores
  BY TreeAssumption DEF Store, Client
<1>2. job = "ready"
  BY DEF Clean
<1>3. \A m \in Stores, f \in File : CleanFile(cache[m][f])
  BY DEF Clean, CleanFile
<1>4. SUFFICES job' = "ready" /\ \A m \in Stores, f \in File : CleanFile(cache'[m][f])
  BY DEF Clean, CleanFile
<1> HIDE DEF Stores
<1>5. CASE cache' = cache /\ (job = "ready" => job' = "ready")
  BY <1>2, <1>3, <1>5
<1>6. ASSUME NEW m \in Node, NEW f, Writes(m, f, "empty"), job' = job
      PROVE  job' = "ready" /\ \A k \in Stores, g \in File : CleanFile(cache'[k][g])
  BY <1>1, <1>2, <1>3, <1>6, Written DEF CleanFile
<1>7. ASSUME NEW m \in Node, Start(m), job' = job
      PROVE  job' = "ready" /\ \A k \in Stores, g \in File : CleanFile(cache'[k][g])
  BY <1>1, <1>2, <1>3, <1>7, StartWrites DEF CleanFile
<1>8. ASSUME NEW m \in Client, Serve(m) \/ Fallback(m) \/ Broken(m) \/ Disconnect(m)
      PROVE  job' = "ready" /\ \A k \in Stores, g \in File : CleanFile(cache'[k][g])
  <2>1. /\ job' = job
        /\ \/ cache' = cache
           \/ m \in Node /\ Writes(m, call[m].file, cache[Parent[m]][call[m].file])
           \/ m \in Node /\ m \notin Line[n] /\ \E c : Writes(m, call[m].file, c)
    BY <1>8, Answers
  <2>2. ASSUME m \in Node, m \notin Line[n], NEW c, Writes(m, call[m].file, c)
        PROVE  \A k \in Stores, g \in File : CleanFile(cache'[k][g])
    <3>1. m \notin Stores
      BY <1>1, <2>2 DEF Stores
    <3> QED
      BY <1>1, <1>3, <2>2, <3>1, Written
  <2>3. ASSUME m \in Line[n], Writes(m, call[m].file, cache[Parent[m]][call[m].file])
        PROVE  \A k \in Stores, g \in File : CleanFile(cache'[k][g])
    BY <1>1, <1>3, <2>3, Written
  <2> QED
    BY <1>2, <1>3, <2>1, <2>2, <2>3
<1>9. CASE StartController
  <2>1. \A g \in File : CleanFile(bin[Origin][g])
    BY <1>9 DEF CleanFile
  <2> QED
    BY <1>1, <1>2, <1>3, <1>9, <2>1, ReseedWrites DEF Stores
<1> QED
  BY <1>2, <1>5, <1>6, <1>7, <1>8, <1>9, OtherSteps

\* Once the stores from a node up to the origin are clean they stay clean, but for
\* an answer from bin/ to the node or one above it and the start of a controller
\* that lacks the target release, for every tree and however prefetches,
\* installers, failures and restarts overlap (ServeHTTP, prefetch, Seed, New).
THEOREM CleanCorrect == Spec => StaysClean
<1>1. ShapeInv /\ [Next]_vars =>
        [\A n \in Node : Clean(n) =>
           \/ Clean(n)'
           \/ \E m \in Line[n] : FromBin(m)
           \/ StartController /\ \E f \in File : bin[Origin][f] # Target]_vars
  BY CleanKept
<1> QED
  BY <1>1, ShapeInitially, ShapeKept, PTL DEF Spec, StaysClean

-----------------------------------------------------------------------------
(* What a node has that reports Staged.                                      *)

\* The files of nested requests are the same one, and a handler that is about
\* to send a file has had it.
FileInv ==
  /\ \A m \in Client : call[m].pc # "none" => call[m].file \in File
  /\ \A m \in Client : call[m].pc = "ask" /\ Parent[m] \in Node => call[Parent[m]].file = call[m].file
  /\ \A m \in Client : call[m].pc = "serve" => cache[Parent[m]][call[m].file] # "none"
  /\ \A n \in Node : agent[n].pc = "ask" => call[n].file = agent[n].file
  /\ \A n \in Node : agent[n].pc \in {"ask", "copy", "self"} => agent[n].file \in agent[n].todo

\* A prefetch that began in a clean chain, file by file.
Ready(n) ==
  /\ n \in staged => \A f \in File \ Optional : rel[n][f] = Target
  /\ agent[n].pc # "idle" => \A f \in (File \ Optional) \ agent[n].todo : rel[n][f] = Target
  /\ agent[n].pc = "copy" => cache[n][agent[n].file] = Target
  /\ agent[n].pc = "self" => rel[n][agent[n].file] = Target

StageInv ==
  /\ DOMAIN rel = Node /\ \A n \in Node : DOMAIN rel[n] = File
  /\ fresh \subseteq Node
  /\ \A n \in staged \cap Node : agent[n].pc = "idle"
  /\ \A n \in fresh : Clean(n) /\ Ready(n)

LEMMA Contents ==
  /\ Target \notin {"none", "empty"} /\ Optional \subseteq File
  /\ \A m \in Client : Parent[m] \in Store
  /\ Node \subseteq Store /\ Origin \notin Node
  BY TreeAssumption, ReleaseAssumption DEF Store, Client

\* What a node above a fresh one, and the controller, do not do.
LEMMA FreshSteps ==
  ASSUME NEW n \in fresh'
  PROVE  /\ \A m \in Line[n] : ~FromBin(m)
         /\ ~(StartController /\ \E f \in File : bin[Origin][f] # Target)
<1>1. ASSUME NEW m \in Line[n], FromBin(m) PROVE FALSE
  BY <1>1 DEF FromBin, Fallback
<1>2. ASSUME StartController, \E f \in File : bin[Origin][f] # Target PROVE FALSE
  BY <1>2 DEF StartController
<1> QED
  BY <1>1, <1>2

LEMMA StageInitially == Init => FileInv /\ StageInv
  BY Rows, Clients DEF Init, FileInv, StageInv, NoCall, NoFiles

\* What a request brings: never nothing, and to a fresh node what lay in the store
\* above, which was not empty.
LEMMA AnswerContents ==
  ASSUME FileInv, NEW m \in Client, Serve(m) \/ Fallback(m) \/ Broken(m) \/ Disconnect(m)
  PROVE  \/ cache' = cache
         \/ /\ m \in Node
            /\ \E c : /\ c # "none" /\ Writes(m, call[m].file, c)
                      /\ m \in fresh' => c = cache[Parent[m]][call[m].file] /\ Has(c)
<1> DEFINE f == call[m].file
           p == Parent[m]
<1>0. ASSUME NEW c, Receive(m, c)
      PROVE  cache' = cache \/ (m \in Node /\ Writes(m, f, c))
  BY <1>0 DEF Receive, Writes
<1>1. CASE Serve(m)
  <2>1. cache[p][f] # "none" /\ Receive(m, cache[p][f])
    BY <1>1 DEF Serve, FileInv
  <2>2. m \in fresh' => cache[p][f] # "empty"
    BY <1>1 DEF Serve
  <2>3. m \in fresh' => Has(cache[p][f])
    BY <2>1, <2>2 DEF Has
  <2> QED
    BY <1>0, <2>1, <2>3
<1>2. CASE Fallback(m)
  <2>1. CASE Has(cache[p][f])
    <3>1. cache[p][f] # "none" /\ Receive(m, cache[p][f])
      BY <1>2, <2>1 DEF Fallback, Has
    <3> QED
      BY <1>0, <2>1, <3>1
  <2>2. CASE ~Has(cache[p][f]) /\ Has(bin[p][f])
    <3>1. bin[p][f] # "none" /\ Receive(m, bin[p][f]) /\ FromBin(m)
      BY <1>2, <2>2 DEF Fallback, FromBin, Has
    <3>2. m \in Node => m \notin fresh'
      BY <3>1, FreshSteps, TreeAssumption
    <3> QED
      BY <1>0, <3>1, <3>2
  <2>3. CASE ~Has(cache[p][f]) /\ ~Has(bin[p][f])
    BY <1>2, <2>3 DEF Fallback
  <2> QED
    BY <2>1, <2>2, <2>3
<1>3. CASE Broken(m) \/ Disconnect(m)
  BY <1>3 DEF Broken, Disconnect, dirVars
<1> QED
  BY <1>1, <1>2, <1>3

\* A file that a store has does not disappear.
LEMMA NothingVanishes ==
  ASSUME ShapeInv, FileInv, [Next]_vars, NEW s \in Store, NEW f \in File, cache[s][f] # "none"
  PROVE  cache'[s][f] # "none"
<1>1. CASE UNCHANGED cache
  BY <1>1
<1>2. ASSUME NEW t, NEW g, NEW c, Writes(t, g, c), c # "none"
      PROVE  cache'[s][f] # "none"
  BY <1>2, Written
<1>3. ASSUME NEW n \in Node, Start(n) PROVE cache'[s][f] # "none"
  <2>1. cache' = [cache EXCEPT ![n] = SeedAtStart(cache[n], bin[n])]
    BY <1>3 DEF Start
  <2>2. SeedAtStart(cache[n], bin[n])[f] = "none" => cache[n][f] = "none"
    BY DEF SeedAtStart, SeedSelf, Seed
  <2> QED
    BY <2>1, <2>2 DEF ShapeInv
<1>4. ASSUME NEW m \in Client, Serve(m) \/ Fallback(m) \/ Broken(m) \/ Disconnect(m)
      PROVE  cache'[s][f] # "none"
  BY <1>1, <1>2, <1>4, AnswerContents
<1>5. CASE StartController
  BY <1>5, ReseedWrites
<1> QED
  BY <1>1, <1>2, <1>3, <1>4, <1>5, OtherSteps

\* Requests that stay as they are, for the same file.
LEMMA CallsKeep ==
  ASSUME IInv, ShapeInv, FileInv, [Next]_vars,
         \A m \in Client : /\ call[m].pc # "none" => call'[m].file = call[m].file
                           /\ call'[m].pc # "none" => call[m].pc # "none"
                           /\ call'[m].pc = "ask" => call[m].pc = "ask"
                           /\ call'[m].pc = "serve" =>
                                call[m].pc = "serve" \/ Has(cache[Parent[m]][call[m].file]),
         \A n \in Node : /\ agent'[n].pc = "ask" => agent'[n] = agent[n]
                         /\ agent'[n].pc \in {"copy", "self"} => agent'[n].file \in agent'[n].todo
  PROVE  FileInv'
<1>1. ASSUME NEW m \in Client, call'[m].pc # "none" PROVE call'[m].file \in File
  BY <1>1 DEF FileInv
<1>2. ASSUME NEW m \in Client, call'[m].pc = "ask", Parent[m] \in Node
      PROVE  call'[Parent[m]].file = call'[m].file
  <2>1. call[m].pc = "ask" /\ Parent[m] \in Client
    BY <1>2, Clients
  <2>2. lock[Parent[m]] = m /\ call[Parent[m]].pc # "none"
    BY <1>2, <2>1, Clients DEF IInv, Owned, Waits
  <2> QED
    BY <1>2, <2>1, <2>2 DEF FileInv
<1>3. ASSUME NEW m \in Client, call'[m].pc = "serve"
      PROVE  cache'[Parent[m]][call'[m].file] # "none"
  <2>1. /\ cache[Parent[m]][call[m].file] # "none"
        /\ call[m].file \in File /\ call'[m].file = call[m].file
    BY <1>3 DEF FileInv, Has
  <2> QED
    BY <2>1, NothingVanishes, Contents
<1>4. ASSUME NEW n \in Node, agent'[n].pc = "ask" PROVE call'[n].file = agent'[n].file
  <2>1. agent[n].pc = "ask" /\ agent'[n] = agent[n] /\ n \in Client
    BY <1>4, Clients
  <2>2. call[n].pc # "none"
    BY <2>1, Clients DEF IInv, Owned, Waits
  <2> QED
    BY <2>1, <2>2 DEF FileInv
<1>5. ASSUME NEW n \in Node, agent'[n].pc \in {"ask", "copy", "self"}
      PROVE  agent'[n].file \in agent'[n].todo
  BY <1>5 DEF FileInv
<1> QED
  BY <1>1, <1>2, <1>3, <1>4, <1>5 DEF FileInv

\* A download begins, for a child or for the agent.
LEMMA DownloadFiles ==
  ASSUME IInv, ShapeInv, FileInv, [Next]_vars, NEW n \in Node, NEW f \in File,
         lock[n] = NULL, call[n].pc = "none",
         call'[n] = [pc |-> "lock", file |-> f],
         \A m \in Client \ {n} : /\ call'[m] = call[m] \/ (call'[m] = [call[m] EXCEPT !.pc = "ask"]
                                                             /\ Parent[m] = n /\ call[m].file = f
                                                             /\ call[m].pc = "lock"),
         \A k \in Node \ {n} : agent'[k] = agent[k],
         agent'[n] = agent[n] \/ agent'[n] = [agent[n] EXCEPT !.pc = "ask", !.file = f],
         f \in agent[n].todo \/ agent'[n] = agent[n]
  PROVE  FileInv'
<1>0. /\ \A m \in Client : call[m] \in CallRow
      /\ agent[n] \in AgentRow /\ n \in Client
      /\ \A m \in Client : Parent[m] = n => call[m].pc # "ask"
      /\ agent[n].pc # "ask"
  BY Clients DEF IInv, Types, Owned, Waits
<1>1. /\ call'[n].pc = "lock" /\ call'[n].file = f
      /\ \A m \in Client \ {n} : /\ call'[m].file = call[m].file
                                 /\ call'[m].pc # call[m].pc =>
                                      call'[m].pc = "ask" /\ Parent[m] = n /\ call[m].file = f
                                        /\ call[m].pc = "lock"
  <2>1. ASSUME NEW m \in Client \ {n}, call'[m] # call[m]
        PROVE  /\ call'[m].file = call[m].file /\ call'[m].pc = "ask"
               /\ Parent[m] = n /\ call[m].file = f /\ call[m].pc = "lock"
    <3>1. call[m] \in CallRow /\ call'[m] = [call[m] EXCEPT !.pc = "ask"]
      BY <1>0, <2>1
    <3>2. call'[m].file = call[m].file /\ call'[m].pc = "ask"
      BY <3>1 DEF CallRow
    <3> QED
      BY <2>1, <3>2
  <2> QED
    BY <2>1
<1>2. ASSUME NEW m \in Client, call'[m].pc # "none" PROVE call'[m].file \in File
  BY <1>1, <1>2 DEF FileInv
<1>3. ASSUME NEW m \in Client, call'[m].pc = "ask", Parent[m] \in Node
      PROVE  call'[Parent[m]].file = call'[m].file
  <2>1. m # n
    BY <1>1, <1>3
  <2>2. CASE Parent[m] = n
    <3>1. call[m].file = f
      BY <1>0, <1>1, <1>3, <2>1, <2>2
    <3> QED
      BY <1>1, <2>1, <2>2, <3>1
  <2>3. CASE Parent[m] # n
    <3>1. call[m].pc = "ask" /\ Parent[m] \in Client
      BY <1>1, <1>3, <2>1, <2>3, Clients
    <3> QED
      BY <1>1, <1>3, <2>1, <2>3, <3>1 DEF FileInv
  <2> QED
    BY <2>2, <2>3
<1>4. ASSUME NEW m \in Client, call'[m].pc = "serve"
      PROVE  cache'[Parent[m]][call'[m].file] # "none"
  <2>1. call[m].pc = "serve" /\ call'[m].file = call[m].file /\ call[m].file \in File
    BY <1>1, <1>4 DEF FileInv
  <2> QED
    BY <2>1, NothingVanishes, Contents DEF FileInv
<1>5. /\ \A k \in Node : agent'[k].pc = "ask" => call'[k].file = agent'[k].file
      /\ \A k \in Node : agent'[k].pc \in {"ask", "copy", "self"} => agent'[k].file \in agent'[k].todo
  <2>1. CASE agent'[n] = agent[n]
    BY <1>0, <1>1, <2>1, Clients DEF FileInv
  <2>2. CASE agent'[n] # agent[n]
    <3>1. agent'[n].file = f /\ agent'[n].todo = agent[n].todo
      BY <1>0, <2>2 DEF AgentRow
    <3> QED
      BY <1>1, <2>2, <3>1, Clients DEF FileInv
  <2> QED
    BY <2>1, <2>2
<1> QED
  BY <1>2, <1>3, <1>4, <1>5 DEF FileInv

\* The end of a download.
LEMMA ReturnFiles ==
  ASSUME IInv, ShapeInv, FileInv, [Next]_vars, NEW m \in Client, NEW ok \in BOOLEAN,
         EnsureReturns(m, ok), call[m].pc \notin {"none", "ask"},
         ok /\ m \in Node /\ lock[m] # NULL => cache'[m][call[m].file] # "none"
  PROVE  FileInv'
<1> DEFINE h == IF m \in Node THEN lock[m] ELSE NULL
<1>0. /\ \A k \in Client : call[k] \in CallRow
      /\ \A k \in Node : agent[k] \in AgentRow
      /\ call[m].file \in File
  BY DEF IInv, Types, FileInv
<1>1. /\ h # NULL /\ h # m => m \in Node /\ h \in Client /\ Parent[h] = m /\ call[h].pc = "ask"
      /\ \A k \in Client : Parent[k] = m /\ m \in Node /\ call[k].pc = "ask" => k = h
      /\ m \in Node /\ agent[m].pc = "ask" => h = m
      /\ m \in Node /\ h = m => agent[m].pc = "ask"
  BY Clients DEF IInv, Types, Owned, Waits
<1>2. /\ call'[m] = NoCall
      /\ \A k \in Client \ {m} :
           IF k = h THEN call'[k] = [call[k] EXCEPT !.pc = IF ok THEN "serve" ELSE "fallback"]
           ELSE call'[k] = call[k]
  BY DEF EnsureReturns
<1> HIDE DEF h
<1>3. /\ call'[m].pc = "none"
      /\ \A k \in Client \ {m} : call'[k].file = call[k].file
      /\ \A k \in Client \ {m} : k # h => call'[k] = call[k]
      /\ h \in Client \ {m} => call'[h].pc = IF ok THEN "serve" ELSE "fallback"
  <2>1. \A k \in Client \ {m} : k # h => call'[k] = call[k]
    BY <1>2
  <2>2. ASSUME h \in Client \ {m}
        PROVE  call'[h].file = call[h].file /\ call'[h].pc = IF ok THEN "serve" ELSE "fallback"
    <3>1. call[h] \in CallRow
      BY <1>0, <2>2
    <3>2. call'[h] = [call[h] EXCEPT !.pc = IF ok THEN "serve" ELSE "fallback"]
      BY <1>2, <2>2
    <3> QED
      BY <3>1, <3>2 DEF CallRow
  <2>3. call'[m].pc = "none"
    BY <1>2 DEF NoCall
  <2> QED
    BY <2>1, <2>2, <2>3
<1>4. /\ \A k \in Node \ {m} : agent'[k] = agent[k]
      /\ m \in Node /\ agent[m].pc # "ask" => agent'[m] = agent[m]
      /\ m \in Node /\ agent[m].pc = "ask" =>
           /\ agent'[m].pc \in {"copy", "next", "idle"}
           /\ agent'[m].pc = "copy" => agent'[m].file = agent[m].file /\ agent'[m].todo = agent[m].todo
  <2>1. CASE ~(m \in Node /\ h = m)
    BY <1>1, <2>1 DEF EnsureReturns, h
  <2>2. CASE m \in Node /\ h = m
    <3> DEFINE c == [agent[m] EXCEPT !.pc = "copy"]
               s == [pc |-> "next", todo |-> agent[m].todo \ {agent[m].file}, file |-> NULL]
    <3>1. agent' = [agent EXCEPT ![m] = c] \/ agent' = [agent EXCEPT ![m] = s]
          \/ agent' = [agent EXCEPT ![m] = Rest]
      BY <2>2 DEF EnsureReturns, h
    <3>2. c.pc = "copy" /\ c.file = agent[m].file /\ c.todo = agent[m].todo /\ s.pc = "next"
      BY <1>0, <2>2 DEF AgentRow
    <3> HIDE DEF c, s
    <3> QED
      BY <1>1, <2>2, <3>1, <3>2, Rows DEF IInv, Types
  <2> QED
    BY <2>1, <2>2
<1>5. ASSUME NEW k \in Client, call'[k].pc # "none" PROVE call'[k].file \in File
  <2>1. k # m /\ call[k].pc # "none"
    BY <1>1, <1>3, <1>5, Clients
  <2> QED
    BY <1>3, <2>1 DEF FileInv
<1>6. ASSUME NEW k \in Client, call'[k].pc = "ask", Parent[k] \in Node
      PROVE  call'[Parent[k]].file = call'[k].file
  <2>1. k # m /\ k # h /\ call[k].pc = "ask"
    BY <1>3, <1>6
  <2>2. Parent[k] # m /\ Parent[k] \in Client
    BY <1>1, <1>6, <2>1, Clients
  <2> QED
    BY <1>3, <1>6, <2>1, <2>2 DEF FileInv
<1>7. ASSUME NEW k \in Client, call'[k].pc = "serve"
      PROVE  cache'[Parent[k]][call'[k].file] # "none"
  <2>1. CASE k = h
    <3>1. k # m /\ ok /\ m \in Node /\ Parent[k] = m /\ call[k].pc = "ask" /\ lock[m] # NULL
      BY <1>1, <1>3, <1>7, <2>1, Clients DEF h
    <3>2. call'[k].file = call[m].file
      BY <1>3, <3>1 DEF FileInv
    <3> QED
      BY <3>1, <3>2
  <2>2. CASE k # h
    <3>1. call[k].pc = "serve" /\ call'[k].file = call[k].file /\ call[k].file \in File
      BY <1>3, <1>7, <2>2 DEF FileInv
    <3> QED
      BY <3>1, NothingVanishes, Contents DEF FileInv
  <2> QED
    BY <2>1, <2>2
<1>8. /\ \A k \in Node : agent'[k].pc = "ask" => call'[k].file = agent'[k].file
      /\ \A k \in Node : agent'[k].pc \in {"ask", "copy", "self"} => agent'[k].file \in agent'[k].todo
  BY <1>3, <1>4, Clients DEF FileInv
<1> QED
  BY <1>5, <1>6, <1>7, <1>8 DEF FileInv

LEMMA FileKept == IInv /\ ShapeInv /\ FileInv /\ [Next]_vars => FileInv'
<1> SUFFICES ASSUME IInv, ShapeInv, FileInv, [Next]_vars PROVE FileInv'
  OBVIOUS
<1>0. /\ \A m \in Client : call[m] \in CallRow
      /\ \A n \in Node : agent[n] \in AgentRow
      /\ call \in [Client -> CallRow] /\ agent \in [Node -> AgentRow]
  BY DEF IInv, Types
<1>1. ASSUME UNCHANGED <<call, agent>> PROVE FileInv'
  BY <1>1, CallsKeep DEF FileInv
<1>2. CASE (\E src \in Sources : CreateUpdate(src)) \/ SeedFails \/ StartJob
             \/ (\E f \in File : SeedBegins(f) \/ SeedEnds(f) \/ InstallController(f))
             \/ (\E n \in Node : Install(n)) \/ UNCHANGED vars
  BY <1>1, <1>2 DEF CreateUpdate, SeedFails, StartJob, SeedBegins, SeedEnds, InstallController,
     Install, vars, callVars
<1>3. ASSUME NEW i \in Installer, NEW f \in File, Ask(i, f) PROVE FileInv'
  <2>1. i \in Client /\ i \notin Node /\ call[i].pc = "none" /\ agent' = agent /\ cache' = cache
    BY <1>3, TreeAssumption DEF Ask, Client, dirVars
  <2>2. call' = [call EXCEPT ![i] = [pc |-> "lock", file |-> f]]
    BY <1>3 DEF Ask
  <2>3. \A m \in Client : call'[m] = IF m = i THEN [pc |-> "lock", file |-> f] ELSE call[m]
    BY <1>0, <2>2
  <2> QED
    BY <2>1, <2>3, Clients DEF FileInv
<1>4. ASSUME NEW m \in Client, Hit(m) PROVE FileInv'
  <2>1. call[m].pc = "lock" /\ agent' = agent
    BY <1>4 DEF Hit
  <2>2. PICK pc \in {"serve", "fallback"} :
          /\ call' = [call EXCEPT ![m].pc = pc]
          /\ pc = "serve" => Has(cache[Parent[m]][call[m].file])
    BY <1>4 DEF Hit
  <2>3. call'[m].pc = pc /\ call'[m].file = call[m].file
        /\ \A k \in Client \ {m} : call'[k] = call[k]
    BY <1>0, <2>2 DEF CallRow
  <2> QED
    BY <2>1, <2>2, <2>3, CallsKeep DEF FileInv
<1>5. ASSUME NEW m \in Client, Miss(m) PROVE FileInv'
  <2> DEFINE p == Parent[m]
             f == call[m].file
  <2>1. /\ p \in Node /\ p # m /\ p \in Client /\ lock[p] = NULL /\ call[p].pc = "none"
        /\ call[m].pc = "lock" /\ agent' = agent /\ f \in File
    BY <1>5, Clients DEF Miss, FileInv
  <2>2. call' = [call EXCEPT ![m].pc = "ask", ![p] = [pc |-> "lock", file |-> f]]
    BY <1>5 DEF Miss
  <2>3. /\ call'[p] = [pc |-> "lock", file |-> f]
        /\ call'[m] = [call[m] EXCEPT !.pc = "ask"]
        /\ \A k \in Client \ {p, m} : call'[k] = call[k]
    BY <1>0, <2>1, <2>2
  <2> HIDE DEF f
  <2>4. \A k \in Client \ {p} :
          call'[k] = call[k] \/ (call'[k] = [call[k] EXCEPT !.pc = "ask"]
                                   /\ Parent[k] = p /\ call[k].file = f /\ call[k].pc = "lock")
    BY <2>1, <2>3 DEF f
  <2> QED
    BY <2>1, <2>3, <2>4, DownloadFiles
<1>6. ASSUME NEW m \in Client, Serve(m) \/ Fallback(m) \/ Broken(m) \/ Disconnect(m) PROVE FileInv'
  <2>1. call[m].pc \notin {"none", "ask"}
    BY <1>6 DEF Serve, Fallback, Broken, Disconnect
  <2>2. CASE EnsureReturns(m, FALSE)
    BY <2>1, <2>2, ReturnFiles
  <2>3. ASSUME NEW c, Receive(m, c), c # "none" PROVE FileInv'
    <3>1. EnsureReturns(m, TRUE) /\ call[m].file \in File
      BY <2>1, <2>3 DEF Receive, FileInv
    <3>2. m \in Node /\ lock[m] # NULL => cache'[m][call[m].file] # "none"
      BY <2>3, <3>1, Contents DEF Receive, ShapeInv
    <3> QED
      BY <2>1, <3>1, <3>2, ReturnFiles
  <2>4. CASE Serve(m)
    BY <2>3, <2>4 DEF Serve, FileInv
  <2>5. CASE Fallback(m)
    BY <2>2, <2>3, <2>5 DEF Fallback, Has
  <2> QED
    BY <1>6, <2>2, <2>4, <2>5 DEF Broken, Disconnect
<1>7. ASSUME NEW n \in Node, NEW f \in File, EnsureFile(n, f) PROVE FileInv'
  <2>1. agent[n].pc = "next" /\ f \in agent[n].todo /\ lock[n] = NULL
    BY <1>7 DEF EnsureFile
  <2>2. CASE Has(cache[n][f])
    <3>1. agent' = [agent EXCEPT ![n].pc = "copy", ![n].file = f] /\ call' = call
      BY <1>7, <2>2 DEF EnsureFile, callVars
    <3>2. /\ agent'[n].pc = "copy" /\ agent'[n].file = f /\ agent'[n].todo = agent[n].todo
          /\ \A k \in Node \ {n} : agent'[k] = agent[k]
      BY <1>0, <3>1 DEF AgentRow
    <3> QED
      BY <2>1, <3>1, <3>2, CallsKeep DEF FileInv
  <2>3. CASE ~Has(cache[n][f])
    <3>1. /\ call[n].pc = "none"
          /\ call' = [call EXCEPT ![n] = [pc |-> "lock", file |-> f]]
          /\ agent' = [agent EXCEPT ![n].pc = "ask", ![n].file = f]
      BY <1>7, <2>3 DEF EnsureFile
    <3>2. /\ call'[n] = [pc |-> "lock", file |-> f]
          /\ \A k \in Client \ {n} : call'[k] = call[k]
          /\ agent'[n] = [agent[n] EXCEPT !.pc = "ask", !.file = f]
          /\ \A k \in Node \ {n} : agent'[k] = agent[k]
      BY <1>0, <3>1, Clients
    <3> QED
      BY <2>1, <3>1, <3>2, DownloadFiles
  <2> QED
    BY <2>2, <2>3
<1>8. ASSUME NEW n \in Node, BeginPrefetch(n) \/ CopyToRelease(n) \/ CopyToItself(n) \/ ReportStaged(n)
      PROVE  FileInv'
  <2>1. call' = call
    BY <1>8 DEF BeginPrefetch, CopyToRelease, CopyToItself, ReportStaged, callVars
  <2>2. /\ \A k \in Node \ {n} : agent'[k] = agent[k]
        /\ agent'[n].pc # "ask"
        /\ agent'[n].pc \in {"copy", "self"} => agent'[n].file \in agent'[n].todo
    <3>1. CASE CopyToRelease(n)
      <4>1. agent' = [agent EXCEPT ![n].pc = "self"] /\ agent[n].pc = "copy"
        BY <3>1 DEF CopyToRelease
      <4>2. agent'[n].pc = "self" /\ agent'[n].file = agent[n].file /\ agent'[n].todo = agent[n].todo
        BY <1>0, <4>1 DEF AgentRow
      <4> QED
        BY <1>0, <4>1, <4>2 DEF FileInv
    <3>2. CASE BeginPrefetch(n) \/ CopyToItself(n) \/ ReportStaged(n)
      <4>1. PICK a : agent' = [agent EXCEPT ![n] = a] /\ a.pc \in {"next", "idle"}
        BY <3>2, Rows DEF BeginPrefetch, CopyToItself, ReportStaged
      <4> QED
        BY <1>0, <4>1
    <3> QED
      BY <1>8, <3>1, <3>2
  <2> QED
    BY <2>1, <2>2, CallsKeep DEF FileInv
<1>9. ASSUME NEW n \in Node, Start(n) PROVE FileInv'
  <2>1. /\ call' = [m \in Client |-> IF Parent[m] = n /\ call[m].pc # "none"
                                     THEN [call[m] EXCEPT !.pc = "broken"] ELSE call[m]]
        /\ agent' = [agent EXCEPT ![n] = Rest]
    BY <1>9 DEF Start
  <2>2. ASSUME NEW m \in Client
        PROVE  /\ call'[m].file = call[m].file
               /\ call'[m] = call[m] \/ (call'[m].pc = "broken" /\ call[m].pc # "none")
    <3>1. CASE Parent[m] = n /\ call[m].pc # "none"
      <4>1. call[m] \in CallRow /\ call'[m] = [call[m] EXCEPT !.pc = "broken"]
        BY <1>0, <2>1, <3>1
      <4> QED
        BY <3>1, <4>1 DEF CallRow
    <3>2. CASE ~(Parent[m] = n /\ call[m].pc # "none")
      BY <2>1, <3>2
    <3> QED
      BY <3>1, <3>2
  <2>3. agent'[n] = Rest /\ \A k \in Node \ {n} : agent'[k] = agent[k]
    BY <1>0, <2>1
  <2> QED
    BY <2>2, <2>3, Rows, CallsKeep DEF FileInv
<1>10. CASE StartController
  <2>1. /\ call' = [m \in Client |-> IF Parent[m] = Origin /\ call[m].pc # "none"
                                     THEN [call[m] EXCEPT !.pc = "broken"] ELSE call[m]]
        /\ agent' = agent
    BY <1>10 DEF StartController
  <2>2. ASSUME NEW m \in Client
        PROVE  /\ call'[m].file = call[m].file
               /\ call'[m] = call[m] \/ (call'[m].pc = "broken" /\ call[m].pc # "none")
    <3>1. CASE Parent[m] = Origin /\ call[m].pc # "none"
      <4>1. call[m] \in CallRow /\ call'[m] = [call[m] EXCEPT !.pc = "broken"]
        BY <1>0, <2>1, <3>1
      <4> QED
        BY <3>1, <4>1 DEF CallRow
    <3>2. CASE ~(Parent[m] = Origin /\ call[m].pc # "none")
      BY <2>1, <3>2
    <3> QED
      BY <3>1, <3>2
  <2> QED
    BY <2>1, <2>2, CallsKeep DEF FileInv
<1> QED
  BY <1>2, <1>3, <1>4, <1>5, <1>6, <1>7, <1>8, <1>9, <1>10 DEF Next, Handle, Prefetch

-----------------------------------------------------------------------------

\* A file that a prefetch is about to copy stays the target's.
LEMMA CopyStays ==
  ASSUME IInv, ShapeInv, FileInv, [Next]_vars, NEW n \in Node, n \in fresh', Clean(n),
         agent[n].pc = "copy", agent'[n].pc = "copy", NEW f \in File, cache[n][f] = Target
  PROVE  cache'[n][f] = Target
<1>1. Node \subseteq Store /\ Origin \notin Node /\ Origin \in Store /\ n \in Line[n]
      /\ Parent[n] \in Line[n] \cup {Origin} /\ Line[n] \subseteq Node
  BY TreeAssumption DEF Store, Client
<1>2. CASE UNCHANGED cache
  BY <1>2
<1>3. ASSUME NEW s \in Store, NEW g, NEW c, Writes(s, g, c), s # n
      PROVE  cache'[n][f] = Target
  BY <1>1, <1>3, Written
<1>4. ASSUME NEW m \in Client, Serve(m) \/ Fallback(m) \/ Broken(m) \/ Disconnect(m)
      PROVE  cache'[n][f] = Target
  <2>1. CASE cache' = cache
    BY <2>1
  <2>2. ASSUME m \in Node, NEW c, Writes(m, call[m].file, c),
               m \in fresh' => c = cache[Parent[m]][call[m].file] /\ Has(c)
        PROVE  cache'[n][f] = Target
    <3>1. CASE m # n
      BY <1>1, <1>3, <2>2, <3>1
    <3>2. CASE m = n
      <4>1. call[m].file \in File
        BY <1>4 DEF Serve, Fallback, Broken, Disconnect, FileInv
      <4>2. c = Target
        BY <1>1, <2>2, <3>2, <4>1 DEF Clean, Has
      <4> QED
        BY <1>1, <2>2, <3>2, <4>2, Written
    <3> QED
      BY <3>1, <3>2
  <2> QED
    BY <1>4, <2>1, <2>2, AnswerContents
<1>5. ASSUME NEW k \in Node, Start(k) PROVE cache'[n][f] = Target
  <2>1. k # n
    BY <1>5, Rows DEF Start, IInv, Types
  <2> QED
    BY <1>1, <1>5, <2>1, StartWrites, Contents
<1>6. ASSUME NEW k \in Node, agent[k].pc = "self", NEW g, Writes(k, g, "empty")
      PROVE  cache'[n][f] = Target
  BY <1>1, <1>3, <1>6
<1>7. CASE StartController
  BY <1>1, <1>7, ReseedWrites
<1> QED
  BY <1>1, <1>2, <1>3, <1>4, <1>5, <1>6, <1>7, OtherSteps

\* A prefetch that is left alone.
LEMMA ReadyStays ==
  ASSUME IInv, ShapeInv, FileInv, [Next]_vars, NEW n \in Node, n \in fresh', Clean(n), Ready(n),
         agent'[n] = agent[n] \/ agent'[n].pc = "idle",
         rel'[n] = rel[n], n \in staged' => n \in staged
  PROVE  Ready(n)'
<1>1. CASE agent'[n] = agent[n]
  <2>1. ASSUME agent[n].pc = "copy" PROVE cache'[n][agent[n].file] = Target
    <3>1. agent[n].file \in File /\ cache[n][agent[n].file] = Target
      BY <2>1 DEF FileInv, Ready, IInv, Types, AgentRow
    <3> QED
      BY <1>1, <2>1, <3>1, CopyStays
  <2> QED
    BY <1>1, <2>1 DEF Ready
<1>2. CASE agent'[n].pc = "idle"
  BY <1>2 DEF Ready
<1> QED
  BY <1>1, <1>2

\* What the steps of one agent do to prefetches.
LEMMA OthersStay ==
  ASSUME IInv, StageInv, NEW n \in Node, Prefetch(n)
  PROVE  \A k \in Node \ {n} : agent'[k] = agent[k] /\ rel'[k] = rel[k] /\ (k \in staged' <=> k \in staged)
<1> USE DEF dirVars, IInv, Types
<1>1. CASE BeginPrefetch(n)
  BY <1>1 DEF BeginPrefetch
<1>2. CASE CopyToRelease(n)
  BY <1>2 DEF CopyToRelease
<1>3. CASE CopyToItself(n)
  BY <1>3 DEF CopyToItself
<1>4. CASE ReportStaged(n)
  BY <1>4 DEF ReportStaged
<1>5. ASSUME NEW f \in File, EnsureFile(n, f)
      PROVE  \A k \in Node \ {n} : agent'[k] = agent[k] /\ rel'[k] = rel[k] /\ (k \in staged' <=> k \in staged)
  <2>1. \E a : agent' = [agent EXCEPT ![n] = a]
    <3>1. CASE Has(cache[n][f])
      BY <1>5, <3>1 DEF EnsureFile
    <3>2. CASE ~Has(cache[n][f])
      BY <1>5, <3>2 DEF EnsureFile
    <3> QED
      BY <3>1, <3>2
  <2>2. rel' = rel /\ staged' = staged
    BY <1>5 DEF EnsureFile
  <2> QED
    BY <2>1, <2>2
<1> QED
  BY <1>1, <1>2, <1>3, <1>4, <1>5 DEF Prefetch

\* A step of a prefetch: a copy is made of a file that is the target's.
LEMMA OwnStep ==
  ASSUME IInv, ShapeInv, FileInv, StageInv, [Next]_vars, NEW n \in Node, n \in fresh', Clean(n),
         Ready(n), Prefetch(n), ~BeginPrefetch(n)
  PROVE  Ready(n)'
<1>0. /\ agent[n] \in AgentRow /\ agent \in [Node -> AgentRow]
      /\ n \in staged => agent[n].pc = "idle"
      /\ DOMAIN rel = Node /\ DOMAIN rel[n] = File
  BY DEF IInv, Types, StageInv
<1>1. CASE CopyToRelease(n)
  <2> DEFINE f == agent[n].file
  <2>1. agent[n].pc = "copy" /\ f \in File /\ cache[n][f] = Target
    BY <1>0, <1>1 DEF CopyToRelease, Ready, FileInv, AgentRow
  <2>2. rel' = [rel EXCEPT ![n][f] = Target] /\ agent' = [agent EXCEPT ![n].pc = "self"] /\ staged' = staged
    BY <1>1, <2>1 DEF CopyToRelease
  <2>3. agent'[n].pc = "self" /\ agent'[n].file = f /\ agent'[n].todo = agent[n].todo
    BY <1>0, <2>2 DEF AgentRow
  <2>4. rel'[n][f] = Target /\ \A g \in File : rel[n][g] = Target => rel'[n][g] = Target
    BY <1>0, <2>1, <2>2
  <2>5. \A g \in (File \ Optional) \ agent[n].todo : rel[n][g] = Target
    BY <2>1 DEF Ready
  <2>6. n \notin staged'
    BY <1>0, <2>1, <2>2
  <2> QED
    BY <2>3, <2>4, <2>5, <2>6 DEF Ready
<1>2. CASE CopyToItself(n)
  <2> DEFINE f == agent[n].file
  <2>1. agent[n].pc = "self" /\ rel[n][f] = Target /\ rel' = rel /\ staged' = staged
    BY <1>2 DEF CopyToItself, Ready
  <2>2. agent' = [agent EXCEPT ![n] = [pc |-> "next", todo |-> agent[n].todo \ {f}, file |-> NULL]]
    BY <1>2 DEF CopyToItself
  <2>3. agent'[n].pc = "next" /\ agent'[n].todo = agent[n].todo \ {f}
    BY <1>0, <2>2
  <2>4. \A g \in (File \ Optional) \ agent[n].todo : rel[n][g] = Target
    BY <2>1 DEF Ready
  <2>5. n \notin staged'
    BY <1>0, <2>1
  <2> QED
    BY <2>1, <2>3, <2>4, <2>5 DEF Ready
<1>3. CASE ReportStaged(n)
  <2>1. agent[n].pc = "next" /\ agent[n].todo = {} /\ rel' = rel /\ agent' = [agent EXCEPT ![n] = Rest]
    BY <1>3 DEF ReportStaged, dirVars
  <2>2. \A g \in File \ Optional : rel[n][g] = Target
    BY <2>1 DEF Ready
  <2>3. agent'[n].pc = "idle"
    BY <1>0, <2>1, Rows
  <2> QED
    BY <2>1, <2>2, <2>3 DEF Ready
<1>4. ASSUME NEW f \in File, EnsureFile(n, f) PROVE Ready(n)'
  <2>1. /\ agent[n].pc = "next" /\ f \in agent[n].todo
        /\ rel' = rel /\ cache' = cache /\ staged' = staged
    BY <1>4 DEF EnsureFile, dirVars
  <2>2. \A g \in (File \ Optional) \ agent[n].todo : rel[n][g] = Target
    BY <2>1 DEF Ready
  <2>3. n \notin staged'
    BY <1>0, <2>1
  <2>4. CASE Has(cache[n][f])
    <3>1. agent' = [agent EXCEPT ![n].pc = "copy", ![n].file = f]
      BY <1>4, <2>4 DEF EnsureFile
    <3>2. agent'[n].pc = "copy" /\ agent'[n].file = f /\ agent'[n].todo = agent[n].todo
      BY <1>0, <3>1 DEF AgentRow
    <3>3. cache[n][f] = Target
      BY <2>4, TreeAssumption DEF Clean, Has
    <3> QED
      BY <2>1, <2>2, <2>3, <3>2, <3>3 DEF Ready
  <2>5. CASE ~Has(cache[n][f])
    <3>1. agent' = [agent EXCEPT ![n].pc = "ask", ![n].file = f]
      BY <1>4, <2>5 DEF EnsureFile
    <3>2. agent'[n].pc = "ask" /\ agent'[n].todo = agent[n].todo
      BY <1>0, <3>1 DEF AgentRow
    <3> QED
      BY <2>1, <2>2, <2>3, <3>2 DEF Ready
  <2> QED
    BY <2>4, <2>5
<1> QED
  BY <1>1, <1>2, <1>3, <1>4 DEF Prefetch

\* The answer to the agent of n.
LEMMA AnswerReady ==
  ASSUME IInv, ShapeInv, FileInv, StageInv, [Next]_vars, NEW n \in Node, n \in fresh', Clean(n),
         Ready(n), NEW m \in Client, Serve(m) \/ Fallback(m) \/ Broken(m) \/ Disconnect(m)
  PROVE  Ready(n)'
<1>0. /\ agent[n] \in AgentRow /\ agent \in [Node -> AgentRow]
      /\ n \in staged => agent[n].pc = "idle"
      /\ rel' = rel /\ staged' = staged
      /\ call[m].pc \notin {"none", "ask"} /\ call[m].file \in File
  BY DEF IInv, Types, StageInv, FileInv, Serve, Fallback, Broken, Disconnect, dirVars
<1>1. CASE agent'[n] = agent[n]
  BY <1>0, <1>1, ReadyStays
<1>2. CASE agent'[n] # agent[n]
  <2>1. PICK ok \in BOOLEAN : EnsureReturns(m, ok) /\ (~ok \/ \E c : Receive(m, c))
    BY DEF Serve, Fallback, Broken, Disconnect, Receive
  <2>2. m = n /\ lock[n] = n
    BY <1>0, <1>2, <2>1 DEF EnsureReturns
  <2>3. agent[n].pc = "ask" /\ call[n].file = agent[n].file
    BY <2>2, Clients DEF IInv, Owned, Waits, FileInv
  <2>4. n \notin staged'
    BY <1>0, <2>3
  <2>5. \A g \in (File \ Optional) \ agent[n].todo : rel[n][g] = Target
    BY <2>3 DEF Ready
  <2> DEFINE c == [agent[n] EXCEPT !.pc = "copy"]
             s == [pc |-> "next", todo |-> agent[n].todo \ {agent[n].file}, file |-> NULL]
  <2>6. IF ok THEN agent' = [agent EXCEPT ![n] = c]
        ELSE IF agent[n].file \in Optional THEN agent' = [agent EXCEPT ![n] = s]
        ELSE agent' = [agent EXCEPT ![n] = Rest]
    BY <2>1, <2>2, <2>3 DEF EnsureReturns
  <2>7. c.pc = "copy" /\ c.file = agent[n].file /\ c.todo = agent[n].todo
        /\ s.pc = "next" /\ s.todo = agent[n].todo \ {agent[n].file}
    BY <1>0 DEF AgentRow
  <2> HIDE DEF c, s
  <2>8. CASE ok
    <3>1. agent'[n] = c
      BY <1>0, <2>6, <2>8
    <3>2. cache'[n][agent[n].file] = Target
      <4> DEFINE f == agent[n].file
                 p == Parent[n]
      <4>1. Node \subseteq Store /\ n \in Store /\ p \in Line[n] \cup {Origin} /\ f \in File
        BY <1>0, <2>2, <2>3, TreeAssumption DEF Store
      <4>2. PICK d : Receive(n, d) /\ d = cache[p][f] /\ Has(d)
        <5>1. CASE Serve(m)
          <6>1. Receive(n, cache[p][f]) /\ cache[p][f] # "none"
            BY <2>2, <2>3, <5>1 DEF Serve, FileInv
          <6>2. cache[p][f] # "empty"
            BY <2>2, <2>3, <5>1 DEF Serve
          <6> QED
            BY <6>1, <6>2 DEF Has
        <5>2. CASE Fallback(m)
          <6>1. \E d : Receive(n, d)
            BY <2>1, <2>2, <2>8
          <6>2. \/ Has(cache[p][f]) /\ Receive(n, cache[p][f])
                \/ FromBin(n)
                \/ EnsureReturns(n, FALSE)
            BY <2>2, <2>3, <5>2 DEF Fallback, FromBin
          <6>3. ~EnsureReturns(n, FALSE)
            <7>1. agent'[n].pc = "copy"
              BY <2>7, <3>1
            <7>2. EnsureReturns(n, FALSE) => agent'[n] \in {s, Rest}
              BY <1>0, <2>2 DEF EnsureReturns, s
            <7> QED
              BY <2>7, <7>1, <7>2, Rows
          <6>4. ~FromBin(n)
            BY FreshSteps, TreeAssumption
          <6> QED
            BY <6>2, <6>3, <6>4
        <5>3. CASE Broken(m) \/ Disconnect(m)
          <6>1. agent'[n] \in {s, Rest}
            BY <1>0, <2>2, <2>3, <5>3 DEF Broken, Disconnect, EnsureReturns, s
          <6> QED
            BY <2>7, <3>1, <6>1, Rows
        <5> QED
          BY <5>1, <5>2, <5>3
      <4>3. d = Target
        BY <4>1, <4>2 DEF Clean, Has
      <4>4. lock[n] # NULL
        BY <2>2, Clients
      <4> QED
        BY <2>2, <2>3, <4>1, <4>2, <4>3, <4>4 DEF Receive, ShapeInv
    <3> QED
      BY <1>0, <2>4, <2>5, <2>7, <3>1, <3>2 DEF Ready
  <2>9. CASE ~ok /\ agent[n].file \in Optional
    <3>1. agent'[n] = s
      BY <1>0, <2>6, <2>9
    <3> QED
      BY <1>0, <2>4, <2>5, <2>7, <2>9, <3>1 DEF Ready
  <2>10. CASE ~ok /\ agent[n].file \notin Optional
    <3>1. agent'[n] = Rest
      BY <1>0, <2>6, <2>10
    <3> QED
      BY <2>4, <3>1, Rows DEF Ready
  <2> QED
    BY <2>8, <2>9, <2>10
<1> QED
  BY <1>1, <1>2

\* Every step leaves a prefetch alone, is its own, or answers it.
LEMMA StepReady ==
  ASSUME IInv, ShapeInv, FileInv, StageInv, [Next]_vars, NEW n \in Node, n \in fresh', Clean(n),
         Ready(n), ~BeginPrefetch(n)
  PROVE  Ready(n)'
<1> USE DEF dirVars, callVars
<1>1. ASSUME UNCHANGED <<agent, rel, staged>> PROVE Ready(n)'
  BY <1>1, ReadyStays
<1>2. CASE (\E src \in Sources : CreateUpdate(src)) \/ SeedFails \/ StartJob
             \/ (\E f \in File : SeedBegins(f) \/ SeedEnds(f) \/ InstallController(f))
             \/ (\E k \in Node : Install(k)) \/ UNCHANGED vars
             \/ (\E i \in Installer, f \in File : Ask(i, f))
             \/ (\E m \in Client : Hit(m) \/ Miss(m))
  BY <1>1, <1>2 DEF CreateUpdate, SeedFails, StartJob, SeedBegins, SeedEnds, InstallController,
     Install, Ask, Hit, Miss, vars
<1>3. ASSUME NEW m \in Client, Serve(m) \/ Fallback(m) \/ Broken(m) \/ Disconnect(m) PROVE Ready(n)'
  BY <1>3, AnswerReady
<1>4. ASSUME NEW k \in Node, Prefetch(k) PROVE Ready(n)'
  <2>1. CASE k = n
    BY <1>4, <2>1, OwnStep
  <2>2. CASE k # n
    BY <1>4, <2>2, OthersStay, ReadyStays
  <2> QED
    BY <2>1, <2>2
<1>5. ASSUME NEW k \in Node, Start(k) PROVE Ready(n)'
  <2>1. agent'[n] = agent[n] \/ agent'[n].pc = "idle"
    BY <1>5, Rows DEF Start, IInv, Types
  <2> QED
    BY <1>5, <2>1, ReadyStays DEF Start
<1>6. CASE StartController
  BY <1>1, <1>6 DEF StartController
<1> QED
  BY <1>2, <1>3, <1>4, <1>5, <1>6 DEF Next, Handle

LEMMA StageKept == IInv /\ ShapeInv /\ FileInv /\ StageInv /\ [Next]_vars => StageInv'
<1> SUFFICES ASSUME IInv, ShapeInv, FileInv, StageInv, [Next]_vars PROVE StageInv'
  OBVIOUS
<1> USE DEF dirVars, callVars
<1>0. agent \in [Node -> AgentRow]
  BY DEF IInv, Types
\* Directories and history.
<1>1. /\ DOMAIN rel' = Node /\ \A n \in Node : DOMAIN rel'[n] = File
      /\ \A n \in Node : BeginPrefetch(n) => fresh' = IF Clean(n) THEN fresh \cup {n} ELSE fresh \ {n}
      /\ fresh' \subseteq fresh \/ \E n \in Node : BeginPrefetch(n)
  <2>1. ASSUME NEW n \in Node, CopyToRelease(n)
        PROVE  DOMAIN rel' = Node /\ \A k \in Node : DOMAIN rel'[k] = File
    BY <2>1 DEF CopyToRelease, StageInv
  <2>2. (\A n \in Node : ~CopyToRelease(n)) => rel' = rel
    BY DEF Next, Handle, Prefetch, CreateUpdate, SeedFails, StartJob, SeedBegins, SeedEnds, InstallController,
       StartController, Ask, Hit, Miss, Serve, Fallback, Broken, Disconnect, BeginPrefetch, EnsureFile,
       CopyToItself, ReportStaged, Install, Start, vars
  <2>4. fresh' \subseteq fresh \/ \E n \in Node : BeginPrefetch(n)
    BY DEF Next, Handle, Prefetch, CreateUpdate, SeedFails, StartJob, SeedBegins, SeedEnds, InstallController,
       StartController, Ask, Hit, Miss, Serve, Fallback, Broken, Disconnect, EnsureFile, CopyToRelease,
       CopyToItself, ReportStaged, Install, Start, vars
  <2>5. \A n \in Node : BeginPrefetch(n) => fresh' = IF Clean(n) THEN fresh \cup {n} ELSE fresh \ {n}
    BY DEF BeginPrefetch
  <2> QED
    BY <2>1, <2>2, <2>4, <2>5 DEF StageInv
<1>2. \A n \in staged' \cap Node : agent'[n].pc = "idle"
  <2>1. ASSUME NEW n \in Node, n \in staged', NEW k \in Node, Prefetch(k)
        PROVE  agent'[n].pc = "idle"
    <3>1. CASE k # n
      BY <2>1, <3>1, OthersStay DEF StageInv
    <3>2. CASE k = n
      <4>1. n \in staged => agent[n].pc = "idle"
        BY DEF StageInv
      <4>2. ~BeginPrefetch(n)
        BY <2>1 DEF BeginPrefetch
      <4>3. ReportStaged(n)
        BY <2>1, <3>2, <4>1, <4>2 DEF Prefetch, EnsureFile, CopyToRelease, CopyToItself
      <4> QED
        BY <1>0, <4>3, Rows DEF ReportStaged
    <3> QED
      BY <3>1, <3>2
  <2>2. ASSUME NEW m \in Client, Serve(m) \/ Fallback(m) \/ Broken(m) \/ Disconnect(m)
        PROVE  staged' = staged /\ \A n \in Node : agent[n].pc = "idle" => agent'[n] = agent[n]
    <3>1. PICK ok \in BOOLEAN : EnsureReturns(m, ok)
      BY <2>2 DEF Serve, Fallback, Broken, Disconnect, Receive
    <3>2. m \in Node /\ lock[m] = m => agent[m].pc = "ask"
      BY Clients DEF IInv, Owned, Waits
    <3>3. \A n \in Node : agent[n].pc = "idle" => agent'[n] = agent[n]
      <4>1. CASE m \in Node /\ lock[m] = m
        <5>1. \E a : agent' = [agent EXCEPT ![m] = a]
          BY <3>1, <4>1 DEF EnsureReturns
        <5> QED
          BY <1>0, <3>2, <4>1, <5>1
      <4>2. CASE ~(m \in Node /\ lock[m] = m)
        BY <3>1, <4>2 DEF EnsureReturns
      <4> QED
        BY <4>1, <4>2
    <3> QED
      BY <2>2, <3>3 DEF Serve, Fallback, Broken, Disconnect
  <2>3. ASSUME NEW k \in Node, Start(k)
        PROVE  staged' = staged /\ \A n \in Node : agent[n].pc = "idle" => agent'[n].pc = "idle"
    BY <1>0, <2>3, Rows DEF Start
  <2>4. CASE (\E src \in Sources : CreateUpdate(src)) \/ SeedFails \/ StartJob
             \/ (\E f \in File : SeedBegins(f) \/ SeedEnds(f) \/ InstallController(f))
               \/ (\E k \in Node : Install(k)) \/ UNCHANGED vars
               \/ (\E i \in Installer, f \in File : Ask(i, f))
               \/ (\E m \in Client : Hit(m) \/ Miss(m))
    BY <2>4 DEF CreateUpdate, SeedFails, StartJob, SeedBegins, SeedEnds, InstallController,
     Install, Ask, Hit, Miss, vars, StageInv
  <2>5. CASE StartController
    BY <2>5 DEF StartController, StageInv
  <2> QED
    BY <2>1, <2>2, <2>3, <2>4, <2>5 DEF Next, Handle, StageInv
<1>3. ASSUME NEW n \in fresh', BeginPrefetch(n), n \in Node
      PROVE  Clean(n)' /\ Ready(n)'
  <2>1. Clean(n)
    BY <1>1, <1>3
  <2>2. Clean(n)'
    BY <1>3, <2>1, CleanKept, FreshSteps
  <2>3. agent' = [agent EXCEPT ![n] = [pc |-> "next", todo |-> File, file |-> NULL]] /\ n \notin staged'
    BY <1>3 DEF BeginPrefetch
  <2>4. agent'[n].pc = "next" /\ agent'[n].todo = File
    BY <1>0, <1>3, <2>3
  <2> QED
    BY <2>2, <2>3, <2>4 DEF Ready
<1>4. ASSUME NEW n \in fresh', ~BeginPrefetch(n)
      PROVE  Clean(n)' /\ Ready(n)'
  <2>1. n \in fresh
    BY <1>1, <1>4
  <2>2. Clean(n) /\ Ready(n) /\ n \in Node
    BY <1>1, <1>4, <2>1 DEF StageInv
  <2> QED
    BY <1>4, <2>2, CleanKept, FreshSteps, StepReady
<1>5. fresh' \subseteq Node
  BY <1>1 DEF StageInv
<1> QED
  BY <1>1, <1>2, <1>3, <1>4, <1>5 DEF StageInv

\* A node that reports Staged holds the target release, for every tree and any
\* number of files, installers, restarts and failed connections, provided the
\* stores above it held nothing else when its prefetch began and since then no
\* handler fell back to installed files or sent a file that was emptied under it,
\* and no controller that lacks the release started (agent.prefetch,
\* Store.Ensure, ServeHTTP, New).
THEOREM StagedCorrect == Spec => []StagedIsTarget
<1>1. StageInv => StagedIsTarget
  BY DEF StageInv, StagedIsTarget, Ready
<1>2. Init => IInv /\ ShapeInv /\ FileInv /\ StageInv
  BY Initially, ShapeInitially, StageInitially
<1>3. IInv /\ ShapeInv /\ FileInv /\ StageInv /\ [Next]_vars
        => (IInv /\ ShapeInv /\ FileInv /\ StageInv)'
  BY StepKeeps, ShapeKept, FileKept, StageKept
<1> QED
  BY <1>1, <1>2, <1>3, PTL DEF Spec

=============================================================================
