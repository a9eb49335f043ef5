---------------------------- MODULE ArtifactCache ----------------------------
(***************************************************************************)
(* How the files of a release travel down the control tree.  Every node    *)
(* keeps an artifact store: a directory behind a mutex, filled on demand   *)
(* from the node's parent and read by the node's children and installers.  *)
(* The controller's store is the origin.  An update writes the release     *)
(* into the origin; each agent then prefetches: for every file it asks its *)
(* store, copies the answer to releases/<version> and copies the cached    *)
(* file to itself, which empties it.  A controller that starts again seeds *)
(* the origin from its own bin/, which may still hold the old release.     *)
(*                                                                         *)
(* Simplifications:                                                        *)
(*  - A file's content is the version it belongs to, or "none" (absent),   *)
(*    "empty" (size 0), "partial" (a copy in progress).                    *)
(*  - One update, labelled Target, from any directory.  Requests to create *)
(*    it may fail and be repeated; once it exists, no other is created.    *)
(*    bin/ has every file from the start.                                  *)
(*  - StageFromDir is one step here; UpdateJob models its crashes.         *)
(*  - A copy between two directories of one agent, or from a release to    *)
(*    the controller's bin/, is one step.                                  *)
(*  - The fallback directories of ServeHTTP are the store and bin/.        *)
(*  - A restarted agent's new process sends its first request upwards      *)
(*    after the parent has finished the one its predecessor left behind.   *)
(***************************************************************************)
EXTENDS Naturals, FiniteSets

CONSTANTS
  Node,        \* nodes with an agent
  Installer,   \* install scripts running below some node
  Origin,      \* the controller's store
  Parent,      \* where the requests of a node or installer go
  Line,        \* a node with all nodes above it
  File,        \* the files of a release
  Optional,    \* those a prefetch may skip
  Version,     \* releases
  Installed,   \* the release every node has at first
  Target,      \* the release of the update
  Sources,     \* directories an update may be made from: an unpacked package,
               \* one an administrator names, or the controller's own bin/
  NULL,
  MaxAsks,     \* bound: requests of installers
  MaxEvents    \* bound: starts, installations and failures

Client == Node \cup Installer
Store  == Node \cup {Origin}

ASSUME TreeAssumption ==
  /\ Origin \notin Client /\ NULL \notin Client \cup File
  /\ Node \cap Installer = {}
  /\ Parent \in [Client -> Store] /\ \A m \in Client : Parent[m] # m
  /\ Line \in [Node -> SUBSET Node]
  /\ \A n \in Node : n \in Line[n]
  /\ \A n \in Node : \A m \in Line[n] : Parent[m] \in Line[n] \cup {Origin}

ASSUME ReleaseAssumption ==
  /\ Optional \subseteq File
  /\ {Installed, Target} \subseteq Version
  /\ Version \cap {"none", "empty", "partial"} = {}
  /\ Sources \subseteq [File -> Version \cup {"none"}]

ASSUME BoundAssumption == {MaxAsks, MaxEvents} \subseteq Nat

Counters == {"asks", "events"}

VARIABLES
  cache,     \* the directory of each store
  rel,       \* each agent's releases/<Target>
  bin,       \* the installed files
  lock,      \* who holds a store's mutex across a download: the node's own
             \* agent, or the handler of the named client
  call,      \* the outstanding request of each client, handled at its parent:
             \* "none", "lock" (waits for the mutex), "ask" (for the answer from
             \* above), "serve", "fallback" or "broken" (its handler died)
  agent,     \* the prefetch of each agent: "idle", "next" (file), "ask", "copy"
             \* or "self" (the copy of the file to itself)
  staged,    \* the agents whose last report is Staged
  job,       \* "none", "seeding" the origin, or "ready" for prefetching
  source,    \* the directory the update is made from
  used,      \* counters against the bounds
  \* history
  fresh      \* nodes whose prefetch began with nothing but the target release
             \* above them, and that nothing else has reached since

dirVars  == <<cache, rel, bin>>
callVars == <<lock, call>>
vars     == <<dirVars, callVars, agent, staged, job, source, used, fresh>>

NoCall == [pc |-> "none", file |-> NULL]

Rest == [pc |-> "idle", todo |-> {}, file |-> NULL]

NoFiles == [f \in File |-> "none"]

\* The file exists and its size is not zero.
Has(content) == content \notin {"none", "empty"}

Spend(counter, limit) ==
  /\ used[counter] < limit
  /\ used' = [used EXCEPT ![counter] = @ + 1]

-----------------------------------------------------------------------------
(* Seeding a store from directories.                                       *)

\* Files that are missing in the source are skipped.
Seed(dir, src) == [f \in File |-> IF src[f] = "none" THEN dir[f] ELSE src[f]]

\* Seed with the store's own directory: copyFile opens the source, truncates
\* the destination, which is the same file, and copies nothing.
SeedSelf(dir) == [f \in File |-> IF dir[f] = "none" THEN "none" ELSE "empty"]

\* Variant: the second seeding reads another directory.
SeedOnce(dir, binDir) == Seed(dir, binDir)

\* What Run does to the store before it serves children.
SeedAtStart(dir, binDir) == SeedSelf(Seed(dir, binDir))

\* Every agent has just started; the controller's store was seeded from bin/.
Init ==
  /\ bin = [s \in Store |-> [f \in File |-> Installed]]
  /\ cache = [s \in Store |-> IF s = Origin THEN bin[s]
                              ELSE SeedAtStart([f \in File |-> Installed], bin[s])]
  /\ rel = [n \in Node |-> NoFiles]
  /\ lock = [n \in Node |-> NULL]
  /\ call = [m \in Client |-> NoCall]
  /\ agent = [n \in Node |-> Rest]
  /\ staged = {} /\ job = "none" /\ source = NoFiles
  /\ used = [k \in Counters |-> 0]
  /\ fresh = {}

-----------------------------------------------------------------------------
(* The controller writes the release into the origin, file by file, and    *)
(* installs it on itself at the end.                                       *)

\* handlePullLatest or handleCreateUpdate.
CreateUpdate(src) ==
  /\ job = "none"
  /\ job' = "seeding" /\ source' = src
  /\ UNCHANGED <<dirVars, callVars, agent, staged, used, fresh>>

\* The destination is truncated, then written.  Seed, the seeding of the store
\* from itself and SeedRelease write the same file several times.
SeedBegins(f) ==
  /\ job = "seeding" /\ source[f] # "none"
  /\ cache' = [cache EXCEPT ![Origin][f] = IF @ = "empty" THEN "partial" ELSE "empty"]
  /\ UNCHANGED <<rel, bin, callVars, agent, staged, job, source, used, fresh>>

SeedEnds(f) ==
  /\ job = "seeding" /\ source[f] # "none" /\ cache[Origin][f] = "partial"
  /\ cache' = [cache EXCEPT ![Origin][f] = source[f]]
  /\ UNCHANGED <<rel, bin, callVars, agent, staged, job, source, used, fresh>>

\* A copy fails: the request ends, or the error is ignored and the job is
\* created with the file as it is.
SeedFails ==
  /\ job = "seeding"
  /\ Spend("events", MaxEvents)
  /\ job' \in {"none", "ready"}
  /\ source' = IF job' = "none" THEN NoFiles ELSE source
  /\ UNCHANGED <<dirVars, callVars, agent, staged, fresh>>

StartJob ==
  /\ job = "seeding"
  /\ \A f \in File : source[f] # "none" => cache[Origin][f] = source[f]
  /\ job' = "ready"
  /\ UNCHANGED <<dirVars, callVars, agent, staged, source, used, fresh>>

\* A file of the staged release goes to the controller's bin/.
InstallController(f) ==
  /\ job = "ready" /\ source[f] # "none"
  /\ Spend("events", MaxEvents)
  /\ bin' = [bin EXCEPT ![Origin][f] = source[f]]
  /\ UNCHANGED <<cache, rel, callVars, agent, staged, job, source, fresh>>

\* The controller starts again, after its installation or a crash: New seeds the
\* origin from bin/, an update that is under way resumes, and the requests it
\* was handling are gone.
StartController ==
  /\ Spend("events", MaxEvents)
  /\ cache' = [cache EXCEPT ![Origin] = Seed(@, bin[Origin])]
  /\ call' = [m \in Client |-> IF Parent[m] = Origin /\ call[m].pc # "none"
                               THEN [call[m] EXCEPT !.pc = "broken"] ELSE call[m]]
  /\ job' = IF job = "seeding" THEN "none" ELSE job
  /\ fresh' = IF \E f \in File : bin[Origin][f] # Target THEN {} ELSE fresh
  /\ source' = IF job' = "none" THEN NoFiles ELSE source
  /\ UNCHANGED <<rel, bin, lock, agent, staged>>

-----------------------------------------------------------------------------
(* A request of client m, handled at the store of its parent: Ensure under *)
(* the mutex, then the file is sent without it.                            *)

\* An install script fetches a file from the node it enrolls below.
Ask(i, f) ==
  /\ call[i].pc = "none"
  /\ Spend("asks", MaxAsks)
  /\ call' = [call EXCEPT ![i] = [pc |-> "lock", file |-> f]]
  /\ UNCHANGED <<dirVars, lock, agent, staged, job, source, fresh>>

\* A hit ends Ensure at once; the origin has nobody to ask.
Hit(m) ==
  LET p == Parent[m] IN
  /\ call[m].pc = "lock"
  /\ p \in Node => lock[p] = NULL
  /\ IF Has(cache[p][call[m].file])
     THEN call' = [call EXCEPT ![m].pc = "serve"]
     ELSE p = Origin /\ call' = [call EXCEPT ![m].pc = "fallback"]
  /\ UNCHANGED <<dirVars, lock, agent, staged, job, source, used, fresh>>

\* Variant: the mutex is released before the download.
MissUnlocked(m) ==
  LET p == Parent[m]  f == call[m].file IN
  /\ call[m].pc = "lock" /\ p \in Node
  /\ ~Has(cache[p][f])
  /\ lock' = [lock EXCEPT ![p] = m]
  /\ call' = [call EXCEPT ![m].pc = "ask", ![p] = [pc |-> "lock", file |-> f]]
  /\ UNCHANGED <<dirVars, agent, staged, job, source, used, fresh>>

\* A miss asks the next store up and keeps the mutex meanwhile.
Miss(m) ==
  LET p == Parent[m]  f == call[m].file IN
  /\ call[m].pc = "lock" /\ p \in Node
  /\ lock[p] = NULL /\ ~Has(cache[p][f]) /\ call[p].pc = "none"
  /\ lock' = [lock EXCEPT ![p] = m]
  /\ call' = [call EXCEPT ![m].pc = "ask", ![p] = [pc |-> "lock", file |-> f]]
  /\ UNCHANGED <<dirVars, agent, staged, job, source, used, fresh>>

\* Variant: the mutex stays locked when the download failed.
EnsureReturnsLocked(m, ok) ==
  LET h == IF m \in Node THEN lock[m] ELSE NULL IN
  /\ call' = [k \in Client |->
                IF k = m THEN NoCall
                ELSE IF k = h THEN [call[k] EXCEPT !.pc = IF ok THEN "serve" ELSE "fallback"]
                ELSE call[k]]
  /\ lock' = IF m \in Node /\ ok THEN [lock EXCEPT ![m] = NULL] ELSE lock
  /\ agent' = IF m \in Node /\ h = m
              THEN [agent EXCEPT ![m] = IF ok THEN [@ EXCEPT !.pc = "copy"] ELSE Rest]
              ELSE agent

\* Ensure returns in store m to whoever holds its mutex: the agent goes on with
\* its copies or gives up or skips the file, a handler serves or falls back.
\* A restarted store no longer waits.
EnsureReturns(m, ok) ==
  LET h == IF m \in Node THEN lock[m] ELSE NULL IN
  /\ call' = [k \in Client |->
                IF k = m THEN NoCall
                ELSE IF k = h THEN [call[k] EXCEPT !.pc = IF ok THEN "serve" ELSE "fallback"]
                ELSE call[k]]
  /\ lock' = IF m \in Node THEN [lock EXCEPT ![m] = NULL] ELSE lock
  /\ IF m \in Node /\ h = m
     THEN LET skip == call[m].file \in Optional IN
          agent' = [agent EXCEPT ![m] =
                      IF ok THEN [@ EXCEPT !.pc = "copy"]
                      ELSE IF skip THEN [pc |-> "next", todo |-> @.todo \ {@.file}, file |-> NULL]
                      ELSE Rest]
     ELSE UNCHANGED agent

\* The answer arrives complete: a temporary file is renamed over the cached one.
Receive(m, content) ==
  /\ EnsureReturns(m, TRUE)
  /\ cache' = IF m \in Node /\ lock[m] # NULL
              THEN [cache EXCEPT ![m][call[m].file] = content] ELSE cache

\* http.ServeFile opens the file anew: it may have been truncated since Ensure
\* returned, and an empty file is served like any other.
Serve(m) ==
  LET content == cache[Parent[m]][call[m].file] IN
  /\ call[m].pc = "serve"
  /\ Receive(m, content)
  /\ fresh' = IF content = "empty" THEN fresh \ {m} ELSE fresh
  /\ UNCHANGED <<rel, bin, staged, job, source, used>>

\* After a failed Ensure whatever lies in the store or in bin/ is served.
Fallback(m) ==
  LET p == Parent[m]  f == call[m].file IN
  /\ call[m].pc = "fallback"
  /\ IF Has(cache[p][f]) THEN Receive(m, cache[p][f]) /\ UNCHANGED fresh
     ELSE IF Has(bin[p][f])
     THEN Receive(m, bin[p][f]) /\ fresh' = {n \in fresh : m \notin Line[n]}
     ELSE EnsureReturns(m, FALSE) /\ UNCHANGED <<cache, fresh>>
  /\ UNCHANGED <<rel, bin, staged, job, source, used>>

\* The handler died with its agent.
Broken(m) ==
  /\ call[m].pc = "broken"
  /\ EnsureReturns(m, FALSE)
  /\ UNCHANGED <<dirVars, staged, job, source, used, fresh>>

\* The connection cannot be made or breaks while the file is sent.
Disconnect(m) ==
  /\ call[m].pc \in {"lock", "serve", "fallback"}
  /\ Spend("events", MaxEvents)
  /\ EnsureReturns(m, FALSE)
  /\ UNCHANGED <<dirVars, staged, job, source, fresh>>

-----------------------------------------------------------------------------
(* The agent.                                                              *)

\* No store from n up to the origin holds a file of another release, or half a
\* file.
Clean(n) ==
  /\ job = "ready"
  /\ \A m \in Line[n] \cup {Origin}, f \in File : cache[m][f] \in {"none", "empty", Target}

\* Variant: files the store has already are not fetched, nor copied.
BeginMissing(n) ==
  /\ job = "ready" /\ agent[n].pc = "idle"
  /\ agent' = [agent EXCEPT ![n] = [pc |-> "next", todo |-> {f \in File : ~Has(cache[n][f])}, file |-> NULL]]
  /\ staged' = staged \ {n}
  /\ fresh' = IF Clean(n) THEN fresh \cup {n} ELSE fresh \ {n}
  /\ UNCHANGED <<dirVars, callVars, job, source, used>>

\* pollUpdate in the prefetch phase: at every tick, also after a success.
BeginPrefetch(n) ==
  /\ job = "ready" /\ agent[n].pc = "idle"
  /\ agent' = [agent EXCEPT ![n] = [pc |-> "next", todo |-> File, file |-> NULL]]
  /\ staged' = staged \ {n}
  /\ fresh' = IF Clean(n) THEN fresh \cup {n} ELSE fresh \ {n}
  /\ UNCHANGED <<dirVars, callVars, job, source, used>>

\* Ensure for the agent itself: a hit, or a request to the parent.
EnsureFile(n, f) ==
  /\ agent[n].pc = "next" /\ f \in agent[n].todo
  /\ lock[n] = NULL
  /\ IF Has(cache[n][f])
     THEN /\ agent' = [agent EXCEPT ![n].pc = "copy", ![n].file = f]
          /\ UNCHANGED callVars
     ELSE /\ call[n].pc = "none"
          /\ lock' = [lock EXCEPT ![n] = n]
          /\ call' = [call EXCEPT ![n] = [pc |-> "lock", file |-> f]]
          /\ agent' = [agent EXCEPT ![n].pc = "ask", ![n].file = f]
  /\ UNCHANGED <<dirVars, staged, job, source, used, fresh>>

CopyToRelease(n) ==
  LET f == agent[n].file IN
  /\ agent[n].pc = "copy"
  /\ rel' = [rel EXCEPT ![n][f] = cache[n][f]]
  /\ agent' = [agent EXCEPT ![n].pc = "self"]
  /\ UNCHANGED <<cache, bin, callVars, staged, job, source, used, fresh>>

\* copyFileSimple from the cached file to the cached file.
CopyToItself(n) ==
  LET f == agent[n].file IN
  /\ agent[n].pc = "self"
  /\ cache' = [cache EXCEPT ![n][f] = "empty"]
  /\ agent' = [agent EXCEPT ![n] = [pc |-> "next", todo |-> @.todo \ {f}, file |-> NULL]]
  /\ UNCHANGED <<rel, bin, callVars, staged, job, source, used, fresh>>

ReportStaged(n) ==
  /\ agent[n].pc = "next" /\ agent[n].todo = {}
  /\ staged' = staged \cup {n}
  /\ agent' = [agent EXCEPT ![n] = Rest]
  /\ UNCHANGED <<dirVars, callVars, job, source, used, fresh>>

\* The staged files go to bin/.  The restart that follows is a Start.
Install(n) ==
  /\ n \in staged /\ agent[n].pc = "idle"
  /\ Spend("events", MaxEvents)
  /\ bin' = [bin EXCEPT ![n] = Seed(@, rel[n])]
  /\ UNCHANGED <<cache, rel, callVars, agent, staged, job, source, fresh>>

\* The agent starts again, after an installation or a crash: its mutex, its
\* prefetch and the requests it was handling are gone.
Start(n) ==
  /\ Spend("events", MaxEvents)
  /\ cache' = [cache EXCEPT ![n] = SeedAtStart(@, bin[n])]
  /\ lock' = [lock EXCEPT ![n] = NULL]
  /\ call' = [m \in Client |-> IF Parent[m] = n /\ call[m].pc # "none"
                               THEN [call[m] EXCEPT !.pc = "broken"] ELSE call[m]]
  /\ agent' = [agent EXCEPT ![n] = Rest]
  /\ UNCHANGED <<rel, bin, staged, job, source, fresh>>

-----------------------------------------------------------------------------

Handle(m) == Hit(m) \/ Miss(m) \/ Serve(m) \/ Fallback(m) \/ Broken(m)

Prefetch(n) ==
  \/ BeginPrefetch(n) \/ CopyToRelease(n) \/ CopyToItself(n) \/ ReportStaged(n)
  \/ \E f \in File : EnsureFile(n, f)

Next ==
  \/ \E src \in Sources : CreateUpdate(src)
  \/ \E f \in File : SeedBegins(f) \/ SeedEnds(f) \/ InstallController(f)
  \/ SeedFails \/ StartJob \/ StartController
  \/ \E i \in Installer, f \in File : Ask(i, f)
  \/ \E m \in Client : Handle(m) \/ Disconnect(m)
  \/ \E n \in Node : Prefetch(n) \/ Install(n) \/ Start(n)

Spec == Init /\ [][Next]_vars

\* Handlers run on, and a Go mutex hands itself over to waiters in order.
\* Nothing obliges an agent, an installer or an administrator to do anything.
Fairness ==
  /\ \A m \in Client : WF_vars(Serve(m) \/ Fallback(m) \/ Broken(m))
  /\ \A m \in Client : SF_vars(Hit(m) \/ Miss(m))

FairSpec == Spec /\ Fairness

-----------------------------------------------------------------------------
(* Properties.                                                             *)

\* The handlers and the agent that wait for a download into store n.
Waiting(n) ==
  {m \in Client : Parent[m] = n /\ call[m].pc = "ask"}
    \cup (IF agent[n].pc = "ask" THEN {n} ELSE {})

\* At most one download into a store is under way, whoever asks for it, so no
\* two writers share a temporary file; and the mutex is only held by one that
\* really waits for an answer, also across restarts (Store.Ensure).
OneDownload ==
  \A n \in Node :
    /\ Waiting(n) = IF lock[n] = NULL THEN {} ELSE {lock[n]}
    /\ lock[n] # NULL => call[n].pc # "none"

\* A node that reports Staged holds the target release, provided every store on
\* its way up, the origin too, held nothing but files of that release when its
\* prefetch began, and since then no handler fell back to installed files for the
\* node or one above it, none sent the node a file that a prefetch had emptied,
\* and no controller that lacks the release started (agent.prefetch,
\* Store.Ensure, ServeHTTP, New).
StagedIsTarget ==
  \A n \in staged \cap fresh, f \in File \ Optional : rel[n][f] = Target

\* A handler sends an installed file, because the store has none.
FromBin(m) ==
  /\ Fallback(m)
  /\ ~Has(cache[Parent[m]][call[m].file]) /\ Has(bin[Parent[m]][call[m].file])

\* Once the stores from a node up to the origin are clean they stay clean during
\* the update, but for two kinds of steps: an answer from bin/ to the node or one
\* above it, and the start of a controller whose own bin/ is not the target
\* release (Ensure, ServeHTTP, agent.Run, prefetch, New).
StaysClean ==
  [][\A n \in Node : Clean(n) =>
       \/ Clean(n)'
       \/ \E m \in Line[n] : FromBin(m)
       \/ StartController /\ \E f \in File : bin[Origin][f] # Target]_vars

\* The chain of mutexes that nested downloads hold up the tree never blocks
\* itself: every request is answered, by a file or an error.
RequestsEnd ==
  \A m \in Client : call[m].pc # "none" ~> call[m].pc = "none"

=============================================================================
