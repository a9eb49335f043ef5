# Verification of PathWeaver (sd-wan-plus)

TLA+ models of the control plane of PathWeaver, checked with TLC on small
instances, and proofs checked with TLAPS for every instance. Every definition is
translated from the Go code under `src/`; `PROJECT.json` gives, for each of them,
the lines it stands for.

## 1. The system

One **controller** (HTTP API, SQLite, orchestration) and, on every node of a
**control tree** rooted at it, an **agent** (a 15 s loop: heartbeat, pull the
desired configuration, poll for updates), **netd** (applies WireGuard links,
routes and firewall rules) and the **updater** (copies releases, switches the
`current` symlink). Agents talk to their parent; a parent forwards requests to
the controller and serves cached artifacts.

### Inventory

| Component | State | Operations | What is hard | Correct when |
|---|---|---|---|---|
| Update orchestration (`controller/policy_handlers.go`) | rows `update_jobs`, `update_targets`; in memory `s.activeUpdate` (job, phase, grant, status map) | create, start, `runUpdateJob`, rollback, resume after restart | goroutines, reports and administrators write the same rows and map; memory is lost on restart; deadlines | one node installs at a time, leaves first, controller last; a recorded success is real; every job ends |
| Update endpoints (`controller/bootstrap.go`) | the same | answer a poll, take a report | a report is two writes; lost or late reports | map and rows agree; only the granted node is told to install |
| Agent update loop (`agent/agent.go`), updater (`updater/updater.go`) | `artifacts/releases/<v>`, `releases/<v>`, `bin/`, `current` | prefetch, stage, activate, restart | crashes half way; dropped copy errors | `current` names a whole release |
| Artifact store (`artifacts/store.go`) | cache directory and mutex per node, parent URL | `Ensure`, `Seed`, `SeedRelease`, serve | mutexes held across nested downloads; stale or empty files; a file copied onto itself | a child gets the release it asked for; every request ends |
| Release lookup and pull (`updates_release.go`) | remembered GitHub answer, `artifacts/releases/<v>`, the controller's `bin/` | look up, pull, install on the controller | a rolling release; overlapping lookups and pulls; half-way copies | a release directory holds its version; a restart loads one release |
| Enrollment and control tree (`bootstrap.go`, `storage/nodes.go`, `links.go`) | tokens, nodes, relations, addresses, links, ports | create/revoke token, enroll, commit, change, delete | read-then-insert; two-step commit; partial failure | addresses and ports are unique; a spent token is dead; the tree stays a tree |
| Configuration publishing (`policy_handlers.go`, `storage/policies.go`) | `config_revisions`, desired states in SQLite and in `s.desired` | publish, preview, hydrate after restart, serve | concurrent publishes; generations; deleted nodes | generations grow; the newest compilation is the one served |
| Configuration apply (`agent/agent.go`, `netd/`) | active generation, `lastGood`, kernel state | prepare, activate, verify, roll back | partial failures; unsynchronised `lastGood` | what is reported is what runs; nodes catch up |
| Topology and routing (`topology/`, `routing/`) | none (pure); in the kernel, devices and routes | next hops, path validation, compilation | nodes on configurations of different ages; routes that are never removed | packets reach their target or are dropped by the sender; no loops |
| Links (`nodes_handlers.go`, `storage/links.go`) | `wireguard_links`, endpoints | create, update, delete, repair | check and insertion apart | the two ends of a link agree |
| Traffic policies (`policy_handlers.go`) | policies, matches, hops, configs | create, delete | several inserts without a transaction, errors dropped | a stored policy is the one that was asked for; no orphans |
| Sessions, rate limiter (`auth_handlers.go`, `security/crypto.go`) | sessions, password, attempts | login, logout, change, revoke | windows, concurrent logins and revocations | a revoked session is refused; the limiter counts exactly |
| Relay (`relay/`) | set of seen message ids | deduplicate, decrement TTL | | nothing calls it |
| Not modelled | | web console, commands, installers, packaging, WebSocket hub, audit log, gRPC files, state tables used by tests only | | |

The interactions the models are about: agents call the controller (polls and
reports), administrators call it at the same time (each request is a goroutine),
orchestrators run for up to an hour between them, and all of them share SQLite
rows (one connection, so one statement is atomic and two are not) and records
behind mutexes that are released between a read and the write it decides.

`PROJECT.json` lists the hazards, each with its line and the properties that
cover it.

## 2. Modules and plan

| Module | Content | Relation to others |
|---|---|---|
| `UpdateJob`, `UpdateJobProofs` | the network-wide update | copies of files are opaque here |
| `ArtifactCache`, `ArtifactCacheProofs` | what those copies do along a chain of stores | the prefetch of `UpdateJob` in detail |
| `ReleaseOrigin`, `ReleaseOriginProofs` | where the release of an update comes from; the controller's own installation | creates the jobs of `UpdateJob` |
| `Membership` | abstract: a tree with distinct addresses | implemented by `Enrollment`, and proved about there |
| `Enrollment`, `EnrollmentProofs` | tokens, addresses, ports, links of new nodes; deletion | implements `Membership`; its rows feed the next two |
| `ConfigPublish`, `ConfigPublishProofs` | publish, hydrate, serve, generations | its proofs go on to `ConfigApply` |
| `ConfigApply` | pull, activate, verify, roll back; restarts | composes `ConfigPublish` with agents and netd |
| `ControlRouting`, `ControlRoutingProofs` | compilation of routes, mixtures of configurations, packets | takes a publication of `ConfigPublish` as one step |
| `TrafficPolicy`, `TrafficPolicyProofs` | policies, written row by row | |
| `AdminSessions`, `AdminSessionsProofs` | limiter, sessions, password | |

Each component has one `MC` module with the constants of its instance, and one
`.cfg` per run. Every invariant and action property the runs check is proved for every
instance (some of `UpdateJob` under hypotheses, section 3). What would extend the
project next: `ControlRouting` on top of `Membership`, whose tree it grows by a simpler
`Enroll`; the abstract specification of a *leaf-first rollout* (a set of finished nodes closed under "deeper",
at most one busy), which `UpdateJob` implements as long as no orchestrator gives up on
a node; and larger instances of `ControlRouting`.

`CHECK_DEADLOCK FALSE` stands in every `.cfg`: once the bounds are used up nothing is
left to do. The bounds are the numbers of events a run may have; each is named in its
module and given in the `.cfg`.

## 3. The update: `UpdateJob`

### State and actions

| Variable | Code |
|---|---|
| `alive` | rows of `nodes` |
| `jobStatus`, `target` | `update_jobs.status`, `update_targets.status` per job and node (`NoRow`: no such row) |
| `active` | `s.activeUpdate`: job, phase, `InstallNodeID` (`install`), `StatusByNode` |
| `run` | the goroutines `runUpdateJob`: program counter, job, the list of targets last read (`snap`), the targets the current loop has left (`todo`), local variables |
| `rollback` | a `handleRollbackUpdate` in progress |
| `resuming`, `restartDue` | `resumeOrFinalizeUpdates` asleep; `scheduleControllerRestart` asleep |
| `agent`, `wire`, `agentDue` | the position of an agent in `pollUpdate`, its report on the way, `scheduleServiceRestart` asleep |
| `staged`, `release`, `bin`, `current` | `artifacts/releases/<v>`, `releases/<v>`, `bin/`, the symlink |
| `used` | how much of each bound was spent |
| `gaveUp` | history: the verdicts an orchestrator reached without a report ("prefetch timeout", "not staged", "install timeout") |

The orchestrator's actions follow `runUpdateJob` from top to bottom:
`RunStageController`, `RunPublish`; the prefetch loop (`RunScanStart`, `RunScan`,
`RunScanEnd`, `PrefetchDeadline`); the marking scan (`RunMark`, `RunMarkEnd`);
`RunSwitchPhase`; the installation loop, one target after the other in the order of
`ORDER BY depth DESC` (`RunSkip`, `RunNotStaged`, `RunGrant`, `RunFinished`,
`InstallDeadline`, `RunUngrant`, `RunAllGranted`); the controller
(`RunController`, `RunInstallController`); `RunFinish`, `RunClear`.
`setUpdateNodeStatus` is two steps, the row (`SetThen`) and the map (`RunSetMap`),
because reports come between them. An agent's tick is `PollPrefetch`,
`PrefetchCopy`, `PrefetchDone`/`PrefetchFails` or `PollInstall`, `InstallCopy`,
`InstallDone`/`InstallFails`; each of its reports is posted, stored
(`ReportStore`), applied to the map (`ReportApply`) or lost. `AgentRestart` and
`ControllerRestart` keep the disks and SQLite and lose everything else; `Resume` is
what the controller does two seconds after a start.

The simplifications are listed at the head of the module. Deleted nodes go on
polling: the agent endpoints do not authenticate.

### Runs

The tree is `c <- a <- b` (controller, inner node, leaf): the smallest with two
agents at different depths.

| Run | Agents, faults | Shows |
|---|---|---|
| `calm` | both; one deadline | `TypeOK`, `SerialInstall`, `NobodyForgotten`, `MapMatchesRow`, `SuccessSticks` |
| `crash` | both; one failed download or installation, one agent crash, busy binaries | `CompletedIsInstalled`, `LeafFirst` |
| `restart` | leaf only; a controller crash, four deadlines; fair | `CompletedIsInstalled`, `JobEnds` |
| `disorder` | leaf only; one orchestrator; lost reports, a rollback, a deletion, a deadline | `GrantHeld`, `LeafFirst` |

A job of two agents can meet at most three deadlines (one for the prefetch, one for
each installation), a resumed one meets more only for targets that are not terminal
yet; `MaxDeadlines = 4` therefore never stops the job of `restart`: if it did,
`JobEnds` would fail. `CompletedIsInstalled` is checked with at most one kind of fault
at a time: a second copy over a release whose target is already Completed can be
interrupted by a combination of them (two controller crashes, a crash and a failed
download), and the target stays Completed. For one crash of the controller and no other
fault, `CompletedAcrossCrash` proves it for every tree.

### Fairness

`FairSpec` assumes only what runs inside the controller: an orchestrator takes its
next step (weak fairness, nothing but the clock can block it), a loop that reads the
clock finds its deadline passed (`PrefetchDeadline` is enabled only at the loop
head, which the loop leaves and enters for ever, hence strong fairness; an
installation waits in one place, hence weak), the sleeping `Resume` and the
requested restart of the service happen. Nothing is assumed of agents, reports or
administrators: `JobEnds` holds with agents that never answer, as the plan asks
(offline nodes must not block a job for ever).

### Proofs

`UpdateJobProofs` proves for every tree, every set of jobs and every bound:

* `TypeCorrect`: `Spec => []TypeOK`. Inductive together with `JobsNamed` (a busy
  goroutine or agent names a job, a waiting goroutine names a node).
* `GrantCorrect`: `Spec => GrantHeld`, without any hypothesis. `GrantHeld` is an action
  property: whoever waits on the grant it has made keeps it, unless *another
  orchestrator* takes a step on the record (`Overwrites`: it publishes, switches the
  phase, grants, takes a grant back or clears). No report, poll, rollback, deletion,
  creation or resume does it. Nothing in the code keeps a second orchestrator away: a job
  can be started again while it is driven (`policy_handlers.go:401-427`), and the second
  one does take the grant of the first; the property names this outcome and does not
  deny it. The proof needs no invariant beyond the types: `GrantOwn` (the goroutine's own
  next step ends its waiting), `GrantElsewhere` (every other step of an orchestrator
  leaves job, phase and grant of the record alone) and `GrantStays` (so do agents,
  reports, administrators and the resume; a crash ends the waiting with the record).

  The run `disorder` has one orchestrator, so there nobody takes the grant; with two of
  them the state space is too large for a run with faults, and the theorem is what covers them.
  The invariant `GrantInv`, used by the other proofs, is about orchestrators that are
  started one at a time: `OneRun` (at most one goroutine is not free), `ResumeAlone` (no
  orchestrator exists while a resume is due) and, for each goroutine, `Follows`: the
  record is its own, in the phase its program counter implies, with its grant.

* `SerialCorrect`: `SerialInstall` without concurrent starts and crashes of the
  controller. `SerialInv` adds what a grant is worth: an agent that is installing, or
  whose report about it is on its way, holds the grant of a goroutine that waits, unless
  one gave up on it; and a grant whose node is recorded as finished has an idle agent.
* `LeafFirstCorrect`, `MapMatchesRowCorrect`, `OnlineCorrect`, `CompletedCorrect` and
  `SuccessCorrect`, under the hypotheses below.
* `CompletedAcrossCrash`: `CompletedIsInstalled` although the controller crashes, see
  below.

The five before it are about one job from its start to its end: `Undisturbed` (at most one
start, no crash of the controller), with `RowsLeftAlone` (no rollback, no deletion)
or `~LossyReports` where the property needs it. None of the hypotheses is for the
prover's convenience: a second start or a resumed run installs a second time what the
first one has installed; a rollback rewrites the rows behind the map; and where reports
get lost, an agent may be downloading a staged release again without the controller
knowing, crash in the middle and install the half (TLC finds this with a deadline, a
crash and `LossyReports = TRUE`). Agents may crash, fail, poll and report in any
order, and deadlines may pass, in all of them.

The invariant is `UpdateInv`. Its largest part, `OneStart`, says that an undisturbed
run is either `Fresh` (nothing started yet, so nobody has staged or installed anything)
or, for one job, the `Story` of that job: only its rows, its record and its goroutine are
busy (`OnlyJob`); a node that was reached is not among the targets the goroutine has
left, and none of those is deeper (`LeafInv`); the agent of a Completed row has nothing
left to say and was visited by the goroutine (`DoneInv`); row and map entry are the
same but for a report that is stored and not yet applied (`MatchInv`); every target
that is passed is Completed (`OnlineInv`); and what an agent has on disk for each
report on its way and each status (`FullInv`). The parts build on one another: what an
action does is stated once per kind of step, and each part has a lemma for each kind.

`CompletedAcrossCrash` is about what a crash of the controller leaves: the map, the grant
and the reports on their way are gone, agents go on with what they were told, and the job
is resumed from rows that may be behind. It holds under `OneCrash`: one start, at most one
crash of the controller, no crash or failure of an agent and no report lost otherwise;
deadlines, rollbacks and deletions are free. TLC finds `CompletedIsInstalled` violated when
any of the five is dropped: with a second start, a second crash, a crash of an agent, a
failed download or a lost report, one of them makes a node that is recorded as Staged fetch
again or one that is recorded as Completed install again without the controller knowing,
and another stops it half-way; the copy it leaves is installed, or the row stays Completed.

Its invariant, `RecoveryInv`, follows one job (`OneJob`, `RunsFit`) and has two forms for
each agent. Until the crash, `NodeCalm`: a row that lets a node install is the row of a node
with a whole copy, which is not about to fetch another one without a report that will
correct the row. From the crash on only `NodeSafe` is left: a node whose copy is not whole
is `Barred` from installing wherever it might be let, by its map entry, by what a starting
goroutine has read or by the row a resume will read, or has a report on its way that says
so; and where a report of success reached the row but not the map (`Missed`), so that the
resumed run lets the node install once more, nothing was stopped half-way: either that grant
is still ahead (`Ahead`), or the agent waits for the answer to its "Installing", which will
take the Completed from the row before it touches a file. `RecoveryInv` was
checked by TLC on trees of two nodes before the proof.

Assumptions: `NodeAssumption` (a tree with depths; the controller is its root),
`BoundAssumption`, `NullAssumption`; TLC evaluates them in every run.

Only model-checked: liveness (`JobEnds`), which is out of the prover's reach.

## 4. Configurations: `ConfigPublish` and `ConfigApply`

`ConfigPublish` is the controller: requests that change nodes and links, and
`publishConfig`. `ConfigApply` extends it with the agents and netd; its `Next` is a
step of the controller that leaves the nodes alone, or a step of a node.

### State and actions

| Variable | Code |
|---|---|
| `alive`, `left` | rows of `nodes`; nodes that were deleted |
| `linkRow` | `wireguard_links.status` per pair of nodes (`"none"`: no row) |
| `lastGen` | `MAX(generation)` of `config_revisions` |
| `req` | the request goroutines: position, node, generation, list of nodes and compiled states as local variables |
| `desired` | `s.desired`: generation and links per node |
| `reported` | `nodes.active_generation` |
| `agent`, `activeGen` | an agent's position in `tick` and the state it fetched; `Agent.activeGen` |
| `dev`, `lastGood` | netd's WireGuard devices and last good state |
| `orphan` | an activation that netd still runs for an agent process that is gone |
| `unpublished`, `overlap`, `raced`, `foreign` | history, for the exceptions below |

A request is an arrival (`Enroll`, `CheckDelete`, `CreateLink`, `UpdateLink`,
`Publish`), what its handler does before it publishes (`EnrollLink`, `DeleteNode`,
`DropDesired`), and then one action per statement of `publishConfig`:
`NextGeneration`, `ListNodes` and `Compile` (`topology.Build` reads nodes and links
one after the other), `CreateConfigRevision`, `Store` (under `s.mu`). Several
requests run at once, and any step of one may come between two of another.
`CreatePendingLink` and `DeleteLink` change rows and publish nothing.
`EnrollFails` and `PublishFails` are the error returns; `ControllerRestart` loses
requests and `desired` and compiles the database as generation 1, or fails to.

A tick is `Heartbeat`, `Pull`, `Activate`, `SetLastGood` (netd applies under the
lock of its device manager and sets `lastGood` outside of any lock), `Verify` or
`VerifyFails` and `Rollback`. `ActivateFails` leaves the devices of both
configurations, some of the new ones, and nothing rolled back. `AgentRestart` turns
a running activation into an `orphan`; `NetdRestart` loses the devices.

### What is promised

Publications are not serialised, and the properties say what is left:

* `EndsAgree`: whatever overlaps, both ends of a link are served the same answer to
  whether it exists, because `Store` writes a compilation as a whole and a
  compilation reads the links once. An enrollment that overlaps is the exception:
  the list of nodes may lack the new node, and the link may be in the other end only.
* `ServedCurrent`: after a publication that nothing overlapped, the controller serves
  its database under one number. With overlap it may serve an older compilation: two
  publications may take the same number, and the one that read the topology first
  may store last. Nothing repairs that before the next publication.
* `DeletedNotServed`: a deleted node is not served, unless requests overlapped.
* `GenerationGrows`: a node is served something else only under a higher number,
  unless publications overlapped or the controller restarted (generation 1 again).
* `ReportedIsApplied`: a node whose agent holds the generation it is served has
  exactly the devices of that configuration, also after failed activations. It
  excludes what `GenerationGrows` excludes, a netd restart not yet followed by an
  activation, devices changed for a state the agent does not hold, and deleted nodes: an
  overlapping publication may go on serving one (section 12), under a number it has
  already seen.
* `Converges`: in the end every reachable node that is served a configuration runs
  it and is known to run it.

### Runs

The topology is a triangle: the tree `c <- a <- b` and a shortcut between `c` and
`b`; it has links inside and outside the control tree and an inner node. Two requests
at a time (`Slots`) are enough for every overlap of two publications; more than two are
covered by the proofs.

| Run | Bounds | Shows |
|---|---|---|
| `publish` | two requests at a time; one enrollment, one deletion, two edits or manual publications, one failure, one restart | `PublishTypeOK`, `EndsAgree`, `ServedCurrent`, `DeletedNotServed`, `GenerationGrows` |
| `apply` | one request at a time, one reachable node; one deletion, one edit or publication, one failed call, one restart each of controller, agent and netd; fair | `TypeOK`, `ReportedIsApplied`, `Converges` |

`apply` allows one request at a time: overlap is what `publish` is about, and a node
only ever sees the stored result. One node is enough because nodes do not interact
in the model (agents reach the controller directly; parents only forward).

### Fairness

`FairSpec` of `ConfigApply`: request goroutines run to their end (every wait in them
is for SQLite or a mutex that is always released), an agent ticks for ever (a timer),
and netd finishes the calls it has begun. Nothing forces an administrator, a failure
or a restart; failures and restarts are bounded, and `Converges` is about what comes
after the last of them.

### Proofs

`ConfigPublishProofs` proves `PublishTypeCorrect`, `ServedCorrect`,
`DeletedCorrect`, `EndsCorrect` and `GenerationsCorrect` for every topology, any
number of concurrent requests and every bound. None of the properties is inductive: what
is served was compiled several steps earlier, by a request that held it in local
variables meanwhile. `PublishInv` says what those variables contain:

* `OneAtATime`: a request marked `alone` is the only one, and as long as nothing
  overlapped every request in progress is.
* `NodesListed`: a list of nodes contains every node that exists, unless an
  enrollment overlapped, and exactly those if the request is alone. Nodes that
  never existed are served nothing.
* `WholeStates`: a compilation has one state per listed node, under the request's
  number, on which the ends of a link agree; if the request is alone and no
  change was made since, it is the current topology.
* `Generations`: an undisturbed request holds the number above all others until its
  revision is recorded, and the highest afterwards, with everything served below it.
* `NodesNamed`: a request about a node names one, and not the controller.

There is one lemma per step; the five arrivals share `ArrivalInv`, the failures
`FailureInv`. Initial states and restarts are `Fresh`, from which the invariant
follows at once. Assumptions: `TopologyAssumption` (finitely many nodes, ends of
links), `LimitAssumption`, `StateAssumption` (`NULL` is not a state), all evaluated by
TLC in the runs.

`ApplyTypeCorrect` and `ReportedCorrect` go on to agents and netd: `ApplyInv` is
`PublishInv` with, for every node, what its agent, its devices and netd's memory can
be (`NodeInv`):

* `OldNumbers`: the number of an undisturbed publication that is about to be stored is
  above every number an agent holds, so that the store cannot make a reported number
  true of something the node has not applied.
* `HoldsServed`: a state the agent has fetched under the served number is the served one.
* `DevicesHeld`: unless `foreign`, the devices are those of the state the agent is
  activating or verifying.
* `OrphanLate`: an activation whose agent is gone does not give netd its first good
  state after the agent has verified one.
* `CurrentApplied`: the property itself.

Only model-checked: `Converges`, a liveness property.

## 5. Releases along the tree: `ArtifactCache`

### State and actions

| Variable | Code |
|---|---|
| `cache`, `rel`, `bin` | the store's directory, `artifacts/releases/<Target>`, the installed files; a file is the version it holds, or absent, empty, partial |
| `source` | the directory the job is created from: one an administrator names, or the controller's `bin/` |
| `lock` | `Store.mu`, with who holds it across a download: the node's own agent or the handler of a client |
| `call` | the outstanding request of each client at its parent's `ServeHTTP` |
| `agent`, `staged` | the position in `prefetch`; the agents whose last report is Staged |
| `job` | the update: not created, being seeded, ready |
| `fresh` | history: the nodes about which `StagedIsTarget` speaks, see below |

`CreateUpdate` is `handleCreateUpdate` with either branch (a source directory or `bin/`);
`SeedBegins`, `SeedEnds` and `SeedFails` write the origin file by file, each more than once,
as the code does (release and flat store). `Hit`, `Miss`, `Serve`,
`Fallback`, `Broken` and `Disconnect` are `ServeHTTP` with `Ensure`: a miss keeps the
mutex and puts a request to the next store up, whose handler may do the same.
`EnsureFile`, `CopyToRelease`, `CopyToItself` and `ReportStaged` are `prefetch`; the
copy of a file to itself truncates it first, and so does the second `Seed` of `Run`
(`agent.go:91-93`), which is why a started agent has an empty cache. `Start` is a
restart of an agent at any moment: its mutex, prefetch and handlers are gone.
`StartController` is one of the controller: `Server.New` (`server.go:100-103`) seeds the
origin's flat store from `bin/` again, while the job goes on. `Install` and
`InstallController` replace installed files.

### Run, bounds, fairness

`artifacts`: two agents in a chain and an installer that asks the nearer one, so
that a prefetch and an installer compete for one store and a request climbs two
levels. One file is enough: files share nothing but the mutex. The job is created from a
directory with the target release or from one with the old release. One request of an
installer, and two events (`MaxEvents`) of any kind: starts of agents or controller,
installations, failures of a copy or a connection. Two are what an old file needs to
come back: a restart and a fallback, or an installation on one side of a restart. About 270,000
distinct states.

`FairSpec`: a handler that has its answer sends it (weak fairness), and a waiter for
a mutex gets it if it becomes free again and again (strong fairness on `Hit` and
`Miss`: a Go mutex hands over to waiters in order after a millisecond). Agents,
installers and the administrator are free to do nothing.

`OneDownload` and `RequestsEnd` are about the chain of mutexes held across the
network. A chain of stores is `Clean` if no store from a node up to and including the
origin holds a file of another release or half a file. `StagedIsTarget` says when a Staged report can
be believed: the chain was clean when the prefetch began (`fresh`), and since then no
handler fell back to installed files on it, none sent a file emptied under it, and no
controller that lacks the release started. `StaysClean` says that only two kinds of steps
bring anything else into a clean chain: an answer from `bin/` within it, and the start of
a controller whose own `bin/` is not the target release. Both happen in normal
operation: a controller is updated last, so that every restart before that puts its old
files into the origin (section 12).

### Proofs

`ArtifactCacheProofs` proves, for every tree and any files, directories, clients and
restarts of agents and controller:

* `DownloadsCorrect`: `Spec => []OneDownload`. `Owned` says of each node that exactly
  the holder of its mutex waits; a miss makes it hold, the end of the node's own request
  and a restart make it cease.
* `CleanCorrect`: `Spec => StaysClean`, from `ShapeInv` alone (every
  store has an entry for every file): what the origin holds is part of `Clean`, and the
  rest is a classification of what a step may write into a store (`ReseedWrites` for the
  start of a controller).
* `StagedCorrect`: `Spec => []StagedIsTarget`. `FileInv`: requests that wait for one
  another up the tree ask for the same file, and a handler about to send a file has had it.
  `StageInv`: the stores on the way up from a fresh node are clean (`CleanKept`), nothing
  it has read vanishes (`NothingVanishes`), and what its prefetch has behind it lies in its
  release directory; `FreshSteps` says which steps leave a node fresh.

Assumptions: `TreeAssumption` (every line of stores leads up to the origin; nobody is its
own parent), `ReleaseAssumption`, `BoundAssumption`.

## 6. Enrollment: `Enrollment` implements `Membership`

### State and actions

| Variable | Code |
|---|---|
| `row`, `left` | rows of `nodes` with control relation, address and port range; deleted ids |
| `token` | rows of `enrollment_tokens` |
| `link` | the row and endpoints of the link that enrollment created for a node |
| `req` | requests in progress: position and local variables |
| `answered` | tokens whose installer may commit |
| `enrolledBy`, `clash`, `stranded`, `moved` | history, for the exceptions |

`handleEnroll` is one action per statement that matters to others: `Enroll` (the
token), `ReadParent`, `AllocateOverlayIPv4`, `CreateNode`, `AllocateWGPort`,
`CreateLink`, `ParentEndpoint`, `ChildEndpoint`. `Commit` checks nothing, as the code.
`CheckDelete` and `DeleteNode` are apart, as the code. `AddNodeAddress`,
`UpdateNodePorts` and `ControllerRestart` change what enrollments read.

`Membership` is what this adds up to: members join one at a time below a member with a
new address and leave one at a time without children, until `clean` says that requests
interfered. The refinement maps members to rows, and `clean` to the absence of the
two interferences the history variable `clash` records.

### Run

`enroll`: the controller and three nodes, a token on each of two levels, three
enrollments, two at a time, and one event out of revocation, expiry, deletion, change
of a node and restart at any moment. Three addresses and two ports exhaust both pools.

### Proofs

`EnrollmentProofs` proves for every number of nodes, tokens, requests, addresses and
ports:

* `EnrollTypeCorrect` and `PortsDistinct`, from `EnrollInv`: a request in progress
  names what it needs (`Holds`); until two requests interfered, the address (`AddressFree`)
  or the port (`PortFree`) it has chosen is still free, and a node that is about to
  be deleted is still childless (`StillChildless`).
* `EnrollmentRefines`: `EnrollSpec => ImplementsMembership`. One lemma per kind of
  step; most are invisible, `CreateNode` maps to `Join`, `DeleteNode` to `Leave`.
* `AliveDistinct` and `AliveTree`, from the refinement and two lemmas about `Membership`
  alone, which keeps `DistinctAddresses` and `Tree`. `Tree`
  is stated without paths (no set of members has all its parents within itself), which
  makes it inductive: a joining node has a parent outside of any such set, a leaving one
  was nobody's parent.
* `TokensStaySpent`, an action property.
* `LanCorrect`. The count of listeners is not inductive; the invariant (`LanInv`) says
  that the children of a node without a public address all have its first port
  (`FirstPort`), so that `DistinctPorts` leaves at most one, and that whoever has a
  link to a child exists or existed (`ParentsKnown`): a new node has none.
* `ConnectedCorrect`. `ConnInv`: a node is enrolled by at most one request
  (`OneRequest`), the three statements about its link have been written as far as
  that request has got (`TreeWritten`), and whoever is no longer enrolled has all of
  them (`Finished`).

## 7. Routes: `ControlRouting`

### State, actions, run

`alive`, `parent`, `addr` and `links` are rows; a parent and an address are remembered
after the row is gone, because configurations and kernels still name it. Links are
numbered in the order of their creation, in which the code lists them. `desired` is
`s.desired`; `dev` and
`route` are what each kernel has: the AllowedIPs of every WireGuard device and the
device every route names. `Compile` is `routing.Compile` with `ControlNextHop`, whose
walk up the tree is `Above` (the least set with the node that is closed under parents);
`Reconcile` and `RouteTo` are what netd makes of a configuration, where the last of
several links with one interface name wins and routes are replaced but never removed.
`Enroll`, `JoinLink`, `LinkExistsBetween`, `CreateLink`, `SetLinkEnabled`,
`DeleteLink`, `DeleteNode` change rows; `Publish` and `Apply(n)` come whenever they
like, so that nodes forward by configurations of different ages. `Holder` follows a
packet for as many hops as there are nodes.

`routing`: a chain of three nodes and a fourth that may enroll anywhere, with two
edits (a link created beside the tree, deleted, disabled; a node deleted and its
address reused). `NeverAstray` holds in every mixture of configurations: no packet
circles or reaches a wrong node. `SettledDelivers` says what holds after everything is
published and applied, including the acceptance of the sender's address by each hop.

### Proofs

`ControlRoutingProofs` proves both for every tree of founders, every number of
nodes, addresses and links, and any history of edits, publications and applications,
from the invariant `RoutingInv`:

* `RoutingTypeOK` with `RowsTypeOK`: links have numbers up to a bound, and name
  enrolled nodes.
* `Family`: the nodes that were ever enrolled (`Given`) are a tree below the controller,
  again stated without paths; the ones that are left are closed upward.
* `Addresses`: a row's address is its own, and outside of `reused` nobody ever had it.
* `Configs` and `Devices`: wherever a configuration, or a device, of any age sends
  what is for an address, that `Leads` to the node with that address: the neighbour has
  strictly fewer edges of the tree left to it (`Closer`). A device only allows what the
  kernel routes to it.
* `Creations`: without overlapping creations there is one link between two nodes, and
  none while one is being created.

Why `Closer` survives: a node keeps its parent for life and enrolls only once, so that
paths between enrolled nodes never change (`PathStable`), and a new node's
address is new or becomes `reused`. Why a compilation has it: the path is the symmetric
difference of what is above its ends (`PathOf`), and the first hop crosses
an edge of it (`HopCrosses`), which takes just that edge off the path
(`PathAcross`). `PacketsNeverAstray` then counts: with each hop at least one edge fewer is
left, of at most as many as there are nodes. `SettledNetworkDelivers` follows the packet
along the path (`OnPath`): each holder has an enabled link over the next edge, one device
for it (`Creations`), and its first hop back to the sender is where the packet came
from (`HopBack`), which is why the next node takes it.

The library's induction theorems are out of reach of the provers, so these inductions
are over sets of numbers (`UpTo`, from `Least`) and over upward closed sets of nodes.
Assumption: `RoutingAssumption` (the founders are a finite tree with distinct
addresses). It has the founders' rows as `Enrollment` leaves them.

## 8. Where releases come from: `ReleaseOrigin`

GitHub's rolling release is three steps (`Announce`, `Withdraw`, `Upload`, from the
workflow). A request of the controller asks (`Ask`, `Pull`), without the mutex, gets an
answer (`Lookup`, `LookupFails`), stores it (`Store`), and, if it is a pull, downloads
(`Download`). Release directories have two writers, this one and `handleCreateUpdate`
(`policy_handlers.go:376-385`), which stages under any version whatever is in the
directory it is given, or in the controller's `bin/` as it is by then (`CreateUpdate`,
`Reading`). Both write one file after the other (`Skip`, `Truncate`, `Write`,
`WriteFails`, `CreateUpdateJob`). `InstallControllerRelease`, `CopyFile`, `CopyFails` and
`ScheduledRestart` are the controller's own installation; `Crash` comes at any time.

What the console is told is one of two: `Remembered`, an answer at most `Ttl` old, or,
with `skip_github=1` (`updates_release.go:331-339`), `Skipping`: the remembered answer at
any age, or the controller's own version. The console uses the latter on every "updates"
event and every four seconds during a job (`UpdatesView.vue:77`, `214-221`).

History: `lapses` records failed lookups and a package that moved between lookup and
download; `relabelled` the versions staged from files of another one; `patched` the
versions whose directory may be mixed or incomplete, because two wrote it at once, a
write failed or was interrupted, or the files it was made from were not those of one release.

* `AnswersAreRecent`: while no lookup fails, a `Remembered` answer was the latest at most
  `Ttl` ago, in whatever order overlapping lookups store theirs. No such limit holds with
  `skip_github`: there the answer was the latest when it was looked up.
* `StagedAsLabelled`: outside `relabelled`, and while no lookup failed and no package
  moved, a directory holds files of the version it is named after only.
* `RestartLoadsOneRelease`: the restart after an installation loads one release unless the
  directory is in `patched`. A `bin/` left half-way by an installation that stopped is
  one way to get there: staged under a version, it is installed as a mixture.

`origin`: two releases, two files, a directory with the second release but without one of
the files; two requests of any kind (lookups, pulls, jobs created by hand), which may
overlap, two installations, one failure or crash; answers are remembered for one tick of
two. Two requests are the least with which answers overtake each other or two write one directory, and
two installations the least with which one meets what another left half-way. About
970,000 distinct states. Three requests are only in the proofs.

`ReleaseOriginProofs` proves, for any number of releases, files, directories, requests and
events:

* `StagedCorrect` (`StagedAsLabelled`). `Copies` says what a request in progress writes:
  a pull the files of one package, a creation those of its directory or of `bin/`;
  `Follows` what a pull knows: until it downloads, GitHub offers the version it looked up
  or nothing.
* `AnswersCorrect` (`AnswersAreRecent`). Lookups overlap without a mutex, so the answer
  that is stored last may be the one that was looked up first; `RecentInv` bounds how
  late: a lookup is answered and stored within a tick, and every answer on its way was the
  latest version when its lookup began or later.
* `RestartCorrect` (`RestartLoadsOneRelease`). `Neat(v)` says of each version outside
  `patched` that at most one request writes its directory, from the files of one release,
  has written the files it has passed, and that a job names it only when it is whole; an
  installation has copied the files it has passed from there.

Assumption: `OriginAssumption`.

## 9. Traffic policies: `TrafficPolicy`

`policies`, `matches`, `hops` and `configs` are the four tables, `req` the handlers with
the policy each was asked for. `Validate` reads the links once; `CreatePolicy`,
`SavePolicyMatch`, `SavePolicyHop`, `SavePolicyConfig` are the statements, which fail
silently when a foreign key is gone; `DeletePolicy` and `DeleteNode` are transactions
that may come between any two of them. A match row has *two* foreign keys, the source
and the destination, in one INSERT (`policies.go:171-175`): if either names no node, the whole row is
dropped (`Insert`). `handleCreatePolicy` (95-110) checks neither these ids nor the outgoing node, so a request may
name nodes that are gone and `Stranger`, an id no node ever had.

`StoredAsRequested` says what is left: the hops are those asked for that still exist, at
their places, and the match and config rows (`Kept`) are as asked for, with NULL where a
node was deleted since, or are missing; missing only if a node they name is missing, and
always if they name one that never existed.

`policy`: one policy (rows of different policies do not touch), paths of two and three
hops over a controller and two nodes, any source, destination and outgoing node, two
changes of links, deletions at any moment.

`TrafficPolicyProofs` proves `PoliciesComplete` and `PoliciesClean` for every set of
nodes and policies, any ids and every length of paths. `IInv` says, per policy, that rows
exist only while the policy does (`Clean`), that no row names a node that is gone, and how far its
handler has got with what it was asked for. Assumption: `PolicyAssumption`.

Policies are stored and never enforced: nothing compiles them into configurations.
`StoredAsRequested` is therefore about the database alone.

## 10. Administrator: `AdminSessions`

`attempts` is the limiter's memory, `password` and `session` are rows, `req` the
requests. `Allow`, `Login`, `CreateSession` are the three steps of a login;
`Authenticate` is the middleware, whose rows the handlers `Logout`,
`ChangePassword` and `RevokeOtherSessions` go on using; `Restart` forgets the attempts.

`admin`: two requests, two sessions, two attempts within a window of two ticks,
a lifetime of two ticks, a clock of six, one change of the password, two revocations, one
restart. Two requests are one that changes something and one that overlaps it.

`AdminSessionsProofs` proves `SessionsCorrect` for any number of requests, sessions,
passwords and events. Two parts of the invariant carry it: a login that has compared
its password knows the present one unless it was changed since the login began
(`Knows`), and a session that is not revoked has survived the last revocation
(`Survivor`). `LimiterCorrect` proves `LimiterIsExact` for every limit, window and number
of addresses: what the limiter dropped has left the window, which only moves forward,
and what it keeps within the window never exceeds the limit (`Counted`). The slice of
times is modelled as a set of numbered times: the code only filters and counts it.

## 11. Only model-checked

Liveness (`JobEnds`, `Converges`, `RequestsEnd`), which is out of the prover's reach. Every
invariant and every action property of the runs has a theorem.

Assumptions of the proofs are the named ASSUMEs of the modules, which TLC evaluates in
the runs; `EnrollmentProofs` proves that `MembershipAssumption` holds of what it
instantiates `Membership` with.

## 12. Where the code differs from what one might expect

The properties above name these as exceptions or stay clear of them.

Updates:

* A node that prefetches again between the end of the prefetch loop and the marking
  scan is failed as "prefetch timeout" although no timeout passed
  (`policy_handlers.go:508`, the loop ends at line 490).
* After a controller restart the grant is forgotten (`server.go:75`): the resumed job
  can grant a second node while the first is installing. After an install timeout the
  same happens without a restart, although `bootstrap.go:407` says strictly one at a time.
* A crash during a repeated download leaves half a release behind a target that stays
  Staged; `updater.go:87-88` installs it unverified, and it is reported as Completed.
* The error of a copy into `bin/` over a running binary is dropped (`updater.go:107`), so
  the node reports Completed with old services; the controller's own copy stops there.
* Of two Running jobs a restart continues only the newest (`policy_handlers.go:684`).
* A rollback only rewrites rows: no node leaves the new release.
* `prefetch` copies cached files onto themselves and `Run` seeds a store from itself
  (`agent.go:91-93`): both truncate. A job without a source directory does it to the
  controller's store.
* Without an answer from GitHub, the latest package is labelled with the controller's own
  version; failures renew the time of an old answer, which makes the branch that repeats
  an error for five minutes and the callers' error branches unreachable.
* Every start of a controller seeds the origin's flat store from its own `bin/`
  (`server.go:100-103`): until it has installed the release itself, with old files, which its
  agents then stage under the new version's name.
* A second start of a running job spawns a second orchestrator, which resets the grant of
  the first (`policy_handlers.go:401-427`).
* A job created without a source directory stages the `bin/` of the controller under the
  version it is given (`policy_handlers.go:381-385`), also when an installation that stopped
  half-way left two releases there; installing that job restarts the controller on both. The errors of this
  staging are dropped, so that half a file may be staged, too.
* With `skip_github` the console shows a version of any age (`updates_release.go:331-339`).

Configurations:

* A publication that listed the nodes before a deletion stores the deleted node again
  (`nodes_handlers.go:185`, `195`); it is served until the controller restarts.
* A failed activation is not rolled back (`agent.go:226`): only a failed verification is,
  and netd's verification accepts everything.
* Deleting a link and creating a pending one publish nothing.
* Kernel routes are replaced and never removed, except with their device.
* The overlay follows the control tree (`docs/WIREGUARD.md`, the comments of `compile.go`,
  `graph_test.go`); `src/README.md:111` still speaks of the shortest path over existing links.

Nodes, links, policies, sessions:

* Until its commit, a token can enroll several nodes; the commit checks nothing, although
  tokens are meant for one use (`install.sh:46`).
* A failed port allocation leaves a node without a link.
* `AllocateOverlayIPv4` writes the octets 3 and 4 itself: it serves networks of the size
  of the default one.
* Interface names are made of the first four characters of an id and may collide;
  overlapping creations of one link always do, and that link then carries nothing.
* Deleting a node sets the column of a policy that names it to NULL, which means "any".
* A source or destination that is missing when the match is inserted drops the whole match
  without an error (`policies.go:171-175`), and nothing validates these ids before
  (`policy_handlers.go:95-110`): the stored policy has no match at all.
* A change of the password leaves other sessions valid.

## 13. Not modelled

`PROJECT.json` lists every component with the reason. In short:

* Who dials whom (bidirectional links, `repairLinkEndpoints`): a link's initiator
  always dials, so that no property above depends on it.
* `Updater.Stage`, `Rollback`, `HealthCheck`, `Store.EnsureRelease`, `Relay` and the state
  tables of `core/state.go` have no caller but tests.
* Firewall rules, forwarding and addresses, whose errors netd drops.
* Hashing, encryption, key and token generation.
* The web console, installers, packaging, commands, notifications and the audit log: no
  decision of the modelled parts depends on them.
