------------------------------ MODULE UpdateJob ------------------------------
(***************************************************************************)
(* The network-wide update of PathWeaver.  The controller keeps jobs and   *)
(* their per-node targets in SQLite and ONE in-memory record of the job    *)
(* being driven (s.activeUpdate).  Every start of a job spawns an          *)
(* orchestrator goroutine (runUpdateJob) that first lets every agent       *)
(* prefetch the release, then grants the installation to one node at a     *)
(* time, leaves of the control tree first, and installs the controller     *)
(* last.  Agents poll, work, and report over HTTP; a report is a row       *)
(* update followed by an update of the in-memory map, in two steps.        *)
(*                                                                         *)
(* Simplifications:                                                        *)
(*  - Time is nondeterministic: a 10 min or 5 min deadline may pass at any *)
(*    moment its loop looks at the clock.                                  *)
(*  - handleAgentUpdate is one step although it takes the lock twice and   *)
(*    reads job.Phase without it.  The record it points to only changes    *)
(*    while it is s.activeUpdate, the phase only goes from prefetch to     *)
(*    install, and the time the reply spends on the way is the time the    *)
(*    report posted because of it waits in wire; a torn read of Phase      *)
(*    gives a phase the agent ignores, which is a poll that did not        *)
(*    happen.                                                              *)
(*  - A read of the map and the write or grant it decides are one step     *)
(*    where a report falling between them has the same effect as one       *)
(*    falling right after.                                                 *)
(*  - Each job has its own target version, so a job names its release.     *)
(*  - One report per node is on its way at a time.                         *)
(*  - Agents reach the controller directly, not through their parents'     *)
(*    proxies; creating a job and its target rows is one step.             *)
(*  - The statuses that no code path writes (Verifying, SignatureInvalid,  *)
(*    HealthCheckFailed, ...) are left out.                                *)
(***************************************************************************)
EXTENDS Naturals, FiniteSets

CONSTANTS
  Node,                   \* every node of the control tree
  Controller,             \* its root
  Parent,                 \* control parent of every other node
  Depth,                  \* depth of a node in the control tree
  Online,                 \* the nodes whose agent is reachable
  Jobs,                   \* update jobs; a larger one is created later
  Slots,                  \* bound: orchestrator goroutines alive at once
  NULL,
  MaxStarts,              \* bound: calls of handleStartUpdate
  MaxRollbacks,           \* bound: calls of handleRollbackUpdate
  MaxDeletes,             \* bound: calls of handleDeleteNode
  MaxControllerRestarts,  \* bound: crashes of the controller
  MaxAgentRestarts,       \* bound: crashes of agents, all nodes together
  MaxFailures,            \* bound: failed downloads and installations
  MaxDeadlines,           \* bound: deadlines that pass
  LossyReports,           \* may a report be lost on the way?
  BusyFiles,              \* may a copy over a running binary fail?
  ConcurrentStarts        \* may a job be started while another one is driven?

ASSUME NodeAssumption ==
  /\ Controller \in Node
  /\ IsFiniteSet(Node)
  /\ Online \subseteq Node
  /\ Parent \in [Node \ {Controller} -> Node]
  /\ Depth \in [Node -> Nat]
  /\ \A n \in Node \ {Controller} : Depth[n] = Depth[Parent[n]] + 1
  /\ Jobs \subseteq Nat
  /\ NULL \notin Node /\ NULL \notin Jobs

ASSUME BoundAssumption ==
  /\ {MaxStarts, MaxRollbacks, MaxDeletes} \subseteq Nat
  /\ {MaxControllerRestarts, MaxAgentRestarts, MaxFailures, MaxDeadlines} \subseteq Nat
  /\ LossyReports \in BOOLEAN /\ BusyFiles \in BOOLEAN /\ ConcurrentStarts \in BOOLEAN

Agents == Node \ {Controller}

-----------------------------------------------------------------------------
(* Statuses (core/types.go) and the shapes of the state.                   *)

Unset == "unset"     \* no entry in StatusByNode
NoRow == "no row"    \* no row in update_targets

TargetStatus ==
  {"Waiting", "Prefetching", "Staged", "Installing", "Completed",
   "DownloadFailed", "InstallFailed", "RollingBack", "RolledBack"}

Reported == {"Prefetching", "Staged", "DownloadFailed",
             "Installing", "Completed", "InstallFailed"}

\* Variant: a node that has begun to install counts as finished.
InstallFinishedEarly == {"Installing", "Completed", "InstallFailed", "RolledBack"}

\* What the three scans of runUpdateJob and the resume treat as settled.
PrefetchSettled == {"Staged", "Completed", "InstallFailed", "DownloadFailed", "RolledBack"}
MarkKeeps       == {"Staged", "Completed", "InstallFailed", "DownloadFailed"}
InstallSkips    == {"Completed", "InstallFailed", "RolledBack", "DownloadFailed"}
InstallFinished == {"Completed", "InstallFailed", "RolledBack"}
ResumeTerminal  == {"Completed", "InstallFailed", "RolledBack", "DownloadFailed"}

JobStatus == {"none", "Created", "Running", "Completed", "RolledBack"}
Copy      == {"none", "partial", "full"}     \* a directory of release files

RunPC == {"free", "stageCtl", "publish", "head", "scan", "mark", "switch",
          "install", "wait", "ungrant", "set", "ctl", "ctlInstall",
          "finish", "clear"}

\* Where the goroutine goes after setUpdateNodeStatus.
AfterSet == {"free", "mark", "install", "ungrant", "ctlInstall", "finish"}

ActiveJob == [job: Jobs, phase: {"prefetch", "install"},
              install: Node \cup {NULL},
              status: [Node -> TargetStatus \cup {Unset}]]

Run == [pc: RunPC, job: Jobs \cup {NULL}, snap: [Node -> TargetStatus \cup {NoRow}],
        todo: SUBSET Node, pending: BOOLEAN, cur: Node \cup {NULL},
        val: TargetStatus \cup {Unset}, next: AfterSet, restart: BOOLEAN]

Report == [job: Jobs, status: Reported, stored: BOOLEAN]

ASSUME NullAssumption == NULL \notin ActiveJob /\ NULL \notin Report

Image == [job: Jobs, whole: BOOLEAN]         \* the binaries under bin/

Counters == {"starts", "rollbacks", "deletes", "ctl", "agents", "failures", "deadlines"}

VARIABLES
  \* SQLite
  alive, jobStatus, target,
  \* controller memory: s.activeUpdate, the goroutines, rollback handler
  active, run, rollback, resuming, restartDue,
  \* agents: program counter and job, report on its way, scheduled restart
  agent, wire, agentDue,
  \* disks: artifacts/releases/<v>, releases/<v>, bin/, the current symlink
  staged, release, bin, current,
  \* counters against the bounds
  used,
  \* history: the verdicts an orchestrator reached on its own
  gaveUp

dbVars    == <<alive, jobStatus, target>>
ctlVars   == <<active, run, rollback, resuming, restartDue>>
agentVars == <<agent, wire, agentDue>>
diskVars  == <<staged, release, bin, current>>
vars      == <<dbVars, ctlVars, agentVars, diskVars, used, gaveUp>>

FreeRun == [pc |-> "free", job |-> NULL, snap |-> [n \in Node |-> NoRow],
            todo |-> {}, pending |-> FALSE, cur |-> NULL, val |-> Unset,
            next |-> "free", restart |-> FALSE]

IdleAgent == [pc |-> "idle", job |-> NULL]

TypeOK ==
  /\ alive \subseteq Node
  /\ jobStatus \in [Jobs -> JobStatus]
  /\ target \in [Jobs -> [Node -> TargetStatus \cup {NoRow}]]
  /\ active \in ActiveJob \cup {NULL}
  /\ run \in [Slots -> Run]
  /\ rollback \in [job: Jobs, todo: SUBSET Node, mid: BOOLEAN] \cup {NULL}
  /\ resuming \in BOOLEAN /\ restartDue \in BOOLEAN
  /\ agent \in [Node -> [pc: {"idle", "prefetch", "copy", "install", "stage"},
                         job: Jobs \cup {NULL}]]
  /\ wire \in [Node -> Report \cup {NULL}]
  /\ agentDue \in [Node -> BOOLEAN]
  /\ staged \in [Node -> [Jobs -> Copy]] /\ release \in [Node -> [Jobs -> Copy]]
  /\ bin \in [Node -> Image \cup {NULL}] /\ current \in [Node -> Jobs \cup {NULL}]
  /\ used \in [Counters -> Nat]
  /\ gaveUp \in [Node -> SUBSET {"prefetch", "not staged", "install"}]

Init ==
  /\ alive = Node
  /\ jobStatus = [j \in Jobs |-> "none"]
  /\ target = [j \in Jobs |-> [n \in Node |-> NoRow]]
  /\ active = NULL
  /\ run = [r \in Slots |-> FreeRun]
  /\ rollback = NULL /\ resuming = FALSE /\ restartDue = FALSE
  /\ agent = [n \in Node |-> IdleAgent]
  /\ wire = [n \in Node |-> NULL]
  /\ agentDue = [n \in Node |-> FALSE]
  /\ staged = [n \in Node |-> [j \in Jobs |-> "none"]]
  /\ release = [n \in Node |-> [j \in Jobs |-> "none"]]
  /\ bin = [n \in Node |-> NULL] /\ current = [n \in Node |-> NULL]
  /\ used = [k \in Counters |-> 0]
  /\ gaveUp = [n \in Node |-> {}]

Spend(counter, limit) ==
  /\ used[counter] < limit
  /\ used' = [used EXCEPT ![counter] = @ + 1]

-----------------------------------------------------------------------------
(* Operations of the administrator.                                        *)

\* Variant: ORDER BY depth without DESC.
Shallowest(S) == {n \in S : \A m \in S : Depth[n] <= Depth[m]}

Deepest(S) == {n \in S : \A m \in S : Depth[m] <= Depth[n]}

Rows(j) == {n \in Node : target[j][n] # NoRow}

Free == {r \in Slots : run[r].pc = "free"}

\* A goroutine runUpdateJob(j, version, targets) with the list just read.
Spawn(r, j) ==
  run' = [run EXCEPT ![r] = [FreeRun EXCEPT !.pc = "stageCtl", !.job = j,
                                            !.snap = target[j]]]

CreateUpdate(j) ==
  /\ jobStatus[j] = "none"
  /\ \A i \in Jobs : i < j => jobStatus[i] # "none"
  /\ jobStatus' = [jobStatus EXCEPT ![j] = "Created"]
  /\ target' = [target EXCEPT ![j] =
                  [n \in Node |-> IF n \in alive THEN "Waiting" ELSE NoRow]]
  /\ UNCHANGED <<alive, ctlVars, agentVars, diskVars, used, gaveUp>>

\* No goroutine is running and none is about to be resumed.
Quiet == Free = Slots /\ ~resuming /\ ~restartDue

\* The code checks neither the status of the job nor that it is quiet.
StartUpdate(j) ==
  /\ jobStatus[j] # "none"
  /\ ConcurrentStarts \/ Quiet
  /\ jobStatus' = [jobStatus EXCEPT ![j] = "Running"]
  /\ \E r \in Free : Spawn(r, j)
  /\ Spend("starts", MaxStarts)
  /\ UNCHANGED <<alive, target, active, rollback, resuming, restartDue,
                 agentVars, diskVars, gaveUp>>

RollbackUpdate(j) ==
  /\ jobStatus[j] # "none" /\ rollback = NULL
  /\ rollback' = [job |-> j, todo |-> Rows(j), mid |-> FALSE]
  /\ Spend("rollbacks", MaxRollbacks)
  /\ UNCHANGED <<dbVars, active, run, resuming, restartDue, agentVars, diskVars, gaveUp>>

\* UPDATE of the target's row; a row that was deleted stays absent.
StoreStatus(j, n, s) ==
  target' = IF target[j][n] = NoRow THEN target ELSE [target EXCEPT ![j][n] = s]

\* One of the two UPDATEs of a target.
RollbackTarget ==
  /\ rollback # NULL
  /\ \E n \in Deepest(rollback.todo) :
       /\ StoreStatus(rollback.job, n, IF rollback.mid THEN "RolledBack" ELSE "RollingBack")
       /\ rollback' = [rollback EXCEPT !.mid = ~@,
                         !.todo = IF rollback.mid THEN @ \ {n} ELSE @]
  /\ UNCHANGED <<alive, jobStatus, active, run, resuming, restartDue,
                 agentVars, diskVars, used, gaveUp>>

\* Variant: the rollback also drops the job being driven.
RollbackDoneDropsJob ==
  /\ rollback # NULL /\ rollback.todo = {}
  /\ jobStatus' = [jobStatus EXCEPT ![rollback.job] = "RolledBack"]
  /\ rollback' = NULL /\ active' = NULL
  /\ UNCHANGED <<alive, target, run, resuming, restartDue,
                 agentVars, diskVars, used, gaveUp>>

RollbackDone ==
  /\ rollback # NULL /\ rollback.todo = {}
  /\ jobStatus' = [jobStatus EXCEPT ![rollback.job] = "RolledBack"]
  /\ rollback' = NULL
  /\ UNCHANGED <<alive, target, active, run, resuming, restartDue,
                 agentVars, diskVars, used, gaveUp>>

\* Only nodes without children; the target rows go with the node.
DeleteNode(n) ==
  /\ n \in alive \cap Agents
  /\ \A m \in alive \cap Agents : Parent[m] # n
  /\ alive' = alive \ {n}
  /\ target' = [j \in Jobs |-> [target[j] EXCEPT ![n] = NoRow]]
  /\ Spend("deletes", MaxDeletes)
  /\ UNCHANGED <<jobStatus, ctlVars, agentVars, diskVars, gaveUp>>

-----------------------------------------------------------------------------
(* The orchestrator goroutine r.                                           *)

\* The targets a scan visits: it skips the controller.
AgentRows(rows) == {n \in Agents : rows[n] # NoRow}

MapStatus(n) == IF active = NULL THEN Unset ELSE active.status[n]

\* The map's entry, whichever job the map belongs to, else the row just read.
Seen(r, n) == IF MapStatus(n) # Unset THEN MapStatus(n) ELSE run[r].snap[n]

\* setUpdateNodeStatus(n, s), first half: the row; RunSetMap is the second.
SetThen(r, n, s, next) ==
  /\ StoreStatus(run[r].job, n, s)
  /\ run' = [run EXCEPT ![r] = [run[r] EXCEPT !.pc = "set", !.cur = n, !.val = s,
                                              !.next = next, !.todo = @ \ {n}]]

GiveUp(n, why) == gaveUp' = [gaveUp EXCEPT ![n] = @ \cup {why}]

RunOnly  == UNCHANGED <<dbVars, active, rollback, resuming, restartDue,
                        agentVars, diskVars, used, gaveUp>>
RunAndDB == UNCHANGED <<alive, jobStatus, active, rollback, resuming, restartDue,
                        agentVars, diskVars, used>>
RunAndActive == UNCHANGED <<dbVars, rollback, resuming, restartDue,
                            agentVars, diskVars, used, gaveUp>>

\* The controller is the origin of the release: it counts as staged.
RunStageController(r) ==
  LET j == run[r].job IN
  /\ run[r].pc = "stageCtl"
  /\ IF run[r].snap[Controller] \in {"Completed", "InstallFailed"}
     THEN /\ run' = [run EXCEPT ![r].pc = "publish"]
          /\ UNCHANGED target
     ELSE /\ run' = [run EXCEPT ![r].pc = "publish", ![r].snap[Controller] = "Staged"]
          /\ StoreStatus(j, Controller, "Staged")
  /\ RunAndDB /\ UNCHANGED gaveUp

\* Replaces whatever job was active.
RunPublish(r) ==
  /\ run[r].pc = "publish"
  /\ active' = [job |-> run[r].job, phase |-> "prefetch", install |-> NULL,
                status |-> [n \in Node |-> IF run[r].snap[n] \in {NoRow, "Waiting"}
                                           THEN Unset ELSE run[r].snap[n]]]
  /\ run' = [run EXCEPT ![r].pc = "scan", ![r].todo = AgentRows(run[r].snap)]
  /\ RunAndActive

\* The two seconds of sleep are over and the ten minutes are not.
RunScanStart(r) ==
  /\ run[r].pc = "head"
  /\ run' = [run EXCEPT ![r].pc = "scan", ![r].todo = AgentRows(run[r].snap), ![r].pending = FALSE]
  /\ RunOnly

RunScan(r) ==
  /\ run[r].pc = "scan"
  /\ \E n \in Deepest(run[r].todo) :
       run' = [run EXCEPT
                 ![r].todo = @ \ {n},
                 ![r].pending = @ \/ (/\ n \in alive
                                      /\ Seen(r, n) \notin PrefetchSettled)]
  /\ RunOnly

\* Everybody settled: on to the marking scan; otherwise sleep and try again.
RunScanEnd(r) ==
  /\ run[r].pc = "scan" /\ run[r].todo = {}
  /\ LET rows == target[run[r].job] IN
     run' = [run EXCEPT ![r].pc = IF run[r].pending THEN "head" ELSE "mark",
                        ![r].snap = rows,
                        ![r].todo = IF run[r].pending THEN {} ELSE AgentRows(rows)]
  /\ RunOnly

\* The ten minutes are over.
PrefetchDeadline(r) ==
  /\ run[r].pc = "head"
  /\ run' = [run EXCEPT ![r].pc = "mark", ![r].snap = target[run[r].job],
                        ![r].todo = AgentRows(target[run[r].job])]
  /\ Spend("deadlines", MaxDeadlines)
  /\ UNCHANGED <<dbVars, active, rollback, resuming, restartDue, agentVars, diskVars, gaveUp>>

\* The scan that marks the late ones runs after a settled scan as well.
RunMark(r) ==
  /\ run[r].pc = "mark"
  /\ \E n \in Deepest(run[r].todo) :
       IF Seen(r, n) \in MarkKeeps
       THEN /\ run' = [run EXCEPT ![r].todo = @ \ {n}]
            /\ UNCHANGED <<target, gaveUp>>
       ELSE /\ SetThen(r, n, "DownloadFailed", "mark")
            /\ GiveUp(n, "prefetch")
  /\ RunAndDB

RunMarkEnd(r) ==
  /\ run[r].pc = "mark" /\ run[r].todo = {}
  /\ run' = [run EXCEPT ![r].pc = "switch"]
  /\ RunOnly

\* Second half of setUpdateNodeStatus: the map, if it is still this job's.
RunSetMap(r) ==
  /\ run[r].pc = "set"
  /\ active' = IF active # NULL /\ active.job = run[r].job
               THEN [active EXCEPT !.status[run[r].cur] = run[r].val]
               ELSE active
  /\ run' = [run EXCEPT ![r].pc = run[r].next, ![r].cur = NULL,
                        ![r].val = Unset, ![r].next = "free"]
  /\ RunAndActive

RunSwitchPhase(r) ==
  /\ run[r].pc = "switch"
  /\ active' = IF active = NULL THEN NULL
               ELSE [active EXCEPT !.phase = "install", !.install = NULL]
  /\ run' = [run EXCEPT ![r].pc = "install", ![r].snap = target[run[r].job],
                        ![r].todo = AgentRows(target[run[r].job])]
  /\ RunAndActive

\* Leaves first.
RunSkip(r) ==
  /\ run[r].pc = "install"
  /\ \E n \in Deepest(run[r].todo) :
       /\ Seen(r, n) \in InstallSkips
       /\ run' = [run EXCEPT ![r].todo = @ \ {n}]
  /\ RunOnly

RunNotStaged(r) ==
  /\ run[r].pc = "install"
  /\ \E n \in Deepest(run[r].todo) :
       /\ Seen(r, n) \notin InstallSkips \cup {"Staged", "Installing"}
       /\ SetThen(r, n, "InstallFailed", "install")
       /\ GiveUp(n, "not staged")
  /\ RunAndDB

RunGrant(r) ==
  /\ run[r].pc = "install"
  /\ \E n \in Deepest(run[r].todo) :
       /\ Seen(r, n) \in {"Staged", "Installing"}
       /\ run' = [run EXCEPT ![r].pc = "wait", ![r].cur = n, ![r].todo = @ \ {n}]
       /\ active' = IF active = NULL THEN NULL ELSE [active EXCEPT !.install = n]
  /\ RunAndActive

RunFinished(r) ==
  /\ run[r].pc = "wait" /\ MapStatus(run[r].cur) \in InstallFinished
  /\ run' = [run EXCEPT ![r].pc = "ungrant"]
  /\ RunOnly

\* The five minutes are over; the map is not looked at again.
InstallDeadline(r) ==
  /\ run[r].pc = "wait"
  /\ SetThen(r, run[r].cur, "InstallFailed", "ungrant")
  /\ GiveUp(run[r].cur, "install")
  /\ Spend("deadlines", MaxDeadlines)
  /\ UNCHANGED <<alive, jobStatus, active, rollback, resuming, restartDue, agentVars, diskVars>>

\* Variant: InstallNodeID is reset to a value that is no node.
RunUngrantGarbage(r) ==
  /\ run[r].pc = "ungrant"
  /\ active' = IF active = NULL THEN NULL ELSE [active EXCEPT !.install = Unset]
  /\ run' = [run EXCEPT ![r].pc = "install", ![r].cur = NULL]
  /\ RunAndActive

RunUngrant(r) ==
  /\ run[r].pc = "ungrant"
  /\ active' = IF active = NULL THEN NULL ELSE [active EXCEPT !.install = NULL]
  /\ run' = [run EXCEPT ![r].pc = "install", ![r].cur = NULL]
  /\ RunAndActive

\* Variant: the loop over the targets ends one target early.
RunAllGrantedEarly(r) ==
  /\ run[r].pc = "install" /\ Cardinality(run[r].todo) <= 1
  /\ run' = [run EXCEPT ![r].pc = "ctl", ![r].cur = NULL, ![r].todo = {}]
  /\ RunOnly

RunAllGranted(r) ==
  /\ run[r].pc = "install" /\ run[r].todo = {}
  /\ run' = [run EXCEPT ![r].pc = "ctl", ![r].cur = NULL]
  /\ RunOnly

\* Controller last.
RunController(r) ==
  /\ run[r].pc = "ctl"
  /\ IF MapStatus(Controller) = "Completed"
     THEN run' = [run EXCEPT ![r].pc = "finish", ![r].restart = TRUE] /\ UNCHANGED target
     ELSE SetThen(r, Controller, "Installing", "ctlInstall")
  /\ RunAndDB /\ UNCHANGED gaveUp

\* installControllerRelease copies file by file and stops at the first error.
RunInstallController(r) ==
  LET j == run[r].job IN
  /\ run[r].pc = "ctlInstall"
  /\ \/ /\ bin' = [bin EXCEPT ![Controller] = [job |-> j, whole |-> TRUE]]
        /\ StoreStatus(j, Controller, "Completed")
        /\ run' = [run EXCEPT ![r] = [run[r] EXCEPT !.pc = "set", !.cur = Controller,
                     !.val = "Completed", !.next = "finish", !.restart = TRUE]]
        /\ UNCHANGED used
     \/ /\ bin' \in {bin, [bin EXCEPT ![Controller] = [job |-> j, whole |-> FALSE]]}
        /\ SetThen(r, Controller, "InstallFailed", "finish")
        /\ Spend("failures", MaxFailures)
  /\ UNCHANGED <<alive, jobStatus, active, rollback, resuming, restartDue, agentVars,
                 staged, release, current, gaveUp>>

\* The job is Completed whatever became of its targets.
RunFinish(r) ==
  /\ run[r].pc = "finish"
  /\ jobStatus' = [jobStatus EXCEPT ![run[r].job] = "Completed"]
  /\ run' = [run EXCEPT ![r].pc = "clear"]
  /\ UNCHANGED <<alive, target, active, rollback, resuming, restartDue,
                 agentVars, diskVars, used, gaveUp>>

RunClear(r) ==
  /\ run[r].pc = "clear"
  /\ active' = NULL
  /\ restartDue' = (restartDue \/ run[r].restart)
  /\ run' = [run EXCEPT ![r] = FreeRun]
  /\ UNCHANGED <<dbVars, rollback, resuming, agentVars, diskVars, used, gaveUp>>

-----------------------------------------------------------------------------
(* The controller process restarts: by a crash, or because a finished job  *)
(* asked systemd to.  Memory and the requests being served are lost.       *)

ControllerRestart ==
  /\ IF restartDue THEN UNCHANGED used ELSE Spend("ctl", MaxControllerRestarts)
  /\ active' = NULL /\ rollback' = NULL
  /\ run' = [r \in Slots |-> FreeRun]
  /\ resuming' = TRUE /\ restartDue' = FALSE
  /\ wire' = [n \in Node |-> NULL]
  /\ UNCHANGED <<dbVars, agent, agentDue, diskVars, gaveUp>>

Running == {j \in Jobs : jobStatus[j] = "Running"}

\* Variant: nothing is resumed after a restart.
ResumeNothing ==
  /\ resuming /\ resuming' = FALSE
  /\ UNCHANGED <<dbVars, active, run, rollback, restartDue,
                 agentVars, diskVars, used, gaveUp>>

\* Two seconds after the start: the newest Running job only.
Resume ==
  /\ resuming /\ resuming' = FALSE
  /\ \/ Running = {} /\ UNCHANGED <<jobStatus, run>>
     \/ \E j \in Running :
          /\ \A k \in Running : k <= j
          /\ IF \A n \in Rows(j) : target[j][n] \in ResumeTerminal
             THEN jobStatus' = [jobStatus EXCEPT ![j] = "Completed"] /\ UNCHANGED run
             ELSE /\ UNCHANGED jobStatus
                  /\ IF active # NULL THEN UNCHANGED run ELSE \E r \in Free : Spawn(r, j)
  /\ UNCHANGED <<alive, target, active, rollback, restartDue,
                 agentVars, diskVars, used, gaveUp>>

-----------------------------------------------------------------------------
(* The agent of node n: one tick after the other, one request at a time.   *)

\* reportUpdate: the post is on its way; the agent waits for the answer.
Post(n, j, s) == wire' = [wire EXCEPT ![n] = [job |-> j, status |-> s, stored |-> FALSE]]

Goto(n, j, pc) == agent' = [agent EXCEPT ![n] = [pc |-> pc, job |-> j]]

Ready(n, pc) == agent[n].pc = pc /\ wire[n] = NULL

AgentOnly == UNCHANGED <<dbVars, ctlVars, agentDue, used, gaveUp>>

\* The answer "prefetch": given to any node, whatever its status.
PollPrefetch(n) ==
  /\ n \in Online /\ Ready(n, "idle")
  /\ active # NULL /\ active.phase = "prefetch"
  /\ Goto(n, active.job, "prefetch") /\ Post(n, active.job, "Prefetching")
  /\ AgentOnly /\ UNCHANGED diskVars

\* Variants: the answer does not look at InstallNodeID; at the phase of the
\* node's own download; at an installation already reported.
PollInstallUngranted(n) ==
  /\ n \in Online \ {Controller} /\ Ready(n, "idle")
  /\ active # NULL /\ active.phase = "install"
  /\ active.status[n] \in {"Staged", "Installing"}
  /\ Goto(n, active.job, "install") /\ Post(n, active.job, "Installing")
  /\ AgentOnly /\ UNCHANGED diskVars

PollInstallUnstaged(n) ==
  /\ n \in Online \ {Controller} /\ Ready(n, "idle")
  /\ active # NULL /\ active.phase = "install"
  /\ active.install = n /\ active.status[n] \in {"Prefetching", "Staged", "Installing"}
  /\ Goto(n, active.job, "install") /\ Post(n, active.job, "Installing")
  /\ AgentOnly /\ UNCHANGED diskVars

PollInstallAgain(n) ==
  /\ n \in Online \ {Controller} /\ Ready(n, "idle")
  /\ active # NULL /\ active.phase = "install"
  /\ active.install = n /\ active.status[n] \in {"Staged", "Installing", "Completed"}
  /\ Goto(n, active.job, "install") /\ Post(n, active.job, "Installing")
  /\ AgentOnly /\ UNCHANGED diskVars

\* The answer "install": only to the node that holds the grant.
PollInstall(n) ==
  /\ n \in Online \ {Controller} /\ Ready(n, "idle")
  /\ active # NULL /\ active.phase = "install"
  /\ active.install = n /\ active.status[n] \in {"Staged", "Installing"}
  /\ Goto(n, active.job, "install") /\ Post(n, active.job, "Installing")
  /\ AgentOnly /\ UNCHANGED diskVars

\* The first file is opened for writing: what was there is truncated.
PrefetchCopy(n) ==
  /\ Ready(n, "prefetch")
  /\ Goto(n, agent[n].job, "copy")
  /\ staged' = [staged EXCEPT ![n][agent[n].job] = "partial"]
  /\ AgentOnly /\ UNCHANGED <<wire, release, bin, current>>

PrefetchDone(n) ==
  /\ agent[n].pc = "copy"
  /\ staged' = [staged EXCEPT ![n][agent[n].job] = "full"]
  /\ Goto(n, NULL, "idle") /\ Post(n, agent[n].job, "Staged")
  /\ AgentOnly /\ UNCHANGED <<release, bin, current>>

\* No artifact to begin with, or a failure half way; the directory exists.
PrefetchFails(n) ==
  /\ Ready(n, "prefetch") \/ agent[n].pc = "copy"
  /\ staged' = [staged EXCEPT ![n][agent[n].job] = IF @ = "none" THEN "partial" ELSE @]
  /\ Goto(n, NULL, "idle") /\ Post(n, agent[n].job, "DownloadFailed")
  /\ Spend("failures", MaxFailures)
  /\ UNCHANGED <<dbVars, ctlVars, agentDue, release, bin, current, gaveUp>>

\* The copy into bin/, from where systemd starts the services; the error of
\* opening a file that is being executed is dropped.
CopyToBin(n, j, whole) ==
  \/ bin' = [bin EXCEPT ![n] = [job |-> j, whole |-> whole]]
  \/ BusyFiles /\ UNCHANGED bin

\* StageFromDir: without a directory to read it fails before any write.
InstallCopy(n) ==
  LET j == agent[n].job IN
  /\ Ready(n, "install")
  /\ IF staged[n][j] = "none"
     THEN /\ Goto(n, NULL, "idle") /\ Post(n, j, "InstallFailed")
          /\ UNCHANGED <<release, bin>>
     ELSE /\ Goto(n, j, "stage")
          /\ release' = [release EXCEPT ![n][j] = "partial"]
          /\ CopyToBin(n, j, FALSE)
          /\ UNCHANGED wire
  /\ AgentOnly /\ UNCHANGED <<staged, current>>

\* All files copied, the symlink switched, Completed reported.
InstallDone(n) ==
  LET j == agent[n].job IN
  /\ agent[n].pc = "stage"
  /\ release' = [release EXCEPT ![n][j] = staged[n][j]]
  /\ CopyToBin(n, j, staged[n][j] = "full")
  /\ current' = [current EXCEPT ![n] = j]
  /\ Goto(n, NULL, "idle") /\ Post(n, j, "Completed")
  /\ agentDue' = [agentDue EXCEPT ![n] = TRUE]
  /\ UNCHANGED <<dbVars, ctlVars, staged, used, gaveUp>>

\* Variant: the error of an installation is not looked at.
InstallFailsSilently(n) ==
  /\ agent[n].pc = "stage"
  /\ Goto(n, NULL, "idle") /\ Post(n, agent[n].job, "Completed")
  /\ Spend("failures", MaxFailures)
  /\ UNCHANGED <<dbVars, ctlVars, agentDue, diskVars, gaveUp>>

\* A file cannot be copied, or the symlink cannot be switched.
InstallFails(n) ==
  /\ agent[n].pc = "stage"
  /\ Goto(n, NULL, "idle") /\ Post(n, agent[n].job, "InstallFailed")
  /\ Spend("failures", MaxFailures)
  /\ UNCHANGED <<dbVars, ctlVars, agentDue, diskVars, gaveUp>>

\* systemd restarts the agent after an installation (the report has been
\* answered by then), or it crashes; the disk stays as it is.
AgentRestart(n) ==
  /\ IF agentDue[n] /\ wire[n] = NULL THEN UNCHANGED used
     ELSE Spend("agents", MaxAgentRestarts)
  /\ agent' = [agent EXCEPT ![n] = IdleAgent]
  /\ agentDue' = [agentDue EXCEPT ![n] = FALSE]
  /\ UNCHANGED <<dbVars, ctlVars, wire, diskVars, gaveUp>>

(* handleAgentUpdateReport: first the row, whatever its status is, then    *)
(* the map, if the report is about the active job.                         *)

\* Variant: a row that is Staged is only left by an installation, while the
\* map takes every report.
ReportStoreGuarded(n) ==
  /\ wire[n] # NULL /\ ~wire[n].stored
  /\ IF target[wire[n].job][n] = "Staged" /\ wire[n].status = "Prefetching"
     THEN UNCHANGED target
     ELSE StoreStatus(wire[n].job, n, wire[n].status)
  /\ wire' = [wire EXCEPT ![n].stored = TRUE]
  /\ UNCHANGED <<alive, jobStatus, ctlVars, agent, agentDue, diskVars, used, gaveUp>>

ReportStore(n) ==
  /\ wire[n] # NULL /\ ~wire[n].stored
  /\ StoreStatus(wire[n].job, n, wire[n].status)
  /\ wire' = [wire EXCEPT ![n].stored = TRUE]
  /\ UNCHANGED <<alive, jobStatus, ctlVars, agent, agentDue, diskVars, used, gaveUp>>

ReportApply(n) ==
  /\ wire[n] # NULL /\ wire[n].stored
  /\ active' = IF active # NULL /\ active.job = wire[n].job
               THEN [active EXCEPT !.status[n] = wire[n].status] ELSE active
  /\ wire' = [wire EXCEPT ![n] = NULL]
  /\ UNCHANGED <<dbVars, run, rollback, resuming, restartDue, agent, agentDue,
                 diskVars, used, gaveUp>>

ReportLost(n) ==
  /\ LossyReports /\ wire[n] # NULL /\ ~wire[n].stored
  /\ wire' = [wire EXCEPT ![n] = NULL]
  /\ UNCHANGED <<dbVars, ctlVars, agent, agentDue, diskVars, used, gaveUp>>

-----------------------------------------------------------------------------

Operator ==
  \/ \E j \in Jobs : CreateUpdate(j) \/ StartUpdate(j) \/ RollbackUpdate(j)
  \/ RollbackTarget \/ RollbackDone
  \/ \E n \in Node : DeleteNode(n)

\* What the goroutine does on its own, without a deadline passing.
Orchestrator(r) ==
  \/ RunStageController(r) \/ RunPublish(r)
  \/ RunScanStart(r) \/ RunScan(r) \/ RunScanEnd(r)
  \/ RunMark(r) \/ RunMarkEnd(r) \/ RunSetMap(r) \/ RunSwitchPhase(r)
  \/ RunSkip(r) \/ RunNotStaged(r) \/ RunGrant(r) \/ RunFinished(r)
  \/ RunUngrant(r) \/ RunAllGranted(r)
  \/ RunController(r) \/ RunInstallController(r) \/ RunFinish(r) \/ RunClear(r)

Deadline(r) == PrefetchDeadline(r) \/ InstallDeadline(r)

AgentStep(n) ==
  \/ PollPrefetch(n) \/ PollInstall(n)
  \/ PrefetchCopy(n) \/ PrefetchDone(n) \/ PrefetchFails(n)
  \/ InstallCopy(n) \/ InstallDone(n) \/ InstallFails(n)
  \/ AgentRestart(n)

Delivery(n) == ReportStore(n) \/ ReportApply(n) \/ ReportLost(n)

Next ==
  \/ Operator
  \/ ControllerRestart \/ Resume
  \/ \E r \in Slots : Orchestrator(r) \/ Deadline(r)
  \/ \E n \in Node : AgentStep(n) \/ Delivery(n)

Spec == Init /\ [][Next]_vars

(***************************************************************************)
(* Only the controller's own goroutines are fair: they run in one process  *)
(* and wait for nothing but the clock.  A loop that looks at the clock for *)
(* ever finds its deadline passed, and a restart asked of systemd happens. *)
(* Nothing is assumed of agents.                                           *)
(***************************************************************************)
Fairness ==
  /\ \A r \in Slots : /\ WF_vars(Orchestrator(r))
                      /\ SF_vars(PrefetchDeadline(r))
                      /\ WF_vars(InstallDeadline(r))
  /\ WF_vars(Resume)
  /\ WF_vars(restartDue /\ ControllerRestart)

FairSpec == Spec /\ Fairness

-----------------------------------------------------------------------------
(* Properties.                                                             *)

\* The agents no orchestrator has overruled.
Decidable == {n \in Agents : gaveUp[n] = {}}

Installing(n) == agent[n].pc \in {"install", "stage"}

\* The orchestrator waits for the node that the active record grants.
HasGrant(r) ==
  /\ run[r].pc = "wait" /\ active # NULL
  /\ active.job = run[r].job /\ active.phase = "install"
  /\ active.install = run[r].cur

\* What an orchestrator does to the record it shares with the others.
Overwrites(r) ==
  RunPublish(r) \/ RunSwitchPhase(r) \/ RunGrant(r) \/ RunUngrant(r) \/ RunClear(r)

\* While an orchestrator waits for the node it granted, no report, poll, rollback,
\* deletion or creation, of this job or of another one, takes that grant back: only
\* a second orchestrator on the same record does (policy_handlers.go:413, 453-577,
\* 609), started by hand or by the resume.
GrantHeld ==
  [][\A r \in Slots : HasGrant(r) /\ run'[r].pc = "wait" =>
       HasGrant(r)' \/ \E s \in Slots \ {r} : Overwrites(s)]_vars

\* One node installs at a time (server.go:75): two agents are inside an
\* installation only if an orchestrator gave up on one of them.
SerialInstall ==
  \A m, n \in Node : m # n /\ Installing(m) /\ Installing(n) =>
    "install" \in gaveUp[m] \cup gaveUp[n]

Begun(n, j) == IF n = Controller THEN bin[n] # NULL /\ bin[n].job = j
               ELSE release[n][j] # "none"

\* Leaves first, controller last (policy_handlers.go:521-606): while a node
\* installs, deleted or not, no node closer to the root has started to replace
\* its release, unless an orchestrator gave up waiting for the deeper one.
LeafFirst ==
  \A m \in Agents, n \in Node :
    Depth[m] > Depth[n] /\ Installing(m) /\ Begun(n, agent[m].job) =>
      "install" \in gaveUp[m]

\* A target is recorded as Completed only if the node switched to a whole
\* copy of the release, and, unless a copy over a running binary failed, its
\* services start from that release (agent.go:306-317); a run resumed by a
\* controller that missed the report may have it installed a second time.
CompletedIsInstalled ==
  \A j \in Jobs, n \in Agents : target[j][n] = "Completed" =>
    /\ current[n] = j
    /\ Installing(n) \/ release[n][j] = "full"
    /\ Installing(n) \/ BusyFiles \/ bin[n] = [job |-> j, whole |-> TRUE]

\* A recorded success is only ever replaced by the verdict of an orchestrator
\* that stopped waiting for it (policy_handlers.go:571).
SuccessSticks ==
  [][\A j \in Jobs, n \in Agents :
       target[j][n] = "Completed" /\ target'[j][n] # "Completed" =>
         "install" \in gaveUp'[n]]_vars

\* When the job has ended, every agent runs the release, unless an orchestrator
\* wrote a verdict of its own about it (a node that is offline, among others) or
\* something failed (policy_handlers.go:513-606).
NobodyForgotten ==
  \A j \in Jobs, n \in Decidable :
    jobStatus[j] = "Completed" /\ used["failures"] = 0 =>
      target[j][n] = "Completed" /\ current[n] = j

\* Without a report on its way, map and row of the active job agree about every
\* agent no orchestrator has overruled (policy_handlers.go:449, bootstrap.go:431-437).
MapMatchesRow ==
  active # NULL =>
    \A n \in Decidable : wire[n] = NULL /\ MapStatus(n) # Unset =>
      target[active.job][n] = MapStatus(n)

\* A started job comes to an end although agents may be offline for ever.
JobEnds == \A j \in Jobs : jobStatus[j] = "Running" ~> jobStatus[j] # "Running"

=============================================================================
