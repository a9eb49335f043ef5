--------------------------- MODULE UpdateJobProofs ---------------------------
(***************************************************************************)
(* Proofs about UpdateJob, for every tree of nodes, every set of jobs and  *)
(* every value of the bounds.                                              *)
(***************************************************************************)
EXTENDS UpdateJob, TLAPS

\* Whoever works for a job names one, and whoever waits for a node names it.
JobsNamed ==
  /\ \A r \in Slots : run[r].pc # "free" => run[r].job \in Jobs
  /\ \A r \in Slots : run[r].pc = "wait" => run[r].cur \in Node
  /\ \A n \in Node : agent[n].pc # "idle" => agent[n].job \in Jobs

TypeInv == TypeOK /\ JobsNamed

-----------------------------------------------------------------------------

LEMMA FreeRunType == FreeRun \in Run /\ FreeRun.pc = "free"
  BY DEF FreeRun, Run, RunPC, AfterSet, TargetStatus, Unset, NoRow

LEMMA InitType == Init => TypeInv
<1> SUFFICES ASSUME Init PROVE TypeInv
  OBVIOUS
<1> USE DEF Init
<1>1. run \in [Slots -> Run]
  BY FreeRunType
<1>2. agent \in [Node -> [pc: {"idle", "prefetch", "copy", "install", "stage"},
                          job: Jobs \cup {NULL}]]
  BY DEF IdleAgent
<1>3. /\ target \in [Jobs -> [Node -> TargetStatus \cup {NoRow}]]
      /\ jobStatus \in [Jobs -> JobStatus]
      /\ staged \in [Node -> [Jobs -> Copy]] /\ release \in [Node -> [Jobs -> Copy]]
  BY DEF JobStatus, Copy
<1>4. used \in [Counters -> Nat]
  OBVIOUS
<1>5. JobsNamed
  BY FreeRunType DEF JobsNamed, IdleAgent
<1> QED
  BY <1>1, <1>2, <1>3, <1>4, <1>5 DEF TypeInv, TypeOK

\* A step of goroutine r: it keeps its job until it ends.
RunStep(r) ==
  /\ run' \in [Slots -> Run]
  /\ run[r].pc # "free"
  /\ run'[r].pc = "free" \/ run'[r].job = run[r].job
  /\ run'[r].pc = "wait" => run'[r].cur \in Node
  /\ \A q \in Slots : q # r => run'[q] = run[q]

LEMMA RunStepNamed ==
  ASSUME NEW r \in Slots, JobsNamed, RunStep(r), UNCHANGED agent
  PROVE  JobsNamed'
  BY DEF JobsNamed, RunStep

LEMMA SpawnType ==
  ASSUME NEW r \in Slots, NEW j \in Jobs, run \in [Slots -> Run],
         target \in [Jobs -> [Node -> TargetStatus \cup {NoRow}]], Spawn(r, j)
  PROVE  /\ run' \in [Slots -> Run]
         /\ run'[r].pc = "stageCtl" /\ run'[r].job = j
         /\ \A q \in Slots : q # r => run'[q] = run[q]
<1> DEFINE new == [FreeRun EXCEPT !.pc = "stageCtl", !.job = j, !.snap = target[j]]
<1>1. new \in Run /\ new.pc = "stageCtl" /\ new.job = j
  BY FreeRunType DEF Run, RunPC
<1>2. run' = [run EXCEPT ![r] = new]
  BY DEF Spawn
<1> HIDE DEF new
<1> QED
  BY <1>1, <1>2

LEMMA StoreType ==
  ASSUME target \in [Jobs -> [Node -> TargetStatus \cup {NoRow}]],
         NEW j, NEW n, NEW st \in TargetStatus, StoreStatus(j, n, st)
  PROVE  target' \in [Jobs -> [Node -> TargetStatus \cup {NoRow}]]
<1>1. CASE target[j][n] = NoRow
  BY <1>1 DEF StoreStatus
<1>2. CASE target[j][n] # NoRow
  <2>1. target' = [target EXCEPT ![j][n] = st]
    BY <1>2 DEF StoreStatus
  <2>2. \A i \in Jobs : target'[i] \in [Node -> TargetStatus \cup {NoRow}]
    BY <2>1
  <2> QED
    BY <2>1, <2>2
<1> QED
  BY <1>1, <1>2

LEMMA SpendType ==
  ASSUME used \in [Counters -> Nat], NEW k \in Counters, NEW limit, Spend(k, limit)
  PROVE  used' \in [Counters -> Nat]
  BY DEF Spend

LEMMA SetThenType ==
  ASSUME NEW r \in Slots, NEW n \in Node, NEW st \in TargetStatus, NEW next \in AfterSet,
         run \in [Slots -> Run], run[r].pc # "free",
         target \in [Jobs -> [Node -> TargetStatus \cup {NoRow}]],
         SetThen(r, n, st, next)
  PROVE  /\ RunStep(r)
         /\ run'[r].pc = "set" /\ run'[r].job = run[r].job
         /\ run'[r].next = next /\ run'[r].cur = n
         /\ target' \in [Jobs -> [Node -> TargetStatus \cup {NoRow}]]
<1> DEFINE new == [run[r] EXCEPT !.pc = "set", !.cur = n, !.val = st,
                                 !.next = next, !.todo = @ \ {n}]
<1>0. run[r] \in Run /\ "set" \in RunPC
  BY DEF RunPC
<1>1. new \in Run /\ new.pc = "set" /\ new.job = run[r].job /\ new.next = next /\ new.cur = n
  BY <1>0 DEF Run, RunPC, AfterSet
<1>2. run' = [run EXCEPT ![r] = new]
  BY DEF SetThen
<1>3. target' \in [Jobs -> [Node -> TargetStatus \cup {NoRow}]]
  <2>1. StoreStatus(run[r].job, n, st)
    BY DEF SetThen
  <2> QED
    BY <2>1, StoreType
<1> HIDE DEF new
<1> QED
  BY <1>1, <1>2, <1>3 DEF RunStep

LEMMA OperatorType ==
  ASSUME TypeInv, Operator PROVE TypeInv'
<1> USE DEF dbVars, ctlVars, agentVars, diskVars
<1>a. /\ target \in [Jobs -> [Node -> TargetStatus \cup {NoRow}]]
      /\ jobStatus \in [Jobs -> JobStatus]
      /\ run \in [Slots -> Run]
      /\ used \in [Counters -> Nat]
      /\ rollback \in [job: Jobs, todo: SUBSET Node, mid: BOOLEAN] \cup {NULL}
  BY DEF TypeInv, TypeOK
<1>1. ASSUME NEW j \in Jobs, CreateUpdate(j) PROVE TypeInv'
  <2>1. target' \in [Jobs -> [Node -> TargetStatus \cup {NoRow}]]
    BY <1>1, <1>a DEF CreateUpdate, TargetStatus
  <2>2. jobStatus' \in [Jobs -> JobStatus]
    BY <1>1, <1>a DEF CreateUpdate, JobStatus
  <2> QED
    BY <1>1, <2>1, <2>2 DEF TypeInv, TypeOK, JobsNamed, CreateUpdate
<1>2. ASSUME NEW j \in Jobs, StartUpdate(j) PROVE TypeInv'
  <2>1. PICK r \in Slots : Spawn(r, j)
    BY <1>2 DEF StartUpdate, Free
  <2>2. /\ run' \in [Slots -> Run] /\ run'[r].pc = "stageCtl" /\ run'[r].job = j
        /\ \A q \in Slots : q # r => run'[q] = run[q]
    BY <1>a, <2>1, SpawnType
  <2>3. jobStatus' \in [Jobs -> JobStatus]
    BY <1>2, <1>a DEF StartUpdate, JobStatus
  <2>4. used' \in [Counters -> Nat]
    BY <1>2, <1>a, SpendType DEF StartUpdate, Counters
  <2>5. JobsNamed'
    BY <1>2, <2>2 DEF TypeInv, JobsNamed, StartUpdate
  <2> QED
    BY <1>2, <2>2, <2>3, <2>4, <2>5 DEF TypeInv, TypeOK, StartUpdate
<1>3. ASSUME NEW j \in Jobs, RollbackUpdate(j) PROVE TypeInv'
  <2>1. rollback' \in [job: Jobs, todo: SUBSET Node, mid: BOOLEAN]
    BY <1>3 DEF RollbackUpdate, Rows
  <2>2. used' \in [Counters -> Nat]
    BY <1>3, <1>a, SpendType DEF RollbackUpdate, Counters
  <2> QED
    BY <1>3, <2>1, <2>2 DEF TypeInv, TypeOK, JobsNamed, RollbackUpdate
<1>4. ASSUME RollbackTarget PROVE TypeInv'
  <2>1. PICK n \in Deepest(rollback.todo) :
          /\ StoreStatus(rollback.job, n, IF rollback.mid THEN "RolledBack" ELSE "RollingBack")
          /\ rollback' = [rollback EXCEPT !.mid = ~@,
                            !.todo = IF rollback.mid THEN @ \ {n} ELSE @]
    BY <1>4 DEF RollbackTarget
  <2>2. target' \in [Jobs -> [Node -> TargetStatus \cup {NoRow}]]
    BY <2>1, <1>a, StoreType DEF TargetStatus
  <2>3. rollback' \in [job: Jobs, todo: SUBSET Node, mid: BOOLEAN]
    BY <2>1, <1>4, <1>a DEF RollbackTarget
  <2> QED
    BY <1>4, <2>2, <2>3 DEF TypeInv, TypeOK, JobsNamed, RollbackTarget
<1>5. ASSUME RollbackDone PROVE TypeInv'
  <2>1. jobStatus' \in [Jobs -> JobStatus]
    BY <1>5, <1>a DEF RollbackDone, JobStatus
  <2> QED
    BY <1>5, <2>1 DEF TypeInv, TypeOK, JobsNamed, RollbackDone
<1>6. ASSUME NEW n \in Node, DeleteNode(n) PROVE TypeInv'
  <2>1. target' \in [Jobs -> [Node -> TargetStatus \cup {NoRow}]]
    BY <1>6, <1>a DEF DeleteNode
  <2>2. used' \in [Counters -> Nat]
    BY <1>6, <1>a, SpendType DEF DeleteNode, Counters
  <2> QED
    BY <1>6, <2>1, <2>2 DEF TypeInv, TypeOK, JobsNamed, DeleteNode
<1> QED
  BY <1>1, <1>2, <1>3, <1>4, <1>5, <1>6 DEF Operator

-----------------------------------------------------------------------------

\* What a step of goroutine r has to be checked for.
LEMMA RunFrame ==
  ASSUME TypeInv, NEW r \in Slots, RunStep(r),
         target' \in [Jobs -> [Node -> TargetStatus \cup {NoRow}]],
         jobStatus' \in [Jobs -> JobStatus],
         active' \in ActiveJob \cup {NULL},
         restartDue' \in BOOLEAN,
         bin' \in [Node -> Image \cup {NULL}],
         used' \in [Counters -> Nat],
         gaveUp' \in [Node -> SUBSET {"prefetch", "not staged", "install"}],
         UNCHANGED <<alive, rollback, resuming, agentVars, staged, release, current>>
  PROVE  TypeInv'
<1> USE DEF agentVars
<1>1. JobsNamed'
  BY RunStepNamed DEF TypeInv
<1> QED
  BY <1>1 DEF TypeInv, TypeOK, RunStep

LEMMA GiveUpType ==
  ASSUME gaveUp \in [Node -> SUBSET {"prefetch", "not staged", "install"}],
         NEW n \in Node, NEW why \in {"prefetch", "not staged", "install"}, GiveUp(n, why)
  PROVE  gaveUp' \in [Node -> SUBSET {"prefetch", "not staged", "install"}]
  BY DEF GiveUp

LEMMA AgentRowsType ==
  ASSUME NEW rows PROVE AgentRows(rows) \subseteq Node
  BY DEF AgentRows, Agents

LEMMA OrchestratorType ==
  ASSUME TypeInv, NEW r \in Slots, Orchestrator(r) \/ Deadline(r)
  PROVE  TypeInv' /\ RunStep(r)
<1> USE DEF dbVars, ctlVars, diskVars
<1>a. /\ target \in [Jobs -> [Node -> TargetStatus \cup {NoRow}]]
      /\ jobStatus \in [Jobs -> JobStatus]
      /\ active \in ActiveJob \cup {NULL}
      /\ run \in [Slots -> Run] /\ run[r] \in Run
      /\ restartDue \in BOOLEAN
      /\ bin \in [Node -> Image \cup {NULL}]
      /\ used \in [Counters -> Nat]
      /\ gaveUp \in [Node -> SUBSET {"prefetch", "not staged", "install"}]
  BY DEF TypeInv, TypeOK
<1>b. run[r].pc # "free" => /\ run[r].job \in Jobs
                           /\ target[run[r].job] \in [Node -> TargetStatus \cup {NoRow}]
  BY <1>a DEF TypeInv, JobsNamed
<1>c. /\ {"Staged", "DownloadFailed", "InstallFailed", "Installing", "Completed"} \subseteq TargetStatus
      /\ {"deadlines", "failures"} \subseteq Counters
      /\ {"mark", "install", "ungrant", "ctlInstall", "finish"} \subseteq AfterSet
  BY DEF TargetStatus, Counters, AfterSet
<1>1. ASSUME RunStageController(r) PROVE TypeInv' /\ RunStep(r)
  <2>0. [run[r].snap EXCEPT ![Controller] = "Staged"] \in [Node -> TargetStatus \cup {NoRow}]
    BY <1>a, <1>c, NodeAssumption DEF Run
  <2>1. RunStep(r)
    <3>1. CASE run[r].snap[Controller] \in {"Completed", "InstallFailed"}
      <4>1. run[r].pc = "stageCtl" /\ run' = [run EXCEPT ![r].pc = "publish"]
        BY <1>1, <3>1 DEF RunStageController
      <4> QED
        BY <1>a, <4>1 DEF RunStep, Run, RunPC, AfterSet
    <3>2. CASE run[r].snap[Controller] \notin {"Completed", "InstallFailed"}
      <4> DEFINE snap == [run[r].snap EXCEPT ![Controller] = "Staged"]
      <4>1. run' = [run EXCEPT ![r] = [run[r] EXCEPT !.pc = "publish", !.snap = snap]]
        BY <1>1, <1>a, <3>2 DEF RunStageController, Run
      <4> HIDE DEF snap
      <4>2. snap \in [Node -> TargetStatus \cup {NoRow}]
        BY <2>0 DEF snap
      <4> QED
        BY <1>1, <1>a, <4>1, <4>2 DEF RunStageController, RunStep, Run, RunPC, AfterSet
    <3> QED
      BY <3>1, <3>2
  <2>2. target' \in [Jobs -> [Node -> TargetStatus \cup {NoRow}]]
    BY <1>1, <1>a, <1>c, StoreType DEF RunStageController
  <2> QED
    BY <1>1, <1>a, <2>1, <2>2, RunFrame DEF RunStageController, RunAndDB
<1>2. ASSUME RunPublish(r) PROVE TypeInv' /\ RunStep(r)
  <2>0. AgentRows(run[r].snap) \in SUBSET Node
    BY AgentRowsType
  <2>1. RunStep(r)
    BY <1>2, <1>a, <2>0 DEF RunPublish, RunStep, Run, RunPC, AfterSet
  <2>2. active' \in ActiveJob
    BY <1>2, <1>a, <1>b DEF RunPublish, ActiveJob, Run
  <2> QED
    BY <1>2, <1>a, <2>1, <2>2, RunFrame DEF RunPublish, RunAndActive
<1>3. ASSUME RunScanStart(r) PROVE TypeInv' /\ RunStep(r)
  <2>1. RunStep(r)
    BY <1>3, <1>a, <1>b, AgentRowsType DEF RunScanStart, RunStep, Run, RunPC, AfterSet
  <2> QED
    BY <1>3, <1>a, <2>1, RunFrame DEF RunScanStart, RunOnly
<1>4. ASSUME RunScan(r) PROVE TypeInv' /\ RunStep(r)
  <2>1. PICK n \in Deepest(run[r].todo) :
          run' = [run EXCEPT ![r].todo = @ \ {n},
                             ![r].pending = @ \/ (n \in alive /\ Seen(r, n) \notin PrefetchSettled)]
    BY <1>4 DEF RunScan
  <2> DEFINE p == run[r].pending \/ (n \in alive /\ Seen(r, n) \notin PrefetchSettled)
  <2>2. p \in BOOLEAN
    OBVIOUS
  <2>3. run' = [run EXCEPT ![r] = [run[r] EXCEPT !.todo = run[r].todo \ {n}, !.pending = p]]
    BY <2>1, <1>a DEF Run
  <2> HIDE DEF p
  <2>4. RunStep(r)
    BY <1>4, <1>a, <2>2, <2>3 DEF RunScan, RunStep, Run
  <2> QED
    BY <1>4, <1>a, <2>4, RunFrame DEF RunScan, RunOnly
<1>5. ASSUME RunScanEnd(r) PROVE TypeInv' /\ RunStep(r)
  <2>1. RunStep(r)
    BY <1>5, <1>a, <1>b, AgentRowsType DEF RunScanEnd, RunStep, Run, RunPC, AfterSet
  <2> QED
    BY <1>5, <1>a, <2>1, RunFrame DEF RunScanEnd, RunOnly
<1>6. ASSUME PrefetchDeadline(r) PROVE TypeInv' /\ RunStep(r)
  <2>1. RunStep(r)
    BY <1>6, <1>a, <1>b, AgentRowsType DEF PrefetchDeadline, RunStep, Run, RunPC, AfterSet
  <2>2. used' \in [Counters -> Nat]
    BY <1>6, <1>a, <1>c, SpendType DEF PrefetchDeadline
  <2> QED
    BY <1>6, <1>a, <2>1, <2>2, RunFrame DEF PrefetchDeadline
<1>7. ASSUME RunMark(r) PROVE TypeInv' /\ RunStep(r)
  <2>1. PICK n \in Deepest(run[r].todo) :
          \/ /\ run' = [run EXCEPT ![r].todo = @ \ {n}]
             /\ UNCHANGED <<target, gaveUp>>
          \/ /\ SetThen(r, n, "DownloadFailed", "mark")
             /\ GiveUp(n, "prefetch")
    BY <1>7 DEF RunMark
  <2>2. n \in Node /\ run[r].pc = "mark"
    BY <1>7, <1>a DEF Deepest, Run, RunMark
  <2>3. CASE SetThen(r, n, "DownloadFailed", "mark") /\ GiveUp(n, "prefetch")
    <3>1. /\ RunStep(r)
          /\ target' \in [Jobs -> [Node -> TargetStatus \cup {NoRow}]]
      BY <1>a, <1>c, <2>2, <2>3, SetThenType
    <3>2. gaveUp' \in [Node -> SUBSET {"prefetch", "not staged", "install"}]
      BY <1>a, <2>2, <2>3, GiveUpType
    <3> QED
      BY <1>7, <1>a, <3>1, <3>2, RunFrame DEF RunMark, RunAndDB
  <2>4. CASE run' = [run EXCEPT ![r].todo = @ \ {n}] /\ UNCHANGED <<target, gaveUp>>
    <3>1. RunStep(r)
      BY <1>a, <2>2, <2>4 DEF RunStep, Run
    <3> QED
      BY <1>7, <1>a, <2>4, <3>1, RunFrame DEF RunMark, RunAndDB
  <2> QED
    BY <2>1, <2>3, <2>4
<1>8. ASSUME RunMarkEnd(r) PROVE TypeInv' /\ RunStep(r)
  <2>1. RunStep(r)
    BY <1>8, <1>a DEF RunMarkEnd, RunStep, Run, RunPC, AfterSet
  <2> QED
    BY <1>8, <1>a, <2>1, RunFrame DEF RunMarkEnd, RunOnly
<1>9. ASSUME RunSetMap(r) PROVE TypeInv' /\ RunStep(r)
  <2>1. RunStep(r)
    BY <1>9, <1>a DEF RunSetMap, RunStep, Run, RunPC, AfterSet
  <2>2. active' \in ActiveJob \cup {NULL}
    BY <1>9, <1>a DEF RunSetMap, ActiveJob, Run
  <2> QED
    BY <1>9, <1>a, <2>1, <2>2, RunFrame DEF RunSetMap, RunAndActive
<1>10. ASSUME RunSwitchPhase(r) PROVE TypeInv' /\ RunStep(r)
  <2>1. RunStep(r)
    BY <1>10, <1>a, <1>b, AgentRowsType DEF RunSwitchPhase, RunStep, Run, RunPC, AfterSet
  <2>2. active' \in ActiveJob \cup {NULL}
    BY <1>10, <1>a DEF RunSwitchPhase, ActiveJob
  <2> QED
    BY <1>10, <1>a, <2>1, <2>2, RunFrame DEF RunSwitchPhase, RunAndActive
<1>11. ASSUME RunSkip(r) PROVE TypeInv' /\ RunStep(r)
  <2>0. PICK n \in Deepest(run[r].todo) : run' = [run EXCEPT ![r].todo = @ \ {n}]
    BY <1>11 DEF RunSkip
  <2>1. RunStep(r)
    BY <1>11, <1>a, <2>0 DEF RunSkip, RunStep, Run
  <2> QED
    BY <1>11, <1>a, <2>1, RunFrame DEF RunSkip, RunOnly
<1>12. ASSUME RunNotStaged(r) PROVE TypeInv' /\ RunStep(r)
  <2>1. PICK n \in Deepest(run[r].todo) :
          SetThen(r, n, "InstallFailed", "install") /\ GiveUp(n, "not staged")
    BY <1>12 DEF RunNotStaged
  <2>2. n \in Node /\ run[r].pc # "free"
    BY <1>12, <1>a DEF Deepest, Run, RunNotStaged
  <2>3. /\ RunStep(r)
        /\ target' \in [Jobs -> [Node -> TargetStatus \cup {NoRow}]]
    BY <1>a, <1>c, <2>1, <2>2, SetThenType
  <2>4. gaveUp' \in [Node -> SUBSET {"prefetch", "not staged", "install"}]
    BY <1>a, <2>1, <2>2, GiveUpType
  <2> QED
    BY <1>12, <1>a, <2>3, <2>4, RunFrame DEF RunNotStaged, RunAndDB
<1>13. ASSUME RunGrant(r) PROVE TypeInv' /\ RunStep(r)
  <2>1. PICK n \in Deepest(run[r].todo) :
          /\ run' = [run EXCEPT ![r].pc = "wait", ![r].cur = n, ![r].todo = @ \ {n}]
          /\ active' = IF active = NULL THEN NULL ELSE [active EXCEPT !.install = n]
    BY <1>13 DEF RunGrant
  <2>2. n \in Node
    BY <1>a DEF Deepest, Run
  <2>3. RunStep(r)
    BY <1>13, <1>a, <2>1, <2>2 DEF RunGrant, RunStep, Run, RunPC, AfterSet
  <2>4. active' \in ActiveJob \cup {NULL}
    BY <1>a, <2>1, <2>2 DEF ActiveJob
  <2> QED
    BY <1>13, <1>a, <2>3, <2>4, RunFrame DEF RunGrant, RunAndActive
<1>14. ASSUME RunFinished(r) PROVE TypeInv' /\ RunStep(r)
  <2>1. RunStep(r)
    BY <1>14, <1>a DEF RunFinished, RunStep, Run, RunPC, AfterSet
  <2> QED
    BY <1>14, <1>a, <2>1, RunFrame DEF RunFinished, RunOnly
<1>15. ASSUME InstallDeadline(r) PROVE TypeInv' /\ RunStep(r)
  <2>2. run[r].cur \in Node /\ run[r].pc # "free"
    BY <1>15, <1>a DEF InstallDeadline, TypeInv, JobsNamed
  <2>3. /\ RunStep(r)
        /\ target' \in [Jobs -> [Node -> TargetStatus \cup {NoRow}]]
    BY <1>15, <1>a, <1>c, <2>2, SetThenType DEF InstallDeadline
  <2>4. gaveUp' \in [Node -> SUBSET {"prefetch", "not staged", "install"}]
    BY <1>15, <1>a, <2>2, GiveUpType DEF InstallDeadline
  <2>5. used' \in [Counters -> Nat]
    BY <1>15, <1>a, <1>c, SpendType DEF InstallDeadline
  <2> QED
    BY <1>15, <1>a, <2>3, <2>4, <2>5, RunFrame DEF InstallDeadline
<1>16. ASSUME RunUngrant(r) PROVE TypeInv' /\ RunStep(r)
  <2>1. RunStep(r)
    BY <1>16, <1>a DEF RunUngrant, RunStep, Run, RunPC, AfterSet
  <2>2. active' \in ActiveJob \cup {NULL}
    BY <1>16, <1>a DEF RunUngrant, ActiveJob
  <2> QED
    BY <1>16, <1>a, <2>1, <2>2, RunFrame DEF RunUngrant, RunAndActive
<1>17. ASSUME RunAllGranted(r) PROVE TypeInv' /\ RunStep(r)
  <2>1. RunStep(r)
    BY <1>17, <1>a DEF RunAllGranted, RunStep, Run, RunPC, AfterSet
  <2> QED
    BY <1>17, <1>a, <2>1, RunFrame DEF RunAllGranted, RunOnly
<1>18. ASSUME RunController(r) PROVE TypeInv' /\ RunStep(r)
  <2>1. CASE MapStatus(Controller) = "Completed"
    <3>0. /\ run[r].pc = "ctl"
          /\ run' = [run EXCEPT ![r].pc = "finish", ![r].restart = TRUE]
          /\ UNCHANGED target
      BY <1>18, <2>1 DEF RunController
    <3>1. RunStep(r)
      BY <1>a, <3>0 DEF RunStep, Run, RunPC, AfterSet
    <3> QED
      BY <1>18, <1>a, <3>0, <3>1, RunFrame DEF RunController, RunAndDB
  <2>2. CASE MapStatus(Controller) # "Completed"
    <3>1. /\ RunStep(r)
          /\ target' \in [Jobs -> [Node -> TargetStatus \cup {NoRow}]]
      BY <1>18, <1>a, <1>c, <2>2, NodeAssumption, SetThenType DEF RunController
    <3> QED
      BY <1>18, <1>a, <3>1, RunFrame DEF RunController, RunAndDB
  <2> QED
    BY <2>1, <2>2
<1>19. ASSUME RunInstallController(r) PROVE TypeInv' /\ RunStep(r)
  <2> DEFINE j == run[r].job
  <2>0. run[r].pc # "free" /\ j \in Jobs /\ Controller \in Node
    BY <1>19, <1>b, NodeAssumption DEF RunInstallController
  <2>1. CASE /\ bin' = [bin EXCEPT ![Controller] = [job |-> j, whole |-> TRUE]]
             /\ StoreStatus(j, Controller, "Completed")
             /\ run' = [run EXCEPT ![r] = [run[r] EXCEPT !.pc = "set", !.cur = Controller,
                          !.val = "Completed", !.next = "finish", !.restart = TRUE]]
             /\ UNCHANGED used
    <3>1. RunStep(r)
      BY <1>a, <1>c, <2>0, <2>1 DEF RunStep, Run, RunPC, AfterSet
    <3>2. target' \in [Jobs -> [Node -> TargetStatus \cup {NoRow}]]
      BY <1>a, <1>c, <2>0, <2>1, StoreType
    <3>3. bin' \in [Node -> Image \cup {NULL}]
      BY <1>a, <2>0, <2>1 DEF Image
    <3> QED
      BY <1>19, <1>a, <2>1, <3>1, <3>2, <3>3, RunFrame DEF RunInstallController
  <2>2. CASE /\ bin' \in {bin, [bin EXCEPT ![Controller] = [job |-> j, whole |-> FALSE]]}
             /\ SetThen(r, Controller, "InstallFailed", "finish")
             /\ Spend("failures", MaxFailures)
    <3>1. /\ RunStep(r)
          /\ target' \in [Jobs -> [Node -> TargetStatus \cup {NoRow}]]
      BY <1>a, <1>c, <2>0, <2>2, SetThenType
    <3>2. bin' \in [Node -> Image \cup {NULL}]
      <4>1. [job |-> j, whole |-> FALSE] \in Image
        BY <2>0 DEF Image
      <4>2. \/ bin' = bin
            \/ bin' = [bin EXCEPT ![Controller] = [job |-> j, whole |-> FALSE]]
        BY <2>2
      <4> QED
        BY <1>a, <4>1, <4>2
    <3>3. used' \in [Counters -> Nat]
      BY <1>a, <1>c, <2>2, SpendType
    <3> QED
      BY <1>19, <1>a, <3>1, <3>2, <3>3, RunFrame DEF RunInstallController
  <2> QED
    BY <1>19, <2>1, <2>2 DEF RunInstallController
<1>20. ASSUME RunFinish(r) PROVE TypeInv' /\ RunStep(r)
  <2>1. RunStep(r)
    BY <1>20, <1>a DEF RunFinish, RunStep, Run, RunPC, AfterSet
  <2>2. jobStatus' \in [Jobs -> JobStatus]
    BY <1>20, <1>a DEF RunFinish, JobStatus
  <2> QED
    BY <1>20, <1>a, <2>1, <2>2, RunFrame DEF RunFinish
<1>21. ASSUME RunClear(r) PROVE TypeInv' /\ RunStep(r)
  <2>1. RunStep(r)
    BY <1>21, <1>a, FreeRunType DEF RunClear, RunStep
  <2>2. restartDue' \in BOOLEAN
    BY <1>21, <1>a DEF RunClear, Run
  <2> QED
    BY <1>21, <1>a, <2>1, <2>2, RunFrame DEF RunClear
<1> QED
  BY <1>1, <1>2, <1>3, <1>4, <1>5, <1>6, <1>7, <1>8, <1>9, <1>10, <1>11, <1>12, <1>13,
     <1>14, <1>15, <1>16, <1>17, <1>18, <1>19, <1>20, <1>21 DEF Orchestrator, Deadline

LEMMA RestartType ==
  ASSUME TypeInv, ControllerRestart PROVE TypeInv'
<1> USE DEF dbVars, diskVars
<1>1. used' \in [Counters -> Nat]
  BY SpendType DEF TypeInv, TypeOK, ControllerRestart, Counters
<1>2. run' \in [Slots -> Run] /\ \A r \in Slots : run'[r].pc = "free"
  BY FreeRunType DEF ControllerRestart
<1>3. wire' \in [Node -> Report \cup {NULL}]
  BY DEF ControllerRestart
<1>4. JobsNamed'
  BY <1>2 DEF TypeInv, JobsNamed, ControllerRestart
<1> QED
  BY <1>1, <1>2, <1>3, <1>4 DEF TypeInv, TypeOK, ControllerRestart

LEMMA ResumeType ==
  ASSUME TypeInv, Resume PROVE TypeInv'
<1> USE DEF agentVars, diskVars
<1>a. /\ target \in [Jobs -> [Node -> TargetStatus \cup {NoRow}]]
      /\ jobStatus \in [Jobs -> JobStatus]
      /\ run \in [Slots -> Run]
  BY DEF TypeInv, TypeOK
<1>1. CASE UNCHANGED <<jobStatus, run>>
  BY <1>1 DEF TypeInv, TypeOK, JobsNamed, Resume
<1>2. CASE \E j \in Jobs : jobStatus' = [jobStatus EXCEPT ![j] = "Completed"] /\ UNCHANGED run
  <2>1. jobStatus' \in [Jobs -> JobStatus]
    BY <1>2, <1>a DEF JobStatus
  <2> QED
    BY <1>2, <2>1 DEF TypeInv, TypeOK, JobsNamed, Resume
<1>3. CASE UNCHANGED jobStatus /\ \E j \in Jobs, r \in Slots : Spawn(r, j)
  <2>1. PICK j \in Jobs, r \in Slots : Spawn(r, j)
    BY <1>3
  <2>2. /\ run' \in [Slots -> Run]
        /\ run'[r].pc = "stageCtl" /\ run'[r].job = j
        /\ \A q \in Slots : q # r => run'[q] = run[q]
    BY <1>a, <2>1, SpawnType
  <2>3. JobsNamed'
    BY <2>2 DEF TypeInv, JobsNamed, Resume
  <2> QED
    BY <1>3, <2>2, <2>3 DEF TypeInv, TypeOK, Resume
<1> QED
  BY <1>1, <1>2, <1>3 DEF Resume, Running, Free

\* What a step of the agent of node n, or of its report, has to be checked for.
AgentStates == [pc: {"idle", "prefetch", "copy", "install", "stage"}, job: Jobs \cup {NULL}]

LEMMA GotoType ==
  ASSUME agent \in [Node -> AgentStates], NEW n \in Node, NEW j \in Jobs \cup {NULL},
         NEW pc \in {"idle", "prefetch", "copy", "install", "stage"}, Goto(n, j, pc),
         pc # "idle" => j \in Jobs, JobsNamed, UNCHANGED run
  PROVE  agent' \in [Node -> AgentStates] /\ JobsNamed'
<1>1. [pc |-> pc, job |-> j] \in AgentStates
  BY DEF AgentStates
<1>2. agent' = [agent EXCEPT ![n] = [pc |-> pc, job |-> j]]
  BY DEF Goto
<1> QED
  BY <1>1, <1>2 DEF JobsNamed

LEMMA PostType ==
  ASSUME wire \in [Node -> Report \cup {NULL}], NEW n \in Node, NEW j \in Jobs,
         NEW st \in Reported, Post(n, j, st)
  PROVE  wire' \in [Node -> Report \cup {NULL}]
<1>1. [job |-> j, status |-> st, stored |-> FALSE] \in Report
  BY DEF Report
<1> QED
  BY <1>1 DEF Post

LEMMA CopyToBinType ==
  ASSUME bin \in [Node -> Image \cup {NULL}], NEW n \in Node, NEW j \in Jobs,
         NEW whole \in BOOLEAN, CopyToBin(n, j, whole)
  PROVE  bin' \in [Node -> Image \cup {NULL}]
<1>1. [job |-> j, whole |-> whole] \in Image
  BY DEF Image
<1>2. bin' = bin \/ bin' = [bin EXCEPT ![n] = [job |-> j, whole |-> whole]]
  BY DEF CopyToBin
<1> QED
  BY <1>1, <1>2

LEMMA AgentType ==
  ASSUME TypeInv, NEW n \in Node, AgentStep(n) PROVE TypeInv'
<1> USE DEF dbVars, ctlVars, diskVars
<1>a. /\ agent \in [Node -> AgentStates] /\ JobsNamed
      /\ wire \in [Node -> Report \cup {NULL}]
      /\ active \in ActiveJob \cup {NULL}
      /\ staged \in [Node -> [Jobs -> Copy]] /\ release \in [Node -> [Jobs -> Copy]]
      /\ bin \in [Node -> Image \cup {NULL}]
      /\ current \in [Node -> Jobs \cup {NULL}]
      /\ agentDue \in [Node -> BOOLEAN]
      /\ used \in [Counters -> Nat]
  BY DEF TypeInv, TypeOK, AgentStates
<1>b. agent[n].pc # "idle" => agent[n].job \in Jobs
  BY <1>a DEF JobsNamed
<1>c. /\ Reported = {"Prefetching", "Staged", "DownloadFailed", "Installing", "Completed", "InstallFailed"}
      /\ {"agents", "failures"} \subseteq Counters
      /\ Copy = {"none", "partial", "full"}
  BY DEF Reported, Counters, Copy
<1>1. ASSUME PollPrefetch(n) PROVE TypeInv'
  <2>1. active.job \in Jobs
    BY <1>1, <1>a DEF PollPrefetch, ActiveJob
  <2>2. agent' \in [Node -> AgentStates] /\ JobsNamed'
    BY <1>1, <1>a, <2>1, GotoType DEF PollPrefetch, AgentOnly
  <2>3. wire' \in [Node -> Report \cup {NULL}]
    BY <1>1, <1>a, <1>c, <2>1, PostType DEF PollPrefetch
  <2> QED
    BY <1>1, <2>2, <2>3 DEF TypeInv, TypeOK, PollPrefetch, AgentOnly, AgentStates
<1>2. ASSUME PollInstall(n) PROVE TypeInv'
  <2>1. active.job \in Jobs
    BY <1>2, <1>a DEF PollInstall, ActiveJob
  <2>2. agent' \in [Node -> AgentStates] /\ JobsNamed'
    BY <1>2, <1>a, <2>1, GotoType DEF PollInstall, AgentOnly
  <2>3. wire' \in [Node -> Report \cup {NULL}]
    BY <1>2, <1>a, <1>c, <2>1, PostType DEF PollInstall
  <2> QED
    BY <1>2, <2>2, <2>3 DEF TypeInv, TypeOK, PollInstall, AgentOnly, AgentStates
<1>3. ASSUME PrefetchCopy(n) PROVE TypeInv'
  <2>1. agent[n].job \in Jobs
    BY <1>3, <1>b DEF PrefetchCopy, Ready
  <2>2. agent' \in [Node -> AgentStates] /\ JobsNamed'
    BY <1>3, <1>a, <2>1, GotoType DEF PrefetchCopy, AgentOnly
  <2>4. staged' \in [Node -> [Jobs -> Copy]]
    BY <1>3, <1>a, <1>c, <2>1 DEF PrefetchCopy
  <2> QED
    BY <1>3, <2>2, <2>4 DEF TypeInv, TypeOK, PrefetchCopy, AgentOnly, AgentStates
<1>4. ASSUME PrefetchDone(n) PROVE TypeInv'
  <2>1. agent[n].job \in Jobs
    BY <1>4, <1>b DEF PrefetchDone, Ready
  <2>2. agent' \in [Node -> AgentStates] /\ JobsNamed'
    BY <1>4, <1>a, GotoType DEF PrefetchDone, AgentOnly
  <2>3. wire' \in [Node -> Report \cup {NULL}]
    BY <1>4, <1>a, <1>c, <2>1, PostType DEF PrefetchDone
  <2>4. staged' \in [Node -> [Jobs -> Copy]]
    BY <1>4, <1>a, <1>c, <2>1 DEF PrefetchDone
  <2> QED
    BY <1>4, <2>2, <2>3, <2>4 DEF TypeInv, TypeOK, PrefetchDone, AgentOnly, AgentStates
<1>5. ASSUME PrefetchFails(n) PROVE TypeInv'
  <2>1. agent[n].job \in Jobs
    BY <1>5, <1>b DEF PrefetchFails, Ready
  <2>2. agent' \in [Node -> AgentStates] /\ JobsNamed'
    BY <1>5, <1>a, GotoType DEF PrefetchFails, AgentOnly
  <2>3. wire' \in [Node -> Report \cup {NULL}]
    BY <1>5, <1>a, <1>c, <2>1, PostType DEF PrefetchFails
  <2>4. staged' \in [Node -> [Jobs -> Copy]]
    BY <1>5, <1>a, <1>c, <2>1 DEF PrefetchFails
  <2>5. used' \in [Counters -> Nat]
    BY <1>5, <1>a, <1>c, SpendType DEF PrefetchFails
  <2> QED
    BY <1>5, <2>2, <2>3, <2>4, <2>5 DEF TypeInv, TypeOK, PrefetchFails, AgentStates
<1>6. ASSUME InstallCopy(n) PROVE TypeInv'
  <2>1. agent[n].job \in Jobs
    BY <1>6, <1>b DEF InstallCopy, Ready
  <2>2. CASE staged[n][agent[n].job] = "none"
    <3>1. /\ Goto(n, NULL, "idle") /\ Post(n, agent[n].job, "InstallFailed")
          /\ UNCHANGED <<release, bin>>
      BY <1>6, <2>2 DEF InstallCopy
    <3>2. agent' \in [Node -> AgentStates] /\ JobsNamed'
      BY <1>6, <1>a, <3>1, GotoType DEF InstallCopy, AgentOnly
    <3>3. wire' \in [Node -> Report \cup {NULL}]
      BY <1>a, <1>c, <2>1, <3>1, PostType
    <3> QED
      BY <1>6, <3>1, <3>2, <3>3 DEF TypeInv, TypeOK, InstallCopy, AgentOnly, AgentStates
  <2>3. CASE staged[n][agent[n].job] # "none"
    <3>1. /\ Goto(n, agent[n].job, "stage")
          /\ release' = [release EXCEPT ![n][agent[n].job] = "partial"]
          /\ CopyToBin(n, agent[n].job, FALSE)
          /\ UNCHANGED wire
      BY <1>6, <2>3 DEF InstallCopy
    <3>2. agent' \in [Node -> AgentStates] /\ JobsNamed'
      BY <1>6, <1>a, <2>1, <3>1, GotoType DEF InstallCopy, AgentOnly
    <3>3. release' \in [Node -> [Jobs -> Copy]]
      BY <1>a, <1>c, <2>1, <3>1
    <3>4. bin' \in [Node -> Image \cup {NULL}]
      BY <1>a, <2>1, <3>1, CopyToBinType
    <3> QED
      BY <1>6, <3>1, <3>2, <3>3, <3>4 DEF TypeInv, TypeOK, InstallCopy, AgentOnly, AgentStates
  <2> QED
    BY <2>2, <2>3
<1>7. ASSUME InstallDone(n) PROVE TypeInv'
  <2>1. agent[n].job \in Jobs
    BY <1>7, <1>b DEF InstallDone, Ready
  <2>2. agent' \in [Node -> AgentStates] /\ JobsNamed'
    BY <1>7, <1>a, GotoType DEF InstallDone, AgentOnly
  <2>3. wire' \in [Node -> Report \cup {NULL}]
    BY <1>7, <1>a, <1>c, <2>1, PostType DEF InstallDone
  <2>0. (staged[n][agent[n].job] = "full") \in BOOLEAN
    OBVIOUS
  <2>4. bin' \in [Node -> Image \cup {NULL}]
    <3>1. CopyToBin(n, agent[n].job, staged[n][agent[n].job] = "full")
      BY <1>7 DEF InstallDone
    <3> QED
      BY <1>a, <2>0, <2>1, <3>1, CopyToBinType
  <2>5. release' \in [Node -> [Jobs -> Copy]]
    BY <1>7, <1>a, <2>1 DEF InstallDone
  <2>6. current' \in [Node -> Jobs \cup {NULL}] /\ agentDue' \in [Node -> BOOLEAN]
    BY <1>7, <1>a, <2>1 DEF InstallDone
  <2> QED
    BY <1>7, <2>2, <2>3, <2>4, <2>5, <2>6 DEF TypeInv, TypeOK, InstallDone, AgentStates
<1>8. ASSUME InstallFails(n) PROVE TypeInv'
  <2>1. agent[n].job \in Jobs
    BY <1>8, <1>b DEF InstallFails, Ready
  <2>2. agent' \in [Node -> AgentStates] /\ JobsNamed'
    BY <1>8, <1>a, GotoType DEF InstallFails, AgentOnly
  <2>3. wire' \in [Node -> Report \cup {NULL}]
    BY <1>8, <1>a, <1>c, <2>1, PostType DEF InstallFails
  <2>5. used' \in [Counters -> Nat]
    BY <1>8, <1>a, <1>c, SpendType DEF InstallFails
  <2> QED
    BY <1>8, <2>2, <2>3, <2>5 DEF TypeInv, TypeOK, InstallFails, AgentStates
<1>9. ASSUME AgentRestart(n) PROVE TypeInv'
  <2>1. agent' \in [Node -> AgentStates] /\ agentDue' \in [Node -> BOOLEAN] /\ JobsNamed'
    BY <1>9, <1>a DEF AgentRestart, IdleAgent, AgentStates, JobsNamed
  <2>2. used' \in [Counters -> Nat]
    BY <1>9, <1>a, <1>c, SpendType DEF AgentRestart
  <2> QED
    BY <1>9, <2>1, <2>2 DEF TypeInv, TypeOK, AgentRestart, AgentStates
<1> QED
  BY <1>1, <1>2, <1>3, <1>4, <1>5, <1>6, <1>7, <1>8, <1>9 DEF AgentStep

LEMMA DeliveryType ==
  ASSUME TypeInv, NEW n \in Node, Delivery(n) PROVE TypeInv'
<1> USE DEF dbVars, ctlVars, diskVars
<1>a. /\ target \in [Jobs -> [Node -> TargetStatus \cup {NoRow}]]
      /\ wire \in [Node -> Report \cup {NULL}]
      /\ active \in ActiveJob \cup {NULL}
  BY DEF TypeInv, TypeOK
<1>b. Reported \subseteq TargetStatus
  BY DEF Reported, TargetStatus
<1>1. ASSUME ReportStore(n) PROVE TypeInv'
  <2>1. wire[n] \in Report
    BY <1>1, <1>a DEF ReportStore
  <2>2. target' \in [Jobs -> [Node -> TargetStatus \cup {NoRow}]]
    BY <1>1, <1>a, <1>b, <2>1, StoreType DEF ReportStore, Report
  <2>3. wire' \in [Node -> Report \cup {NULL}]
    BY <1>1, <1>a, <2>1 DEF ReportStore, Report
  <2> QED
    BY <1>1, <2>2, <2>3 DEF TypeInv, TypeOK, JobsNamed, ReportStore
<1>2. ASSUME ReportApply(n) PROVE TypeInv'
  <2>1. wire[n].status \in TargetStatus
    BY <1>2, <1>a, <1>b DEF ReportApply, Report
  <2>2. active' \in ActiveJob \cup {NULL}
    BY <1>2, <1>a, <2>1 DEF ReportApply, ActiveJob
  <2>3. wire' \in [Node -> Report \cup {NULL}]
    BY <1>2, <1>a DEF ReportApply
  <2> QED
    BY <1>2, <2>2, <2>3 DEF TypeInv, TypeOK, JobsNamed, ReportApply
<1>3. ASSUME ReportLost(n) PROVE TypeInv'
  <2>1. wire' \in [Node -> Report \cup {NULL}]
    BY <1>3, <1>a DEF ReportLost
  <2> QED
    BY <1>3, <2>1 DEF TypeInv, TypeOK, JobsNamed, ReportLost
<1> QED
  BY <1>1, <1>2, <1>3 DEF Delivery

LEMMA NextType == TypeInv /\ [Next]_vars => TypeInv'
<1> SUFFICES ASSUME TypeInv, [Next]_vars PROVE TypeInv'
  OBVIOUS
<1>1. CASE UNCHANGED vars
  BY <1>1 DEF TypeInv, TypeOK, JobsNamed, vars, dbVars, ctlVars, agentVars, diskVars
<1> QED
  BY <1>1, OperatorType, RestartType, ResumeType, OrchestratorType, AgentType, DeliveryType
     DEF Next

\* Every variable keeps the shape the program gives it, whatever the
\* interleaving of handlers, goroutines, agents and restarts.
THEOREM TypeCorrect == Spec => []TypeOK
<1>1. Spec => []TypeInv
  BY InitType, NextType, PTL DEF Spec
<1>2. TypeInv => TypeOK
  BY DEF TypeInv
<1> QED
  BY <1>1, <1>2, PTL

-----------------------------------------------------------------------------
(* The grant.  While jobs are started one at a time, a goroutine that waits *)
(* holds it because of what the others are doing: there is only one, none   *)
(* while a resume is due, and from the moment it published its job that job *)
(* stays active, with the phase its own program counter calls for.          *)

OneRun == \A q, r \in Slots : run[q].pc # "free" /\ run[r].pc # "free" => q = r

ResumeAlone == resuming => \A r \in Slots : run[r].pc = "free"

Follows(r) ==
  /\ run[r].pc \notin {"free", "stageCtl", "publish"} =>
       active # NULL /\ active.job = run[r].job
  /\ \/ run[r].pc \in {"install", "wait", "ungrant"}
     \/ run[r].pc = "set" /\ run[r].next \in {"install", "ungrant"}
     => active.phase = "install"
  /\ run[r].pc = "wait" => active.install = run[r].cur

GrantInv == OneRun /\ ResumeAlone /\ \A r \in Slots : Follows(r)

LEMMA GrantInit == Init => GrantInv
<1> SUFFICES ASSUME Init PROVE GrantInv
  OBVIOUS
<1>1. \A r \in Slots : run[r] = FreeRun
  BY DEF Init
<1>2. resuming = FALSE
  BY DEF Init
<1> QED
  BY <1>1, <1>2, FreeRunType DEF GrantInv, OneRun, ResumeAlone, Follows

\* A goroutine step only has to be checked for the goroutine itself.
LEMMA GrantFrame ==
  ASSUME GrantInv, NEW r \in Slots, RunStep(r), UNCHANGED resuming, Follows(r)'
  PROVE  GrantInv'
<1>1. \A q \in Slots : q # r => run'[q] = run[q] /\ run[q].pc = "free"
  BY DEF GrantInv, OneRun, RunStep
<1>2. ~resuming'
  BY DEF GrantInv, ResumeAlone, RunStep
<1>3. OneRun'
  BY <1>1 DEF OneRun
<1>4. ASSUME NEW q \in Slots PROVE Follows(q)'
  BY <1>1 DEF Follows
<1> QED
  BY <1>2, <1>3, <1>4 DEF GrantInv, ResumeAlone

\* A new goroutine meets no other one.
LEMMA GrantSpawn ==
  ASSUME TypeInv, NEW r \in Slots, NEW j \in Jobs, Spawn(r, j), ~resuming',
         \A q \in Slots : run[q].pc = "free"
  PROVE  GrantInv'
<1>1. /\ run'[r].pc = "stageCtl"
      /\ \A q \in Slots : q # r => run'[q] = run[q]
  BY SpawnType DEF TypeInv, TypeOK
<1> QED
  BY <1>1 DEF GrantInv, OneRun, ResumeAlone, Follows

\* Whoever is neither a goroutine nor a restart leaves the grant alone.
LEMMA GrantKeep ==
  ASSUME GrantInv, UNCHANGED <<run, resuming>>,
         \/ UNCHANGED active
         \/ /\ active # NULL => active' # NULL
            /\ active'.job = active.job /\ active'.phase = active.phase
            /\ active'.install = active.install
  PROVE  GrantInv'
  BY DEF GrantInv, OneRun, ResumeAlone, Follows

LEMMA GrantOperator ==
  ASSUME TypeInv, GrantInv, ~ConcurrentStarts, Operator PROVE GrantInv'
<1> USE DEF ctlVars
<1>1. ASSUME NEW j \in Jobs, StartUpdate(j) PROVE GrantInv'
  <2>1. Quiet /\ ~resuming' /\ \E r \in Free : Spawn(r, j)
    BY <1>1 DEF StartUpdate, Quiet
  <2>2. \A q \in Slots : run[q].pc = "free"
    BY <2>1 DEF Quiet, Free
  <2> QED
    BY <2>1, <2>2, GrantSpawn DEF Free
<1>2. ASSUME NEW j \in Jobs, CreateUpdate(j) \/ RollbackUpdate(j) PROVE GrantInv'
  BY <1>2, GrantKeep DEF CreateUpdate, RollbackUpdate
<1>3. ASSUME RollbackTarget \/ RollbackDone PROVE GrantInv'
  BY <1>3, GrantKeep DEF RollbackTarget, RollbackDone
<1>4. ASSUME NEW n \in Node, DeleteNode(n) PROVE GrantInv'
  BY <1>4, GrantKeep DEF DeleteNode
<1> QED
  BY <1>1, <1>2, <1>3, <1>4 DEF Operator

LEMMA GrantRestart ==
  ASSUME TypeInv, GrantInv, ControllerRestart \/ Resume PROVE GrantInv'
<1>1. CASE ControllerRestart
  <2>1. \A r \in Slots : run'[r].pc = "free"
    BY <1>1, FreeRunType DEF ControllerRestart
  <2> QED
    BY <2>1 DEF GrantInv, OneRun, ResumeAlone, Follows
<1>2. CASE Resume
  <2>1. ~resuming' /\ \A r \in Slots : run[r].pc = "free"
    BY <1>2 DEF Resume, GrantInv, ResumeAlone
  <2>2. CASE UNCHANGED run
    BY <2>1, <2>2 DEF GrantInv, OneRun, ResumeAlone, Follows
  <2>3. CASE \E j \in Jobs, r \in Slots : Spawn(r, j)
    BY <2>1, <2>3, GrantSpawn
  <2> QED
    BY <1>2, <2>2, <2>3 DEF Resume, Running, Free
<1> QED
  BY <1>1, <1>2

\* An update of the active job leaves it a job, and leaves the other fields.
LEMMA ActiveUpdate ==
  ASSUME NEW job \in ActiveJob
  PROVE  /\ LET new == [job EXCEPT !.phase = "install", !.install = NULL]
            IN  new \in ActiveJob /\ new.job = job.job /\ new.phase = "install"
         /\ \A n \in Node \cup {NULL} :
              LET new == [job EXCEPT !.install = n]
              IN  /\ new \in ActiveJob /\ new.job = job.job
                  /\ new.phase = job.phase /\ new.install = n
  BY DEF ActiveJob

LEMMA StatusUpdate ==
  ASSUME NEW job \in ActiveJob, NEW n \in Node \cup {NULL}, NEW st \in TargetStatus \cup {Unset},
         NEW new, new = [job EXCEPT !.status[n] = st]
  PROVE  /\ new \in ActiveJob /\ new.job = job.job
         /\ new.phase = job.phase /\ new.install = job.install
  BY DEF ActiveJob

LEMMA SetFollows ==
  ASSUME TypeInv, NEW r \in Slots, NEW n \in Node, NEW st \in TargetStatus, NEW next \in AfterSet,
         run[r].pc \notin {"free", "stageCtl", "publish"}, Follows(r), UNCHANGED active,
         next \in {"install", "ungrant"} => active.phase = "install",
         SetThen(r, n, st, next)
  PROVE  Follows(r)'
<1>1. /\ run'[r].pc = "set" /\ run'[r].job = run[r].job
      /\ run'[r].next = next /\ run'[r].cur = n
  BY SetThenType DEF TypeInv, TypeOK
<1> QED
  BY <1>1 DEF Follows

LEMMA GrantOrchestrator ==
  ASSUME TypeInv, GrantInv, NEW r \in Slots, Orchestrator(r) \/ Deadline(r)
  PROVE  GrantInv'
<1> USE DEF dbVars, ctlVars, diskVars
<1>a. RunStep(r)
  BY OrchestratorType
<1>b. /\ run \in [Slots -> Run] /\ run[r] \in Run
      /\ active \in ActiveJob \cup {NULL} /\ NULL \notin Jobs
  BY NodeAssumption DEF TypeInv, TypeOK
<1>c. Follows(r)
  BY DEF GrantInv
<1>e. /\ {"DownloadFailed", "InstallFailed", "Installing", "Completed"} \subseteq TargetStatus
      /\ {"mark", "install", "ungrant", "ctlInstall", "finish"} \subseteq AfterSet
  BY DEF TargetStatus, AfterSet
<1>f. Deepest(run[r].todo) \subseteq Node
  BY <1>b DEF Deepest, Run
<1>d. SUFFICES UNCHANGED resuming /\ Follows(r)'
  BY <1>a, GrantFrame
<1>1. ASSUME RunStageController(r) PROVE UNCHANGED resuming /\ Follows(r)'
  BY <1>1, <1>a, <1>b, <1>c DEF RunStageController, RunOnly, RunAndDB, RunAndActive, SetThen, Follows, Run, RunPC, AfterSet
<1>2. ASSUME RunPublish(r) PROVE UNCHANGED resuming /\ Follows(r)'
  <2>1. run[r].job \in Jobs
    BY <1>2 DEF RunPublish, TypeInv, JobsNamed
  <2>2. active' \in ActiveJob /\ active'.job = run[r].job
    BY <1>2, <1>b, <2>1 DEF RunPublish, ActiveJob, Run
  <2>3. run'[r].pc = "scan" /\ run'[r].job = run[r].job
    BY <1>2, <1>b DEF RunPublish, Run
  <2> QED
    BY <1>2, <2>2, <2>3, NullAssumption DEF RunPublish, RunAndActive, Follows
<1>3. ASSUME RunScanStart(r) PROVE UNCHANGED resuming /\ Follows(r)'
  BY <1>3, <1>a, <1>b, <1>c DEF RunScanStart, RunOnly, RunAndDB, RunAndActive, SetThen, Follows, Run, RunPC, AfterSet
<1>4. ASSUME RunScan(r) PROVE UNCHANGED resuming /\ Follows(r)'
  BY <1>4, <1>a, <1>b, <1>c DEF RunScan, RunOnly, RunAndDB, RunAndActive, SetThen, Follows, Run, RunPC, AfterSet
<1>5. ASSUME RunScanEnd(r) PROVE UNCHANGED resuming /\ Follows(r)'
  BY <1>5, <1>a, <1>b, <1>c DEF RunScanEnd, RunOnly, RunAndDB, RunAndActive, SetThen, Follows, Run, RunPC, AfterSet
<1>6. ASSUME PrefetchDeadline(r) PROVE UNCHANGED resuming /\ Follows(r)'
  BY <1>6, <1>a, <1>b, <1>c DEF PrefetchDeadline, RunOnly, RunAndDB, RunAndActive, SetThen, Follows, Run, RunPC, AfterSet
<1>7. ASSUME RunMark(r) PROVE UNCHANGED resuming /\ Follows(r)'
  <2>1. PICK n \in Deepest(run[r].todo) :
          \/ run' = [run EXCEPT ![r].todo = @ \ {n}]
          \/ SetThen(r, n, "DownloadFailed", "mark")
    BY <1>7 DEF RunMark
  <2>2. UNCHANGED <<active, resuming>> /\ run[r].pc = "mark"
    BY <1>7 DEF RunMark, RunAndDB
  <2>3. CASE run' = [run EXCEPT ![r].todo = @ \ {n}]
    BY <1>b, <1>c, <2>2, <2>3 DEF Follows, Run
  <2>4. CASE SetThen(r, n, "DownloadFailed", "mark")
    BY <1>c, <1>e, <1>f, <2>2, <2>4, SetFollows
  <2> QED
    BY <2>1, <2>2, <2>3, <2>4
<1>8. ASSUME RunMarkEnd(r) PROVE UNCHANGED resuming /\ Follows(r)'
  BY <1>8, <1>a, <1>b, <1>c DEF RunMarkEnd, RunOnly, RunAndDB, RunAndActive, SetThen, Follows, Run, RunPC, AfterSet
<1>9. ASSUME RunSetMap(r) PROVE UNCHANGED resuming /\ Follows(r)'
  <2>1. active \in ActiveJob
    BY <1>9, <1>b, <1>c DEF RunSetMap, Follows
  <2>2. /\ active' \in ActiveJob /\ active'.job = active.job
        /\ active'.phase = active.phase /\ active'.install = active.install
    <3>1. run[r].val \in TargetStatus \cup {Unset}
      BY <1>b DEF Run
    <3>2. CASE active' = active
      BY <2>1, <3>2
    <3>3. CASE active' = [active EXCEPT !.status[run[r].cur] = run[r].val]
      <4> DEFINE n == run[r].cur
                 st == run[r].val
      <4>1. active' = [active EXCEPT !.status[n] = st] /\ st \in TargetStatus \cup {Unset}
            /\ n \in Node \cup {NULL}
        BY <1>b, <3>1, <3>3 DEF Run
      <4> HIDE DEF n, st
      <4> QED
        BY <2>1, <4>1, StatusUpdate
    <3> QED
      BY <1>9, <3>2, <3>3 DEF RunSetMap
  <2>3. run'[r].pc = run[r].next /\ run'[r].job = run[r].job /\ run[r].next \in AfterSet
    BY <1>9, <1>b DEF RunSetMap, Run
  <2> QED
    BY <1>9, <1>c, <2>2, <2>3, NullAssumption DEF RunSetMap, RunAndActive, Follows, AfterSet
<1>10. ASSUME RunSwitchPhase(r) PROVE UNCHANGED resuming /\ Follows(r)'
  <2>1. active \in ActiveJob
    BY <1>10, <1>b, <1>c DEF RunSwitchPhase, Follows
  <2>2. active' \in ActiveJob /\ active'.job = active.job /\ active'.phase = "install"
    BY <1>10, <2>1, NullAssumption, ActiveUpdate DEF RunSwitchPhase
  <2>3. run'[r].pc = "install" /\ run'[r].job = run[r].job
    BY <1>10, <1>b DEF RunSwitchPhase, Run
  <2> QED
    BY <1>10, <1>c, <2>2, <2>3, NullAssumption DEF RunSwitchPhase, RunAndActive, Follows
<1>11. ASSUME RunSkip(r) PROVE UNCHANGED resuming /\ Follows(r)'
  BY <1>11, <1>a, <1>b, <1>c DEF RunSkip, RunOnly, RunAndDB, RunAndActive, SetThen, Follows, Run, RunPC, AfterSet
<1>12. ASSUME RunNotStaged(r) PROVE UNCHANGED resuming /\ Follows(r)'
  <2>1. PICK n \in Deepest(run[r].todo) : SetThen(r, n, "InstallFailed", "install")
    BY <1>12 DEF RunNotStaged
  <2>2. UNCHANGED <<active, resuming>> /\ run[r].pc = "install"
    BY <1>12 DEF RunNotStaged, RunAndDB
  <2> QED
    BY <1>c, <1>e, <1>f, <2>1, <2>2, SetFollows DEF Follows
<1>13. ASSUME RunGrant(r) PROVE UNCHANGED resuming /\ Follows(r)'
  <2>1. active \in ActiveJob
    BY <1>13, <1>b, <1>c DEF RunGrant, Follows
  <2>2. PICK n \in Deepest(run[r].todo) :
          /\ run' = [run EXCEPT ![r].pc = "wait", ![r].cur = n, ![r].todo = @ \ {n}]
          /\ active' = [active EXCEPT !.install = n]
    BY <1>13, <2>1, NullAssumption DEF RunGrant
  <2>3. /\ active' \in ActiveJob /\ active'.job = active.job
        /\ active'.phase = active.phase /\ active'.install = n
    BY <1>f, <2>1, <2>2, ActiveUpdate
  <2>4. run'[r].pc = "wait" /\ run'[r].job = run[r].job /\ run'[r].cur = n
    BY <1>b, <2>2 DEF Run
  <2> QED
    BY <1>13, <1>c, <2>3, <2>4, NullAssumption DEF RunGrant, RunAndActive, Follows
<1>14. ASSUME RunFinished(r) PROVE UNCHANGED resuming /\ Follows(r)'
  BY <1>14, <1>a, <1>b, <1>c DEF RunFinished, RunOnly, RunAndDB, RunAndActive, SetThen, Follows, Run, RunPC, AfterSet
<1>15. ASSUME InstallDeadline(r) PROVE UNCHANGED resuming /\ Follows(r)'
  <2>1. run[r].cur \in Node
    BY <1>15 DEF InstallDeadline, TypeInv, JobsNamed
  <2>2. UNCHANGED <<active, resuming>> /\ run[r].pc = "wait"
    BY <1>15 DEF InstallDeadline
  <2>3. SetThen(r, run[r].cur, "InstallFailed", "ungrant")
    BY <1>15 DEF InstallDeadline
  <2> QED
    BY <1>c, <1>e, <2>1, <2>2, <2>3, SetFollows DEF Follows
<1>16. ASSUME RunUngrant(r) PROVE UNCHANGED resuming /\ Follows(r)'
  <2>1. active \in ActiveJob
    BY <1>16, <1>b, <1>c DEF RunUngrant, Follows
  <2>2. /\ active' \in ActiveJob /\ active'.job = active.job
        /\ active'.phase = active.phase
    BY <1>16, <2>1, NullAssumption, ActiveUpdate DEF RunUngrant
  <2>3. run'[r].pc = "install" /\ run'[r].job = run[r].job
    BY <1>16, <1>b DEF RunUngrant, Run
  <2> QED
    BY <1>16, <1>c, <2>2, <2>3, NullAssumption DEF RunUngrant, RunAndActive, Follows
<1>17. ASSUME RunAllGranted(r) PROVE UNCHANGED resuming /\ Follows(r)'
  BY <1>17, <1>a, <1>b, <1>c DEF RunAllGranted, RunOnly, RunAndDB, RunAndActive, SetThen, Follows, Run, RunPC, AfterSet
<1>18. ASSUME RunController(r) PROVE UNCHANGED resuming /\ Follows(r)'
  <2>2. UNCHANGED <<active, resuming>> /\ run[r].pc = "ctl"
    BY <1>18 DEF RunController, RunAndDB
  <2>3. CASE run' = [run EXCEPT ![r].pc = "finish", ![r].restart = TRUE]
    BY <1>b, <1>c, <2>2, <2>3 DEF Follows, Run
  <2>4. CASE SetThen(r, Controller, "Installing", "ctlInstall")
    BY <1>c, <1>e, <2>2, <2>4, SetFollows, NodeAssumption
  <2> QED
    BY <1>18, <2>2, <2>3, <2>4 DEF RunController
<1>19. ASSUME RunInstallController(r) PROVE UNCHANGED resuming /\ Follows(r)'
  <2>2. UNCHANGED <<active, resuming>> /\ run[r].pc = "ctlInstall"
    BY <1>19 DEF RunInstallController
  <2>3. CASE run' = [run EXCEPT ![r] = [run[r] EXCEPT !.pc = "set", !.cur = Controller,
                       !.val = "Completed", !.next = "finish", !.restart = TRUE]]
    BY <1>b, <1>c, <2>2, <2>3 DEF Follows, Run
  <2>4. CASE SetThen(r, Controller, "InstallFailed", "finish")
    BY <1>c, <1>e, <2>2, <2>4, SetFollows, NodeAssumption
  <2> QED
    BY <1>19, <2>2, <2>3, <2>4 DEF RunInstallController
<1>20. ASSUME RunFinish(r) PROVE UNCHANGED resuming /\ Follows(r)'
  BY <1>20, <1>a, <1>b, <1>c DEF RunFinish, RunOnly, RunAndDB, RunAndActive, SetThen, Follows, Run, RunPC, AfterSet
<1>21. ASSUME RunClear(r) PROVE UNCHANGED resuming /\ Follows(r)'
  <2>1. run'[r].pc = "free" /\ UNCHANGED resuming
    BY <1>21, <1>b, FreeRunType DEF RunClear
  <2> QED
    BY <2>1 DEF Follows
<1> QED
  BY <1>1, <1>2, <1>3, <1>4, <1>5, <1>6, <1>7, <1>8, <1>9, <1>10, <1>11, <1>12, <1>13,
     <1>14, <1>15, <1>16, <1>17, <1>18, <1>19, <1>20, <1>21 DEF Orchestrator, Deadline

LEMMA GrantAgents ==
  ASSUME TypeInv, GrantInv, NEW n \in Node, AgentStep(n) \/ Delivery(n) PROVE GrantInv'
<1> USE DEF ctlVars
<1>1. ASSUME AgentStep(n) PROVE UNCHANGED <<run, resuming, active>>
  BY <1>1 DEF AgentStep, PollPrefetch, PollInstall, PrefetchCopy, PrefetchDone, PrefetchFails,
     InstallCopy, InstallDone, InstallFails, AgentRestart, AgentOnly
<1>2. ASSUME ReportStore(n) \/ ReportLost(n) PROVE UNCHANGED <<run, resuming, active>>
  BY <1>2 DEF ReportStore, ReportLost
<1>3. ASSUME ReportApply(n) PROVE GrantInv'
  <2>1. active \in ActiveJob \cup {NULL} /\ UNCHANGED <<run, resuming>>
    BY <1>3 DEF ReportApply, TypeInv, TypeOK
  <2>2. CASE UNCHANGED active
    BY <2>1, <2>2, GrantKeep
  <2>3. CASE active # NULL /\ active' = [active EXCEPT !.status[n] = wire[n].status]
    <3>1. active \in ActiveJob
      BY <2>1, <2>3
    <3>2. wire[n].status \in TargetStatus
      BY <1>3 DEF TypeInv, TypeOK, ReportApply, Report, Reported, TargetStatus
    <3>3. /\ active' \in ActiveJob
          /\ active'.job = active.job /\ active'.phase = active.phase
          /\ active'.install = active.install
      BY <2>3, <3>1, <3>2, StatusUpdate
    <3> QED
      BY <2>1, <3>3, GrantKeep, NullAssumption
  <2> QED
    BY <1>3, <2>2, <2>3 DEF ReportApply
<1> QED
  BY <1>1, <1>2, <1>3, GrantKeep DEF Delivery

LEMMA GrantNext == TypeInv /\ GrantInv /\ ~ConcurrentStarts /\ [Next]_vars => GrantInv'
<1> SUFFICES ASSUME TypeInv, GrantInv, ~ConcurrentStarts, [Next]_vars PROVE GrantInv'
  OBVIOUS
<1>1. CASE UNCHANGED vars
  BY <1>1, GrantKeep DEF vars, ctlVars
<1> QED
  BY <1>1, GrantOperator, GrantRestart, GrantOrchestrator, GrantAgents DEF Next

\* With any number of goroutines: the record names the same job, phase and node.
SameGrant ==
  \/ active' = active
  \/ /\ active' # NULL
     /\ active'.job = active.job /\ active'.phase = active.phase
     /\ active'.install = active.install

LEMMA GrantElsewhere ==
  ASSUME TypeInv, active # NULL, NEW s \in Slots, Orchestrator(s) \/ Deadline(s), ~Overwrites(s)
  PROVE  SameGrant
<1> USE DEF dbVars, ctlVars, diskVars
<1>1. CASE RunSetMap(s)
  <2>1. run[s] \in Run /\ active \in ActiveJob
    BY DEF TypeInv, TypeOK
  <2>2. CASE active' = [active EXCEPT !.status[run[s].cur] = run[s].val]
    <3> DEFINE n == run[s].cur
               st == run[s].val
    <3>1. active' = [active EXCEPT !.status[n] = st] /\ st \in TargetStatus \cup {Unset}
          /\ n \in Node \cup {NULL}
      BY <2>1, <2>2 DEF Run
    <3> HIDE DEF n, st
    <3> QED
      BY <2>1, <3>1, StatusUpdate, NullAssumption DEF SameGrant
  <2>3. CASE active' = active
    BY <2>3 DEF SameGrant
  <2> QED
    BY <1>1, <2>2, <2>3 DEF RunSetMap
<1>2. ASSUME ~RunSetMap(s) PROVE active' = active
  BY <1>2 DEF Orchestrator, Deadline, Overwrites, RunOnly, RunAndDB, RunStageController, RunScanStart,
     RunScan, RunScanEnd, PrefetchDeadline, RunMark, RunMarkEnd, RunSkip, RunNotStaged, RunFinished,
     InstallDeadline, RunAllGranted, RunController, RunInstallController, RunFinish
<1> QED
  BY <1>1, <1>2 DEF SameGrant

\* The goroutine's own next step ends its waiting.
LEMMA GrantOwn ==
  ASSUME TypeInv, NEW r \in Slots, run[r].pc = "wait", Orchestrator(r) \/ Deadline(r)
  PROVE  run'[r].pc # "wait"
<1>1. run \in [Slots -> Run] /\ run[r] \in Run
  BY DEF TypeInv, TypeOK
<1>2. CASE RunFinished(r)
  BY <1>1, <1>2 DEF RunFinished, Run
<1>3. CASE InstallDeadline(r)
  <2>1. run' = [run EXCEPT ![r] = [run[r] EXCEPT !.pc = "set", !.cur = run[r].cur, !.val = "InstallFailed",
                                          !.next = "ungrant", !.todo = @ \ {run[r].cur}]]
    BY <1>3 DEF InstallDeadline, SetThen
  <2> QED
    BY <1>1, <2>1 DEF Run
<1> QED
  BY <1>2, <1>3 DEF Orchestrator, Deadline, RunStageController, RunPublish, RunScanStart, RunScan,
     RunScanEnd, PrefetchDeadline, RunMark, RunMarkEnd, RunSetMap, RunSwitchPhase, RunSkip,
     RunNotStaged, RunGrant, RunUngrant, RunAllGranted, RunController, RunInstallController,
     RunFinish, RunClear

LEMMA GrantStays ==
  ASSUME TypeInv, [Next]_vars, NEW r \in Slots, HasGrant(r), run'[r].pc = "wait",
         \A s \in Slots \ {r} : ~Overwrites(s)
  PROVE  HasGrant(r)'
<1> USE DEF ctlVars
<1>0. /\ active # NULL /\ run[r].pc = "wait"
      /\ run \in [Slots -> Run] /\ active \in ActiveJob
  BY DEF HasGrant, TypeInv, TypeOK
<1>a. SUFFICES SameGrant /\ run'[r] = run[r]
  BY DEF HasGrant, SameGrant
<1>1. ASSUME NEW s \in Slots, NEW j \in Jobs, s \in Free, Spawn(s, j), UNCHANGED active
      PROVE  SameGrant /\ run'[r] = run[r]
  BY <1>0, <1>1 DEF Free, Spawn, SameGrant
<1>2. CASE Operator
  <2>1. ASSUME NEW j \in Jobs, StartUpdate(j) PROVE SameGrant /\ run'[r] = run[r]
    BY <1>1, <2>1 DEF StartUpdate, Free
  <2>2. ASSUME ~\E j \in Jobs : StartUpdate(j) PROVE UNCHANGED <<run, active>>
    BY <1>2, <2>2 DEF Operator, CreateUpdate, RollbackUpdate, RollbackTarget, RollbackDone, DeleteNode
  <2> QED
    BY <2>1, <2>2 DEF SameGrant
<1>3. ControllerRestart => FALSE
  BY <1>0, FreeRunType DEF ControllerRestart
<1>4. CASE Resume
  <2>1. UNCHANGED active /\ (UNCHANGED run \/ \E j \in Running, s \in Free : Spawn(s, j))
    BY <1>4 DEF Resume
  <2> QED
    BY <1>1, <2>1 DEF SameGrant, Running, Free
<1>5. ASSUME NEW s \in Slots, Orchestrator(s) \/ Deadline(s)
      PROVE  SameGrant /\ run'[r] = run[r]
  <2>1. s # r
    BY <1>0, <1>5, GrantOwn
  <2>2. run'[r] = run[r]
    BY <1>5, <2>1, OrchestratorType DEF RunStep
  <2> QED
    BY <1>0, <1>5, <2>1, <2>2, GrantElsewhere
<1>6. ASSUME NEW n \in Node, AgentStep(n) \/ Delivery(n)
      PROVE  SameGrant /\ run'[r] = run[r]
  <2>1. CASE ReportApply(n)
    <3>1. run' = run /\ wire[n].status \in TargetStatus
      BY <2>1 DEF ReportApply, TypeInv, TypeOK, Report, Reported, TargetStatus
    <3>2. active' = active \/ active' = [active EXCEPT !.status[n] = wire[n].status]
      BY <2>1 DEF ReportApply
    <3> QED
      BY <1>0, <3>1, <3>2, StatusUpdate, NullAssumption DEF SameGrant
  <2>2. ASSUME ~ReportApply(n) PROVE UNCHANGED <<run, active>>
    BY <1>6, <2>2 DEF AgentStep, Delivery, PollPrefetch, PollInstall, PrefetchCopy, PrefetchDone,
       PrefetchFails, InstallCopy, InstallDone, InstallFails, AgentRestart, AgentOnly, ReportStore, ReportLost
  <2> QED
    BY <2>1, <2>2 DEF SameGrant
<1>7. CASE UNCHANGED vars
  BY <1>7 DEF vars, SameGrant
<1> QED
  BY <1>2, <1>3, <1>4, <1>5, <1>6, <1>7 DEF Next

\* However many jobs are started at once and whatever restarts: the grant an
\* orchestrator waits on is only taken by another orchestrator
\* (policy_handlers.go:413, 453-577, 609).
THEOREM GrantCorrect == Spec => GrantHeld
<1>1. TypeInv /\ [Next]_vars =>
        [\A r \in Slots : HasGrant(r) /\ run'[r].pc = "wait" =>
           HasGrant(r)' \/ \E s \in Slots \ {r} : Overwrites(s)]_vars
  BY GrantStays
<1> QED
  BY <1>1, InitType, NextType, PTL DEF Spec, GrantHeld

-----------------------------------------------------------------------------
(* What a goroutine knows about itself, in every run: it only works on     *)
(* agents until it comes to the controller, and a verdict it is about to   *)
(* write into the map is recorded in gaveUp.                               *)

KnowsItself(r) ==
  /\ run[r].todo \subseteq Agents
  /\ run[r].pc = "wait" => run[r].cur \in Agents
  /\ run[r].pc = "set" =>
       /\ run[r].next \in {"mark", "install", "ungrant", "ctlInstall", "finish"}
       /\ run[r].next \in {"ctlInstall", "finish"} => run[r].cur = Controller
       /\ run[r].next \in {"mark", "install", "ungrant"} => run[r].cur \in Agents
       /\ run[r].next = "mark" =>
            run[r].val = "DownloadFailed" /\ "prefetch" \in gaveUp[run[r].cur]
       /\ run[r].next = "install" =>
            run[r].val = "InstallFailed" /\ "not staged" \in gaveUp[run[r].cur]
       /\ run[r].next = "ungrant" =>
            run[r].val = "InstallFailed" /\ "install" \in gaveUp[run[r].cur]

SelfInv == \A r \in Slots : KnowsItself(r)

\* A step of a goroutine in one of its phases.
Before(r)   == run[r].pc \in {"stageCtl", "publish"}
Prefetch(r) == run[r].pc \in {"head", "scan", "mark", "switch"}
                 \/ (run[r].pc = "set" /\ run[r].next = "mark")
Holder(r)   == run[r].pc \in {"wait", "ungrant"}
                 \/ (run[r].pc = "set" /\ run[r].next = "ungrant")
Install(r)  == run[r].pc = "install" \/ Holder(r)
                 \/ (run[r].pc = "set" /\ run[r].next = "install")
After(r)    == run[r].pc \in {"ctl", "ctlInstall", "finish", "clear"}
                 \/ (run[r].pc = "set" /\ run[r].next \in {"ctlInstall", "finish"})

\* One row of a target is written, if it is there.
Stored(j, n, st) ==
  \A i \in Jobs, m \in Node :
    target'[i][m] = IF i = j /\ m = n /\ target[i][m] # NoRow THEN st ELSE target[i][m]

LEMMA StoreEffect ==
  ASSUME target \in [Jobs -> [Node -> TargetStatus \cup {NoRow}]],
         NEW j \in Jobs, NEW n \in Node, NEW st, StoreStatus(j, n, st)
  PROVE  Stored(j, n, st)
<1>1. CASE target[j][n] = NoRow
  BY <1>1 DEF StoreStatus, Stored
<1>2. CASE target[j][n] # NoRow
  <2>1. target' = [target EXCEPT ![j][n] = st]
    BY <1>2 DEF StoreStatus
  <2> QED
    BY <1>2, <2>1 DEF Stored
<1> QED
  BY <1>1, <1>2

\* One verdict is recorded.
Overruled(n, why) ==
  \A m \in Node : gaveUp'[m] = IF m = n THEN gaveUp[m] \cup {why} ELSE gaveUp[m]

LEMMA GiveUpEffect ==
  ASSUME gaveUp \in [Node -> SUBSET {"prefetch", "not staged", "install"}],
         NEW n \in Node, NEW why, GiveUp(n, why)
  PROVE  Overruled(n, why)
  BY DEF GiveUp, Overruled

\* One entry of the map is written.
Mapped(n, st) ==
  /\ active # NULL /\ active' # NULL
  /\ active'.job = active.job /\ active'.phase = active.phase
  /\ active'.install = active.install
  /\ \A m \in Node : active'.status[m] = IF m = n THEN st ELSE active.status[m]

LEMMA MapEffect ==
  ASSUME active \in ActiveJob, NEW n \in Node, NEW st \in TargetStatus,
         active' = [active EXCEPT !.status[n] = st]
  PROVE  Mapped(n, st)
<1>1. active' \in ActiveJob
  BY StatusUpdate
<1> QED
  BY <1>1, NullAssumption DEF Mapped, ActiveJob

-----------------------------------------------------------------------------
(* The effects of the steps of a goroutine.                                *)

SameDB     == UNCHANGED <<target, jobStatus, gaveUp, bin>>
SameRun(r) == run'[r].job = run[r].job

Moves(r) ==         \* within the prefetch phase
  /\ Prefetch(r) /\ Prefetch(r)' /\ SameRun(r) /\ SameDB /\ UNCHANGED <<active, restartDue>>

Stages(r) ==
  /\ Before(r) /\ Before(r)' /\ SameRun(r)
  /\ \A n \in Agents : run'[r].snap[n] = run[r].snap[n]
  /\ \A j \in Jobs, n \in Agents : target'[j][n] = target[j][n]
  /\ UNCHANGED <<jobStatus, gaveUp, bin, active, restartDue, used>>

Publishes(r) ==
  /\ Before(r) /\ Prefetch(r)' /\ SameRun(r) /\ SameDB /\ UNCHANGED <<restartDue, used>>
  /\ active' # NULL /\ active'.job = run[r].job /\ active'.phase = "prefetch"
  /\ active'.install = NULL
  /\ \A n \in Node : active'.status[n] = IF run[r].snap[n] \in {NoRow, "Waiting"}
                                         THEN Unset ELSE run[r].snap[n]

TimesOut(r) ==      \* the marking scan gives a node up
  \E n \in Agents :
    /\ Prefetch(r) /\ Prefetch(r)' /\ SameRun(r)
    /\ Stored(run[r].job, n, "DownloadFailed") /\ Overruled(n, "prefetch")
    /\ UNCHANGED <<jobStatus, bin, active, restartDue, used>>

SetsMap(r) ==
  /\ run[r].pc = "set" /\ SameRun(r) /\ SameDB /\ UNCHANGED <<restartDue, used>>
  /\ run'[r].pc = run[r].next /\ run'[r].todo = run[r].todo /\ run'[r].snap = run[r].snap
  /\ IF active # NULL /\ active.job = run[r].job
     THEN Mapped(run[r].cur, run[r].val) ELSE UNCHANGED active

Switches(r) ==
  /\ Prefetch(r) /\ run'[r].pc = "install" /\ SameRun(r) /\ SameDB
  /\ UNCHANGED <<restartDue, used>>
  /\ run'[r].snap = target[run[r].job]
  /\ run'[r].todo = AgentRows(target[run[r].job])
  /\ active # NULL => /\ active' # NULL /\ active'.job = active.job
                      /\ active'.phase = "install" /\ active'.install = NULL
                      /\ active'.status = active.status
  /\ active = NULL => active' = NULL

Skips(r) ==
  \E n \in run[r].todo :
    /\ run[r].pc = "install" /\ run'[r].pc = "install" /\ SameRun(r) /\ SameDB
    /\ Seen(r, n) \in InstallSkips
    /\ run'[r].todo = run[r].todo \ {n} /\ run'[r].snap = run[r].snap
    /\ UNCHANGED <<active, restartDue, used>>

Rejects(r) ==
  \E n \in run[r].todo :
    /\ run[r].pc = "install" /\ run'[r].pc = "set" /\ run'[r].next = "install" /\ SameRun(r)
    /\ run'[r].todo = run[r].todo \ {n} /\ run'[r].snap = run[r].snap
    /\ Stored(run[r].job, n, "InstallFailed") /\ Overruled(n, "not staged")
    /\ UNCHANGED <<jobStatus, bin, active, restartDue, used>>

Grants(r) ==
  \E n \in run[r].todo :
    /\ run[r].pc = "install" /\ run'[r].pc = "wait" /\ SameRun(r) /\ SameDB
    /\ \A m \in run[r].todo : Depth[m] <= Depth[n]
    /\ Seen(r, n) \in {"Staged", "Installing"}
    /\ run'[r].todo = run[r].todo \ {n} /\ run'[r].snap = run[r].snap /\ run'[r].cur = n
    /\ UNCHANGED <<restartDue, used>>
    /\ active # NULL => /\ active' # NULL /\ active'.job = active.job
                        /\ active'.phase = active.phase /\ active'.install = n
                        /\ active'.status = active.status
    /\ active = NULL => active' = NULL

Hears(r) ==         \* of the end of an installation
  /\ run[r].pc = "wait" /\ run'[r].pc = "ungrant" /\ SameRun(r) /\ SameDB
  /\ MapStatus(run[r].cur) \in InstallFinished
  /\ run'[r].todo = run[r].todo /\ run'[r].snap = run[r].snap /\ run'[r].cur = run[r].cur
  /\ UNCHANGED <<active, restartDue, used>>

StopsWaiting(r) ==
  /\ run[r].pc = "wait" /\ run'[r].pc = "set" /\ run'[r].next = "ungrant" /\ SameRun(r)
  /\ run'[r].todo = run[r].todo \ {run[r].cur} /\ run'[r].snap = run[r].snap
  /\ run'[r].cur = run[r].cur
  /\ Stored(run[r].job, run[r].cur, "InstallFailed") /\ Overruled(run[r].cur, "install")
  /\ UNCHANGED <<jobStatus, bin, active, restartDue>>

Ungrants(r) ==
  /\ run[r].pc = "ungrant" /\ run'[r].pc = "install" /\ SameRun(r) /\ SameDB
  /\ run'[r].todo = run[r].todo /\ run'[r].snap = run[r].snap
  /\ UNCHANGED <<restartDue, used>>
  /\ active # NULL => /\ active' # NULL /\ active'.job = active.job
                      /\ active'.phase = active.phase /\ active'.install = NULL
                      /\ active'.status = active.status
  /\ active = NULL => active' = NULL

EndsLoop(r) ==
  /\ run[r].pc = "install" /\ run[r].todo = {} /\ run'[r].pc = "ctl" /\ SameRun(r) /\ SameDB
  /\ UNCHANGED <<active, restartDue, used>>

DoesController(r) ==
  /\ run[r].pc \in {"ctl", "ctlInstall"} /\ After(r)' /\ run'[r].pc # "clear" /\ SameRun(r)
  /\ \A j \in Jobs, n \in Agents : target'[j][n] = target[j][n]
  /\ \A n \in Agents : bin'[n] = bin[n]
  /\ UNCHANGED <<jobStatus, gaveUp, active, restartDue>>

Finishes(r) ==
  /\ run[r].pc = "finish" /\ run'[r].pc = "clear" /\ SameRun(r)
  /\ jobStatus' = [jobStatus EXCEPT ![run[r].job] = "Completed"]
  /\ UNCHANGED <<target, gaveUp, bin, active, restartDue, used>>

Clears(r) ==
  /\ run[r].pc = "clear" /\ run'[r].pc = "free" /\ SameDB /\ active' = NULL
  /\ UNCHANGED used

Effect(r) ==
  \/ Stages(r) \/ Publishes(r) \/ Moves(r) \/ TimesOut(r) \/ SetsMap(r) \/ Switches(r)
  \/ Skips(r) \/ Rejects(r) \/ Grants(r) \/ Hears(r) \/ StopsWaiting(r) \/ Ungrants(r)
  \/ EndsLoop(r) \/ DoesController(r) \/ Finishes(r) \/ Clears(r)

LEMMA SpendEffect ==
  ASSUME used \in [Counters -> Nat], NEW k \in Counters, NEW limit, Spend(k, limit)
  PROVE  \A i \in Counters : used'[i] = IF i = k THEN used[i] + 1 ELSE used[i]
  BY DEF Spend

\* No goroutine spends anything but deadlines and failures.
Spends ==
  /\ \A k \in {"starts", "rollbacks", "deletes", "ctl", "agents"} : used'[k] = used[k]
  /\ used["failures"] <= used'["failures"]

LEMMA SpendsNothing == ASSUME used \in [Counters -> Nat], UNCHANGED used PROVE Spends
  BY DEF Spends, Counters

LEMMA SpendsSome ==
  ASSUME used \in [Counters -> Nat], NEW k \in {"deadlines", "failures"}, NEW limit, Spend(k, limit)
  PROVE  Spends
<1>1. \A i \in Counters : used'[i] = IF i = k THEN used[i] + 1 ELSE used[i]
  BY SpendEffect DEF Counters
<1> QED
  BY <1>1 DEF Spends, Counters

\* Verdicts are never taken back.
GivesUpMore == \A n \in Node : gaveUp[n] \subseteq gaveUp'[n]

RunSpares == Spends /\ GivesUpMore /\ UNCHANGED <<alive, rollback, resuming, agentVars, staged, release, current>>

LEMMA RunEffect ==
  ASSUME TypeInv, SelfInv, NEW r \in Slots, Orchestrator(r) \/ Deadline(r)
  PROVE  Effect(r) /\ KnowsItself(r)' /\ RunSpares
<1> USE DEF dbVars, ctlVars, diskVars, agentVars
<1> DEFINE Goal == Effect(r) /\ KnowsItself(r)' /\ RunSpares
<1>a. /\ target \in [Jobs -> [Node -> TargetStatus \cup {NoRow}]]
      /\ jobStatus \in [Jobs -> JobStatus]
      /\ active \in ActiveJob \cup {NULL}
      /\ run \in [Slots -> Run] /\ run[r] \in Run
      /\ bin \in [Node -> Image \cup {NULL}]
      /\ used \in [Counters -> Nat]
      /\ gaveUp \in [Node -> SUBSET {"prefetch", "not staged", "install"}]
  BY DEF TypeInv, TypeOK
<1>b. run[r].pc # "free" => run[r].job \in Jobs
  BY DEF TypeInv, JobsNamed
<1>c. KnowsItself(r) /\ run[r].todo \subseteq Agents /\ Agents \subseteq Node
  BY DEF SelfInv, KnowsItself, Agents
<1>d. \A S : Deepest(S) = {n \in S : \A m \in S : Depth[m] <= Depth[n]}
  BY DEF Deepest
<1>e. \A rows : AgentRows(rows) \subseteq Agents
  BY DEF AgentRows
<1>f. Controller \in Node /\ Controller \notin Agents
  BY NodeAssumption DEF Agents
<1>s. {"Staged", "DownloadFailed", "InstallFailed", "Installing", "Completed"} \subseteq TargetStatus
  BY DEF TargetStatus
<1>g. UNCHANGED <<used, gaveUp>> => Spends /\ GivesUpMore
  BY <1>a, SpendsNothing DEF GivesUpMore
<1>h. \A n \in Node : \A why : GiveUp(n, why) => GivesUpMore /\ Overruled(n, why)
  BY <1>a, GiveUpEffect DEF GivesUpMore, Overruled
<1>i. ASSUME NEW n \in Agents, NEW st \in TargetStatus, NEW next, SetThen(r, n, st, next),
             run[r].pc # "free"
      PROVE  /\ run'[r].pc = "set" /\ run'[r].next = next /\ run'[r].job = run[r].job
             /\ run'[r].todo = run[r].todo \ {n} /\ run'[r].snap = run[r].snap
             /\ run'[r].cur = n /\ run'[r].val = st
             /\ Stored(run[r].job, n, st)
  BY <1>a, <1>b, <1>c, <1>i, StoreEffect DEF SetThen, Run
<1>1. ASSUME RunStageController(r) PROVE Goal
  <2>1. UNCHANGED <<used, gaveUp, active, jobStatus, bin, restartDue>> /\ RunSpares
    BY <1>1, <1>g DEF RunStageController, RunAndDB, RunSpares
  <2> DEFINE s == [run[r].snap EXCEPT ![Controller] = "Staged"]
  <2>2. /\ run[r].pc = "stageCtl" /\ run'[r].pc = "publish" /\ run'[r].job = run[r].job
        /\ run'[r].todo = run[r].todo /\ \A n \in Agents : run'[r].snap[n] = run[r].snap[n]
    <3>1. CASE run' = [run EXCEPT ![r].pc = "publish"]
      BY <1>1, <1>a, <3>1 DEF RunStageController, Run
    <3>2. CASE run' = [run EXCEPT ![r].pc = "publish", ![r].snap[Controller] = "Staged"]
      <4>1. run' = [run EXCEPT ![r] = [run[r] EXCEPT !.pc = "publish", !.snap = s]]
        BY <1>a, <3>2 DEF Run
      <4>2. \A n \in Agents : s[n] = run[r].snap[n]
        BY <1>a, <1>f, <1>c DEF Run
      <4> HIDE DEF s
      <4> QED
        BY <1>1, <1>a, <4>1, <4>2 DEF RunStageController, Run
    <3> QED
      BY <1>1, <3>1, <3>2 DEF RunStageController
  <2>4. \A j \in Jobs, n \in Agents : target'[j][n] = target[j][n]
    <3>1. CASE UNCHANGED target
      BY <3>1
    <3>2. CASE StoreStatus(run[r].job, Controller, "Staged")
      <4>1. Stored(run[r].job, Controller, "Staged")
        BY <1>a, <1>b, <1>f, <2>2, <3>2, StoreEffect
      <4> QED
        BY <1>c, <1>f, <4>1 DEF Stored
    <3> QED
      BY <1>1, <3>1, <3>2 DEF RunStageController
  <2>5. KnowsItself(r)'
    BY <1>c, <2>2 DEF KnowsItself
  <2> QED
    BY <2>1, <2>2, <2>4, <2>5 DEF Effect, Stages, Before, SameRun
<1>2. ASSUME RunPublish(r) PROVE Goal
  <2>1. RunSpares /\ SameDB /\ UNCHANGED <<restartDue, used>>
    BY <1>2, <1>g DEF RunPublish, RunAndActive, RunSpares, SameDB
  <2>2. /\ run[r].pc = "publish" /\ run'[r].pc = "scan" /\ run'[r].job = run[r].job
        /\ run'[r].todo = AgentRows(run[r].snap)
    BY <1>2, <1>a DEF RunPublish, Run
  <2>3. active' \in ActiveJob
    BY <1>2, <1>a, <1>b, <2>2 DEF RunPublish, ActiveJob, Run
  <2>4. KnowsItself(r)'
    BY <1>e, <2>2 DEF KnowsItself
  <2> QED
    BY <1>2, <2>1, <2>2, <2>3, <2>4, NullAssumption
       DEF Effect, Publishes, Before, Prefetch, SameRun, RunPublish
<1>3. ASSUME RunScanStart(r) \/ RunScanEnd(r) \/ PrefetchDeadline(r) \/ RunMarkEnd(r) PROVE Goal
  <2>1. RunSpares /\ SameDB /\ UNCHANGED <<active, restartDue>>
    <3>1. CASE UNCHANGED used
      BY <1>3, <1>g, <3>1 DEF RunScanStart, RunScanEnd, PrefetchDeadline, RunMarkEnd, RunOnly, RunSpares, SameDB
    <3>2. CASE PrefetchDeadline(r)
      <4>1. Spends
        BY <1>a, <3>2, SpendsSome DEF PrefetchDeadline
      <4> QED
        BY <3>2, <4>1 DEF PrefetchDeadline, RunSpares, SameDB, GivesUpMore
    <3> QED
      BY <1>3, <3>1, <3>2 DEF RunScanStart, RunScanEnd, RunMarkEnd, RunOnly
  <2>2. /\ run[r].pc \in {"head", "scan", "mark"} /\ run'[r].pc \in {"head", "scan", "mark", "switch"}
        /\ run'[r].job = run[r].job
        /\ run'[r].todo \subseteq Agents
    <3>1. CASE RunScanStart(r)
      BY <1>a, <1>e, <3>1 DEF RunScanStart, Run
    <3>2. CASE RunScanEnd(r)
      BY <1>a, <1>e, <3>2 DEF RunScanEnd, Run
    <3>3. CASE PrefetchDeadline(r)
      BY <1>a, <1>e, <3>3 DEF PrefetchDeadline, Run
    <3>4. CASE RunMarkEnd(r)
      BY <1>a, <1>c, <3>4 DEF RunMarkEnd, Run
    <3> QED
      BY <1>3, <3>1, <3>2, <3>3, <3>4
  <2>3. KnowsItself(r)'
    BY <2>2 DEF KnowsItself
  <2> QED
    BY <2>1, <2>2, <2>3 DEF Effect, Moves, Prefetch, SameRun
<1>4. ASSUME RunScan(r) PROVE Goal
  <2>1. RunSpares /\ SameDB /\ UNCHANGED <<active, restartDue>>
    BY <1>4, <1>g DEF RunScan, RunOnly, RunSpares, SameDB
  <2>2. PICK n \in Deepest(run[r].todo) :
          run' = [run EXCEPT ![r].todo = @ \ {n},
                             ![r].pending = @ \/ (n \in alive /\ Seen(r, n) \notin PrefetchSettled)]
    BY <1>4 DEF RunScan
  <2> DEFINE p == run[r].pending \/ (n \in alive /\ Seen(r, n) \notin PrefetchSettled)
  <2>3. run' = [run EXCEPT ![r] = [run[r] EXCEPT !.todo = run[r].todo \ {n}, !.pending = p]]
    BY <2>2, <1>a DEF Run
  <2> HIDE DEF p
  <2>4. /\ run[r].pc = "scan" /\ run'[r].pc = "scan" /\ run'[r].job = run[r].job
        /\ run'[r].todo \subseteq Agents
    BY <1>4, <1>a, <1>c, <2>3 DEF RunScan, Run
  <2>5. KnowsItself(r)'
    BY <2>4 DEF KnowsItself
  <2> QED
    BY <2>1, <2>4, <2>5 DEF Effect, Moves, Prefetch, SameRun
<1>5. ASSUME RunMark(r) PROVE Goal
  <2>1. PICK n \in Deepest(run[r].todo) :
          \/ /\ run' = [run EXCEPT ![r].todo = @ \ {n}]
             /\ UNCHANGED <<target, gaveUp>>
          \/ /\ SetThen(r, n, "DownloadFailed", "mark")
             /\ GiveUp(n, "prefetch")
    BY <1>5 DEF RunMark
  <2>2. /\ run[r].pc = "mark" /\ n \in Agents /\ n \in Node
        /\ UNCHANGED <<alive, jobStatus, active, rollback, resuming, restartDue, agentVars, diskVars, used>>
    BY <1>5, <1>c, <1>d, <2>1 DEF RunMark, RunAndDB
  <2>3. CASE run' = [run EXCEPT ![r].todo = @ \ {n}] /\ UNCHANGED <<target, gaveUp>>
    <3>1. /\ run'[r].pc = "mark" /\ run'[r].job = run[r].job /\ run'[r].todo \subseteq Agents
      BY <1>a, <1>c, <2>2, <2>3 DEF Run
    <3>2. KnowsItself(r)'
      BY <3>1 DEF KnowsItself
    <3> QED
      BY <1>g, <2>2, <2>3, <3>1, <3>2 DEF Effect, Moves, Prefetch, SameRun, SameDB, RunSpares
  <2>4. CASE SetThen(r, n, "DownloadFailed", "mark") /\ GiveUp(n, "prefetch")
    <3>1. /\ run'[r].pc = "set" /\ run'[r].next = "mark" /\ run'[r].job = run[r].job
          /\ run'[r].todo = run[r].todo \ {n} /\ run'[r].cur = n /\ run'[r].val = "DownloadFailed"
          /\ Stored(run[r].job, n, "DownloadFailed")
      BY <1>i, <1>s, <2>2, <2>4
    <3>2. GivesUpMore /\ Overruled(n, "prefetch")
      BY <1>h, <2>2, <2>4
    <3>3. KnowsItself(r)'
      BY <1>c, <2>2, <3>1, <3>2 DEF KnowsItself, Overruled
    <3>4. RunSpares
      BY <1>a, <2>2, <3>2, SpendsNothing DEF RunSpares
    <3>5. TimesOut(r)
      BY <2>2, <3>1, <3>2 DEF TimesOut, Prefetch, SameRun
    <3> QED
      BY <3>3, <3>4, <3>5 DEF Effect
  <2> QED
    BY <2>1, <2>3, <2>4
<1>6. ASSUME RunSetMap(r) PROVE Goal
  <2>1. RunSpares /\ SameDB /\ UNCHANGED <<restartDue, used>>
    BY <1>6, <1>g DEF RunSetMap, RunAndActive, RunSpares, SameDB
  <2>2. /\ run[r].pc = "set" /\ run'[r].pc = run[r].next /\ run'[r].job = run[r].job
        /\ run'[r].todo = run[r].todo /\ run'[r].snap = run[r].snap
    BY <1>6, <1>a DEF RunSetMap, Run
  <2>3. ASSUME active # NULL /\ active.job = run[r].job
        PROVE  Mapped(run[r].cur, run[r].val)
    <3> DEFINE n == run[r].cur
               st == run[r].val
    <3>1. active \in ActiveJob /\ active' = [active EXCEPT !.status[n] = st]
      BY <1>6, <1>a, <2>3 DEF RunSetMap
    <3>2. n \in Node
      BY <1>c, <1>f, <2>2 DEF KnowsItself
    <3>3. st \in TargetStatus \cup {Unset}
      BY <1>a DEF Run
    <3> HIDE DEF n, st
    <3>4. active' \in ActiveJob
      BY <3>1, <3>2, <3>3, StatusUpdate
    <3>5. Mapped(n, st)
      BY <2>3, <3>1, <3>2, <3>4, NullAssumption DEF Mapped, ActiveJob
    <3> QED
      BY <3>5 DEF n, st
  <2>5. IF active # NULL /\ active.job = run[r].job
        THEN Mapped(run[r].cur, run[r].val) ELSE UNCHANGED active
    BY <1>6, <2>3 DEF RunSetMap
  <2>6. KnowsItself(r)'
    BY <1>c, <2>2 DEF KnowsItself
  <2> QED
    BY <2>1, <2>2, <2>5, <2>6 DEF Effect, SetsMap, SameRun
<1>7. ASSUME RunSwitchPhase(r) PROVE Goal
  <2>1. RunSpares /\ SameDB /\ UNCHANGED <<restartDue, used>>
    BY <1>7, <1>g DEF RunSwitchPhase, RunAndActive, RunSpares, SameDB
  <2>2. /\ run[r].pc = "switch" /\ run'[r].pc = "install" /\ run'[r].job = run[r].job
        /\ run'[r].snap = target[run[r].job] /\ run'[r].todo = AgentRows(target[run[r].job])
    BY <1>7, <1>a DEF RunSwitchPhase, Run
  <2>3. /\ active # NULL => /\ active' # NULL /\ active'.job = active.job
                            /\ active'.phase = "install" /\ active'.install = NULL
                            /\ active'.status = active.status
        /\ active = NULL => active' = NULL
    BY <1>7, <1>a, NullAssumption DEF RunSwitchPhase, ActiveJob
  <2>4. KnowsItself(r)'
    BY <1>e, <2>2 DEF KnowsItself
  <2> QED
    BY <2>1, <2>2, <2>3, <2>4 DEF Effect, Switches, Prefetch, SameRun
<1>8. ASSUME RunSkip(r) PROVE Goal
  <2>0. PICK n \in Deepest(run[r].todo) :
          Seen(r, n) \in InstallSkips /\ run' = [run EXCEPT ![r].todo = @ \ {n}]
    BY <1>8 DEF RunSkip
  <2>1. RunSpares /\ SameDB /\ UNCHANGED <<active, restartDue, used>>
    BY <1>8, <1>g DEF RunSkip, RunOnly, RunSpares, SameDB
  <2>2. /\ run[r].pc = "install" /\ run'[r].pc = "install" /\ run'[r].job = run[r].job
        /\ run'[r].snap = run[r].snap /\ run'[r].todo = run[r].todo \ {n} /\ n \in run[r].todo
    BY <1>8, <1>a, <1>d, <2>0 DEF RunSkip, Run
  <2>4. KnowsItself(r)'
    BY <1>c, <2>2 DEF KnowsItself
  <2> QED
    BY <2>0, <2>1, <2>2, <2>4 DEF Effect, Skips, SameRun
<1>9. ASSUME RunNotStaged(r) PROVE Goal
  <2>1. PICK n \in Deepest(run[r].todo) :
          SetThen(r, n, "InstallFailed", "install") /\ GiveUp(n, "not staged")
    BY <1>9 DEF RunNotStaged
  <2>2. /\ run[r].pc = "install" /\ n \in Agents /\ n \in Node /\ n \in run[r].todo
        /\ UNCHANGED <<alive, jobStatus, active, rollback, resuming, restartDue, agentVars, diskVars, used>>
    BY <1>9, <1>c, <1>d, <2>1 DEF RunNotStaged, RunAndDB
  <2>3. /\ run'[r].pc = "set" /\ run'[r].next = "install" /\ run'[r].job = run[r].job
        /\ run'[r].todo = run[r].todo \ {n} /\ run'[r].snap = run[r].snap
        /\ run'[r].cur = n /\ run'[r].val = "InstallFailed"
        /\ Stored(run[r].job, n, "InstallFailed")
    BY <1>i, <1>s, <2>1, <2>2
  <2>4. GivesUpMore /\ Overruled(n, "not staged")
    BY <1>h, <2>1, <2>2
  <2>5. KnowsItself(r)'
    BY <1>c, <2>2, <2>3, <2>4 DEF KnowsItself, Overruled
  <2>6. RunSpares
    BY <1>a, <2>2, <2>4, SpendsNothing DEF RunSpares
  <2>7. Rejects(r)
    BY <2>2, <2>3, <2>4 DEF Rejects, SameRun
  <2> QED
    BY <2>5, <2>6, <2>7 DEF Effect
<1>10. ASSUME RunGrant(r) PROVE Goal
  <2>0. PICK n \in Deepest(run[r].todo) :
          /\ Seen(r, n) \in {"Staged", "Installing"}
          /\ run' = [run EXCEPT ![r].pc = "wait", ![r].cur = n, ![r].todo = @ \ {n}]
          /\ active' = IF active = NULL THEN NULL ELSE [active EXCEPT !.install = n]
    BY <1>10 DEF RunGrant
  <2>1. RunSpares /\ SameDB /\ UNCHANGED <<restartDue, used>>
    BY <1>10, <1>g DEF RunGrant, RunAndActive, RunSpares, SameDB
  <2>2. /\ run[r].pc = "install" /\ run'[r].pc = "wait" /\ run'[r].job = run[r].job
        /\ run'[r].snap = run[r].snap /\ run'[r].todo = run[r].todo \ {n} /\ n \in run[r].todo
        /\ run'[r].cur = n /\ \A m \in run[r].todo : Depth[m] <= Depth[n]
    BY <1>10, <1>a, <1>d, <2>0 DEF RunGrant, Run
  <2>3. /\ active # NULL => /\ active' # NULL /\ active'.job = active.job
                            /\ active'.phase = active.phase /\ active'.install = n
                            /\ active'.status = active.status
        /\ active = NULL => active' = NULL
    BY <1>a, <1>c, <2>0, <2>2, NullAssumption DEF ActiveJob
  <2>4. KnowsItself(r)'
    BY <1>c, <2>2 DEF KnowsItself
  <2> QED
    BY <2>0, <2>1, <2>2, <2>3, <2>4 DEF Effect, Grants, SameRun
<1>11. ASSUME RunFinished(r) PROVE Goal
  <2>1. RunSpares /\ SameDB /\ UNCHANGED <<active, restartDue, used>>
    BY <1>11, <1>g DEF RunFinished, RunOnly, RunSpares, SameDB
  <2>2. /\ run[r].pc = "wait" /\ run'[r].pc = "ungrant" /\ run'[r].job = run[r].job
        /\ run'[r].snap = run[r].snap /\ run'[r].todo = run[r].todo /\ run'[r].cur = run[r].cur
    BY <1>11, <1>a DEF RunFinished, Run
  <2>4. KnowsItself(r)'
    BY <1>c, <2>2 DEF KnowsItself
  <2> QED
    BY <1>11, <2>1, <2>2, <2>4 DEF Effect, Hears, SameRun, RunFinished
<1>12. ASSUME InstallDeadline(r) PROVE Goal
  <2> DEFINE n == run[r].cur
  <2>2. /\ run[r].pc = "wait" /\ n \in Agents /\ n \in Node
        /\ UNCHANGED <<alive, jobStatus, active, rollback, resuming, restartDue, agentVars, diskVars>>
    BY <1>12, <1>c DEF InstallDeadline, KnowsItself
  <2>3. /\ run'[r].pc = "set" /\ run'[r].next = "ungrant" /\ run'[r].job = run[r].job
        /\ run'[r].todo = run[r].todo \ {n} /\ run'[r].snap = run[r].snap
        /\ run'[r].cur = n /\ run'[r].val = "InstallFailed"
        /\ Stored(run[r].job, n, "InstallFailed")
    BY <1>12, <1>i, <1>s, <2>2 DEF InstallDeadline
  <2>4. GivesUpMore /\ Overruled(n, "install")
    BY <1>12, <1>h, <2>2 DEF InstallDeadline
  <2>5. KnowsItself(r)'
    BY <1>c, <2>2, <2>3, <2>4 DEF KnowsItself, Overruled
  <2>6. RunSpares
    BY <1>12, <1>a, <2>2, <2>4, SpendsSome DEF RunSpares, InstallDeadline
  <2>7. StopsWaiting(r)
    BY <2>2, <2>3, <2>4 DEF StopsWaiting, SameRun
  <2> QED
    BY <2>5, <2>6, <2>7 DEF Effect
<1>13. ASSUME RunUngrant(r) PROVE Goal
  <2>1. RunSpares /\ SameDB /\ UNCHANGED <<restartDue, used>>
    BY <1>13, <1>g DEF RunUngrant, RunAndActive, RunSpares, SameDB
  <2>2. /\ run[r].pc = "ungrant" /\ run'[r].pc = "install" /\ run'[r].job = run[r].job
        /\ run'[r].snap = run[r].snap /\ run'[r].todo = run[r].todo
    BY <1>13, <1>a DEF RunUngrant, Run
  <2>3. /\ active # NULL => /\ active' # NULL /\ active'.job = active.job
                            /\ active'.phase = active.phase /\ active'.install = NULL
                            /\ active'.status = active.status
        /\ active = NULL => active' = NULL
    BY <1>13, <1>a, NullAssumption DEF ActiveJob, RunUngrant
  <2>4. KnowsItself(r)'
    BY <1>c, <2>2 DEF KnowsItself
  <2> QED
    BY <2>1, <2>2, <2>3, <2>4 DEF Effect, Ungrants, SameRun
<1>14. ASSUME RunAllGranted(r) PROVE Goal
  <2>1. RunSpares /\ SameDB /\ UNCHANGED <<active, restartDue, used>>
    BY <1>14, <1>g DEF RunAllGranted, RunOnly, RunSpares, SameDB
  <2>2. /\ run[r].pc = "install" /\ run[r].todo = {} /\ run'[r].pc = "ctl"
        /\ run'[r].job = run[r].job /\ run'[r].todo = run[r].todo
    BY <1>14, <1>a DEF RunAllGranted, Run
  <2>4. KnowsItself(r)'
    BY <1>c, <2>2 DEF KnowsItself
  <2> QED
    BY <2>1, <2>2, <2>4 DEF Effect, EndsLoop, SameRun
<1>j. ASSUME NEW st, StoreStatus(run[r].job, Controller, st), run[r].pc # "free"
      PROVE  \A j \in Jobs, n \in Agents : target'[j][n] = target[j][n]
  <2>1. Stored(run[r].job, Controller, st)
    BY <1>a, <1>b, <1>f, <1>j, StoreEffect
  <2> QED
    BY <1>c, <1>f, <2>1 DEF Stored
<1>k. ASSUME NEW st \in TargetStatus, NEW next \in {"ctlInstall", "finish"},
             SetThen(r, Controller, st, next), run[r].pc # "free"
      PROVE  /\ run'[r].pc = "set" /\ run'[r].next = next /\ run'[r].job = run[r].job
             /\ run'[r].todo \subseteq Agents /\ run'[r].cur = Controller
             /\ \A j \in Jobs, n \in Agents : target'[j][n] = target[j][n]
  BY <1>a, <1>c, <1>j, <1>k DEF SetThen, Run
<1>15. ASSUME RunController(r) PROVE Goal
  <2>1. /\ RunSpares /\ UNCHANGED <<jobStatus, gaveUp, bin, active, restartDue>>
        /\ run[r].pc = "ctl"
    BY <1>15, <1>g DEF RunController, RunAndDB, RunSpares
  <2>2. /\ run'[r].pc = "finish" \/ (run'[r].pc = "set" /\ run'[r].next = "ctlInstall"
                                       /\ run'[r].cur = Controller)
        /\ run'[r].job = run[r].job /\ run'[r].todo \subseteq Agents
        /\ \A j \in Jobs, n \in Agents : target'[j][n] = target[j][n]
    <3>1. CASE run' = [run EXCEPT ![r].pc = "finish", ![r].restart = TRUE] /\ UNCHANGED target
      BY <1>a, <1>c, <3>1 DEF Run
    <3>2. CASE SetThen(r, Controller, "Installing", "ctlInstall")
      BY <1>k, <1>s, <2>1, <3>2
    <3> QED
      BY <1>15, <3>1, <3>2 DEF RunController
  <2>4. KnowsItself(r)'
    BY <2>2 DEF KnowsItself
  <2> QED
    BY <2>1, <2>2, <2>4 DEF Effect, DoesController, After, SameRun
<1>16. ASSUME RunInstallController(r) PROVE Goal
  <2>1. /\ UNCHANGED <<alive, jobStatus, active, rollback, resuming, restartDue, agentVars,
                       staged, release, current, gaveUp>>
        /\ run[r].pc = "ctlInstall"
    BY <1>16 DEF RunInstallController
  <2>2. CASE /\ bin' = [bin EXCEPT ![Controller] = [job |-> run[r].job, whole |-> TRUE]]
             /\ StoreStatus(run[r].job, Controller, "Completed")
             /\ run' = [run EXCEPT ![r] = [run[r] EXCEPT !.pc = "set", !.cur = Controller,
                          !.val = "Completed", !.next = "finish", !.restart = TRUE]]
             /\ UNCHANGED used
    <3>1. /\ run'[r].pc = "set" /\ run'[r].next = "finish" /\ run'[r].cur = Controller
          /\ run'[r].job = run[r].job /\ run'[r].todo \subseteq Agents
      BY <1>a, <1>c, <2>2 DEF Run
    <3>2. /\ \A j \in Jobs, n \in Agents : target'[j][n] = target[j][n]
          /\ \A n \in Agents : bin'[n] = bin[n]
      BY <1>a, <1>c, <1>f, <1>j, <2>1, <2>2
    <3>3. KnowsItself(r)'
      BY <3>1 DEF KnowsItself
    <3>4. RunSpares
      BY <1>g, <2>1, <2>2 DEF RunSpares
    <3> QED
      BY <2>1, <3>1, <3>2, <3>3, <3>4 DEF Effect, DoesController, After, SameRun
  <2>3. CASE /\ bin' \in {bin, [bin EXCEPT ![Controller] = [job |-> run[r].job, whole |-> FALSE]]}
             /\ SetThen(r, Controller, "InstallFailed", "finish")
             /\ Spend("failures", MaxFailures)
    <3>1. /\ run'[r].pc = "set" /\ run'[r].next = "finish" /\ run'[r].cur = Controller
          /\ run'[r].job = run[r].job /\ run'[r].todo \subseteq Agents
          /\ \A j \in Jobs, n \in Agents : target'[j][n] = target[j][n]
      BY <1>k, <1>s, <2>1, <2>3
    <3>2. \A n \in Agents : bin'[n] = bin[n]
      BY <1>a, <1>c, <1>f, <2>3
    <3>3. KnowsItself(r)'
      BY <3>1 DEF KnowsItself
    <3>5. Spends
      BY <1>a, <2>3, SpendsSome
    <3>4. RunSpares
      BY <2>1, <3>5 DEF RunSpares, GivesUpMore
    <3> QED
      BY <2>1, <3>1, <3>2, <3>3, <3>4 DEF Effect, DoesController, After, SameRun
  <2> QED
    BY <1>16, <2>2, <2>3 DEF RunInstallController
<1>17. ASSUME RunFinish(r) PROVE Goal
  <2>1. /\ RunSpares /\ UNCHANGED <<target, gaveUp, bin, active, restartDue, used>>
        /\ jobStatus' = [jobStatus EXCEPT ![run[r].job] = "Completed"]
    BY <1>17, <1>g DEF RunFinish, RunSpares
  <2>2. /\ run[r].pc = "finish" /\ run'[r].pc = "clear"
        /\ run'[r].job = run[r].job /\ run'[r].todo = run[r].todo
    BY <1>17, <1>a DEF RunFinish, Run
  <2>4. KnowsItself(r)'
    BY <1>c, <2>2 DEF KnowsItself
  <2> QED
    BY <2>1, <2>2, <2>4 DEF Effect, Finishes, SameRun
<1>18. ASSUME RunClear(r) PROVE Goal
  <2>1. RunSpares /\ SameDB /\ active' = NULL /\ UNCHANGED used
    BY <1>18, <1>g DEF RunClear, RunSpares, SameDB
  <2>2. /\ run[r].pc = "clear" /\ run'[r] = FreeRun
    BY <1>18, <1>a DEF RunClear
  <2>4. KnowsItself(r)'
    BY <2>2 DEF KnowsItself, FreeRun
  <2> QED
    BY <2>1, <2>2, <2>4, FreeRunType DEF Effect, Clears
<1> QED
  BY <1>1, <1>2, <1>3, <1>4, <1>5, <1>6, <1>7, <1>8, <1>9, <1>10, <1>11, <1>12, <1>13,
     <1>14, <1>15, <1>16, <1>17, <1>18 DEF Orchestrator, Deadline

LEMMA SelfInit == Init => SelfInv
<1> SUFFICES ASSUME Init, NEW r \in Slots PROVE KnowsItself(r)
  BY DEF SelfInv
<1>1. run[r] = FreeRun
  BY DEF Init
<1> QED
  BY <1>1 DEF KnowsItself, FreeRun

LEMMA SelfFrame ==
  ASSUME SelfInv, GivesUpMore, \A r \in Slots : run'[r] = run[r] \/ KnowsItself(r)'
  PROVE  SelfInv'
<1> SUFFICES ASSUME NEW r \in Slots, run'[r] = run[r] PROVE KnowsItself(r)'
  BY DEF SelfInv
<1>1. KnowsItself(r) /\ Controller \in Node /\ Agents \subseteq Node
  BY NodeAssumption DEF SelfInv, Agents
<1> QED
  BY <1>1 DEF KnowsItself, GivesUpMore

LEMMA SelfSpawn ==
  ASSUME TypeInv, SelfInv, NEW r \in Slots, NEW j \in Jobs, Spawn(r, j), UNCHANGED gaveUp
  PROVE  SelfInv'
<1>1. GivesUpMore
  BY DEF GivesUpMore
<1>2. \A q \in Slots : q # r => run'[q] = run[q]
  BY SpawnType DEF TypeInv, TypeOK
<1>3. run'[r] = [FreeRun EXCEPT !.pc = "stageCtl", !.job = j, !.snap = target[j]]
  BY DEF Spawn, TypeInv, TypeOK
<1>4. KnowsItself(r)'
  BY <1>3 DEF KnowsItself, FreeRun
<1> QED
  BY <1>1, <1>2, <1>4, SelfFrame

LEMMA SelfNext == TypeInv /\ SelfInv /\ [Next]_vars => SelfInv'
<1> SUFFICES ASSUME TypeInv, SelfInv, [Next]_vars PROVE SelfInv'
  OBVIOUS
<1> USE DEF dbVars, ctlVars, agentVars, diskVars
<1>1. ASSUME UNCHANGED <<run, gaveUp>> PROVE SelfInv'
  BY <1>1, SelfFrame DEF GivesUpMore
<1>2. CASE Operator
  <2>1. ASSUME NEW j \in Jobs, StartUpdate(j) PROVE SelfInv'
    BY <2>1, SelfSpawn DEF StartUpdate, Free
  <2>2. ASSUME NEW j \in Jobs, CreateUpdate(j) \/ RollbackUpdate(j) PROVE SelfInv'
    BY <1>1, <2>2 DEF CreateUpdate, RollbackUpdate
  <2>3. ASSUME NEW n \in Node, DeleteNode(n) PROVE SelfInv'
    BY <1>1, <2>3 DEF DeleteNode
  <2>4. ASSUME RollbackTarget \/ RollbackDone PROVE SelfInv'
    BY <1>1, <2>4 DEF RollbackTarget, RollbackDone
  <2> QED
    BY <1>2, <2>1, <2>2, <2>3, <2>4 DEF Operator
<1>3. CASE ControllerRestart
  <2>1. \A r \in Slots : KnowsItself(r)'
    BY <1>3 DEF ControllerRestart, KnowsItself, FreeRun
  <2> QED
    BY <2>1 DEF SelfInv
<1>4. CASE Resume
  BY <1>1, <1>4, SelfSpawn DEF Resume, Running, Free
<1>5. ASSUME NEW r \in Slots, Orchestrator(r) \/ Deadline(r) PROVE SelfInv'
  <2>1. KnowsItself(r)' /\ GivesUpMore
    BY <1>5, RunEffect DEF RunSpares
  <2>2. \A q \in Slots : q # r => run'[q] = run[q]
    BY <1>5, OrchestratorType DEF RunStep
  <2> QED
    BY <2>1, <2>2, SelfFrame
<1>6. ASSUME NEW n \in Node, AgentStep(n) PROVE SelfInv'
  BY <1>1, <1>6 DEF AgentStep, PollPrefetch, PollInstall, PrefetchCopy, PrefetchDone, PrefetchFails,
     InstallCopy, InstallDone, InstallFails, AgentRestart, AgentOnly
<1>7. ASSUME NEW n \in Node, Delivery(n) PROVE SelfInv'
  BY <1>1, <1>7 DEF Delivery, ReportStore, ReportApply, ReportLost
<1>8. CASE UNCHANGED vars
  BY <1>1, <1>8 DEF vars
<1> QED
  BY <1>2, <1>3, <1>4, <1>5, <1>6, <1>7, <1>8 DEF Next

-----------------------------------------------------------------------------
(* The effects of the steps of an agent and of its report.                 *)

SameDisk(n) ==
  /\ staged'[n] = staged[n] /\ release'[n] = release[n]
  /\ bin'[n] = bin[n] /\ current'[n] = current[n]

SameNode(n) ==
  agent'[n] = agent[n] /\ wire'[n] = wire[n] /\ agentDue'[n] = agentDue[n] /\ SameDisk(n)

Becomes(n, j, pc) == agent'[n] = [pc |-> pc, job |-> j]

Posts(n, j, st) == wire'[n] = [job |-> j, status |-> st, stored |-> FALSE]

\* The copy of release j among those kept by node n.
Holds(n, disk, j, c) == \A i \in Jobs : disk'[n][i] = IF i = j THEN c ELSE disk[n][i]

AsksPrefetch(n) ==
  /\ agent[n].pc = "idle" /\ wire[n] = NULL /\ active # NULL /\ active.phase = "prefetch"
  /\ Becomes(n, active.job, "prefetch") /\ Posts(n, active.job, "Prefetching")
  /\ SameDisk(n) /\ agentDue'[n] = agentDue[n] /\ UNCHANGED used

AsksInstall(n) ==
  /\ n \in Agents /\ agent[n].pc = "idle" /\ wire[n] = NULL
  /\ active # NULL /\ active.phase = "install"
  /\ active.install = n /\ active.status[n] \in {"Staged", "Installing"}
  /\ Becomes(n, active.job, "install") /\ Posts(n, active.job, "Installing")
  /\ SameDisk(n) /\ agentDue'[n] = agentDue[n] /\ UNCHANGED used

StartsCopy(n) ==
  /\ agent[n].pc = "prefetch" /\ wire[n] = NULL /\ wire'[n] = NULL
  /\ Becomes(n, agent[n].job, "copy") /\ Holds(n, staged, agent[n].job, "partial")
  /\ release'[n] = release[n] /\ bin'[n] = bin[n] /\ current'[n] = current[n]
  /\ agentDue'[n] = agentDue[n] /\ UNCHANGED used

EndsCopy(n) ==
  /\ agent[n].pc = "copy" /\ Becomes(n, NULL, "idle") /\ Posts(n, agent[n].job, "Staged")
  /\ Holds(n, staged, agent[n].job, "full")
  /\ release'[n] = release[n] /\ bin'[n] = bin[n] /\ current'[n] = current[n]
  /\ agentDue'[n] = agentDue[n] /\ UNCHANGED used

BreaksCopy(n) ==
  /\ agent[n].pc = "copy" \/ (agent[n].pc = "prefetch" /\ wire[n] = NULL)
  /\ Becomes(n, NULL, "idle") /\ Posts(n, agent[n].job, "DownloadFailed")
  /\ Holds(n, staged, agent[n].job, IF staged[n][agent[n].job] = "none" THEN "partial"
                                    ELSE staged[n][agent[n].job])
  /\ release'[n] = release[n] /\ bin'[n] = bin[n] /\ current'[n] = current[n]
  /\ agentDue'[n] = agentDue[n] /\ used'["failures"] > 0

FindsNothing(n) ==
  /\ agent[n].pc = "install" /\ wire[n] = NULL /\ staged[n][agent[n].job] = "none"
  /\ Becomes(n, NULL, "idle") /\ Posts(n, agent[n].job, "InstallFailed")
  /\ SameDisk(n) /\ agentDue'[n] = agentDue[n] /\ UNCHANGED used

StartsInstall(n) ==
  /\ agent[n].pc = "install" /\ wire[n] = NULL /\ wire'[n] = NULL
  /\ staged[n][agent[n].job] # "none"
  /\ Becomes(n, agent[n].job, "stage") /\ Holds(n, release, agent[n].job, "partial")
  /\ staged'[n] = staged[n] /\ current'[n] = current[n]
  /\ agentDue'[n] = agentDue[n] /\ UNCHANGED used

EndsInstall(n) ==
  /\ agent[n].pc = "stage" /\ Becomes(n, NULL, "idle") /\ Posts(n, agent[n].job, "Completed")
  /\ Holds(n, release, agent[n].job, staged[n][agent[n].job])
  /\ BusyFiles \/ bin'[n] = [job |-> agent[n].job, whole |-> staged[n][agent[n].job] = "full"]
  /\ current'[n] = agent[n].job /\ staged'[n] = staged[n] /\ agentDue'[n] = TRUE /\ UNCHANGED used

BreaksInstall(n) ==
  /\ agent[n].pc = "stage" /\ Becomes(n, NULL, "idle") /\ Posts(n, agent[n].job, "InstallFailed")
  /\ SameDisk(n) /\ agentDue'[n] = agentDue[n] /\ used'["failures"] > 0

Dies(n) ==
  /\ agent'[n] = IdleAgent /\ wire'[n] = wire[n] /\ SameDisk(n) /\ agentDue'[n] = FALSE
  /\ (agentDue[n] /\ wire[n] = NULL) \/ used'["agents"] > 0

AgentEffect(n) ==
  /\ UNCHANGED <<dbVars, ctlVars, gaveUp>> /\ \A m \in Node : m # n => SameNode(m)
  /\ \/ AsksPrefetch(n) \/ AsksInstall(n) \/ StartsCopy(n) \/ EndsCopy(n) \/ BreaksCopy(n)
     \/ FindsNothing(n) \/ StartsInstall(n) \/ EndsInstall(n) \/ BreaksInstall(n) \/ Dies(n)
  /\ \A k \in {"starts", "rollbacks", "deletes", "ctl"} : used'[k] = used[k]
  /\ used["failures"] <= used'["failures"]

LEMMA AgentEffects ==
  ASSUME TypeInv, NEW n \in Node, AgentStep(n)
  PROVE  AgentEffect(n)
<1> USE DEF dbVars, ctlVars, diskVars, AgentOnly, Goto, Post, Ready, Becomes, Posts
<1>a. /\ agent \in [Node -> AgentStates]
      /\ wire \in [Node -> Report \cup {NULL}]
      /\ staged \in [Node -> [Jobs -> Copy]] /\ release \in [Node -> [Jobs -> Copy]]
      /\ bin \in [Node -> Image \cup {NULL}]
      /\ current \in [Node -> Jobs \cup {NULL}]
      /\ agentDue \in [Node -> BOOLEAN]
      /\ used \in [Counters -> Nat]
  BY DEF TypeInv, TypeOK, AgentStates
<1>b. agent[n].pc # "idle" => agent[n].job \in Jobs
  BY DEF TypeInv, JobsNamed
<1>c. UNCHANGED used =>
        /\ \A k \in {"starts", "rollbacks", "deletes", "ctl"} : used'[k] = used[k]
        /\ used["failures"] <= used'["failures"]
  BY <1>a DEF Counters
<1>d. ASSUME NEW limit, NEW k \in {"failures", "agents"}, Spend(k, limit)
      PROVE  /\ \A i \in {"starts", "rollbacks", "deletes", "ctl"} : used'[i] = used[i]
             /\ used["failures"] <= used'["failures"]
             /\ k = "failures" => used'["failures"] > 0
             /\ k = "agents" => used'["agents"] > 0
  <2>1. \A i \in Counters : used'[i] = IF i = k THEN used[i] + 1 ELSE used[i]
    BY <1>a, <1>d, SpendEffect DEF Counters
  <2> QED
    BY <1>a, <2>1 DEF Counters
<1>1. CASE PollPrefetch(n)
  <2>1. AsksPrefetch(n) /\ \A m \in Node : m # n => SameNode(m)
    BY <1>1, <1>a DEF PollPrefetch, AsksPrefetch, SameNode, SameDisk
  <2> QED
    BY <1>1, <1>c, <2>1 DEF PollPrefetch, AgentEffect, AsksPrefetch
<1>2. CASE PollInstall(n)
  <2>1. AsksInstall(n) /\ \A m \in Node : m # n => SameNode(m)
    BY <1>2, <1>a DEF PollInstall, AsksInstall, SameNode, SameDisk, Agents
  <2> QED
    BY <1>2, <1>c, <2>1 DEF PollInstall, AgentEffect, AsksInstall
<1>3. CASE PrefetchCopy(n)
  <2>1. StartsCopy(n) /\ \A m \in Node : m # n => SameNode(m)
    BY <1>3, <1>a, <1>b DEF PrefetchCopy, StartsCopy, SameNode, SameDisk, Holds
  <2> QED
    BY <1>3, <1>c, <2>1 DEF PrefetchCopy, AgentEffect, StartsCopy
<1>4. CASE PrefetchDone(n)
  <2>1. EndsCopy(n) /\ \A m \in Node : m # n => SameNode(m)
    BY <1>4, <1>a, <1>b DEF PrefetchDone, EndsCopy, SameNode, SameDisk, Holds
  <2> QED
    BY <1>4, <1>c, <2>1 DEF PrefetchDone, AgentEffect, EndsCopy
<1>5. CASE PrefetchFails(n)
  <2>0. used'["failures"] > 0
    BY <1>5, <1>d DEF PrefetchFails
  <2>1. BreaksCopy(n) /\ \A m \in Node : m # n => SameNode(m)
    BY <1>5, <1>a, <1>b, <2>0 DEF PrefetchFails, BreaksCopy, SameNode, SameDisk, Holds
  <2> QED
    BY <1>5, <1>d, <2>1 DEF PrefetchFails, AgentEffect
<1>6. CASE InstallCopy(n)
  <2>1. CASE staged[n][agent[n].job] = "none"
    <3>1. FindsNothing(n) /\ \A m \in Node : m # n => SameNode(m)
      BY <1>6, <1>a, <1>b, <2>1 DEF InstallCopy, FindsNothing, SameNode, SameDisk
    <3> QED
      BY <1>6, <1>c, <3>1 DEF InstallCopy, AgentEffect, FindsNothing
  <2>2. CASE staged[n][agent[n].job] # "none"
    <3>1. StartsInstall(n) /\ \A m \in Node : m # n => SameNode(m)
      BY <1>6, <1>a, <1>b, <2>2 DEF InstallCopy, StartsInstall, SameNode, SameDisk, Holds, CopyToBin
    <3> QED
      BY <1>6, <1>c, <3>1 DEF InstallCopy, AgentEffect, StartsInstall
  <2> QED
    BY <2>1, <2>2
<1>7. CASE InstallDone(n)
  <2>1. EndsInstall(n) /\ \A m \in Node : m # n => SameNode(m)
    BY <1>7, <1>a, <1>b DEF InstallDone, EndsInstall, SameNode, SameDisk, Holds, CopyToBin
  <2> QED
    BY <1>7, <1>c, <2>1 DEF InstallDone, AgentEffect, EndsInstall
<1>8. CASE InstallFails(n)
  <2>0. used'["failures"] > 0
    BY <1>8, <1>d DEF InstallFails
  <2>1. BreaksInstall(n) /\ \A m \in Node : m # n => SameNode(m)
    BY <1>8, <1>a, <1>b, <2>0 DEF InstallFails, BreaksInstall, SameNode, SameDisk
  <2> QED
    BY <1>8, <1>d, <2>1 DEF InstallFails, AgentEffect
<1>9. CASE AgentRestart(n)
  <2>0. (agentDue[n] /\ wire[n] = NULL) \/ used'["agents"] > 0
    BY <1>9, <1>d DEF AgentRestart
  <2>1. Dies(n) /\ \A m \in Node : m # n => SameNode(m)
    BY <1>9, <1>a, <2>0 DEF AgentRestart, Dies, SameNode, SameDisk
  <2> QED
    BY <1>9, <1>c, <1>d, <2>1 DEF AgentRestart, AgentEffect
<1> QED
  BY <1>1, <1>2, <1>3, <1>4, <1>5, <1>6, <1>7, <1>8, <1>9 DEF AgentStep

Stores(n) ==
  /\ wire[n] # NULL /\ ~wire[n].stored
  /\ Stored(wire[n].job, n, wire[n].status) /\ UNCHANGED active
  /\ wire'[n] # NULL /\ wire'[n].stored
  /\ wire'[n].job = wire[n].job /\ wire'[n].status = wire[n].status

Applies(n) ==
  /\ wire[n] # NULL /\ wire[n].stored /\ wire'[n] = NULL /\ UNCHANGED target
  /\ IF active # NULL /\ active.job = wire[n].job
     THEN Mapped(n, wire[n].status) ELSE UNCHANGED active

Loses(n) ==
  /\ LossyReports /\ wire[n] # NULL /\ ~wire[n].stored /\ wire'[n] = NULL
  /\ UNCHANGED <<target, active>>

DeliveryEffect(n) ==
  /\ Stores(n) \/ Applies(n) \/ Loses(n)
  /\ \A m \in Node : m # n => wire'[m] = wire[m]
  /\ UNCHANGED <<alive, jobStatus, run, rollback, resuming, restartDue, agent, agentDue,
                 diskVars, used, gaveUp>>

LEMMA DeliveryEffects ==
  ASSUME TypeInv, NEW n \in Node, Delivery(n)
  PROVE  DeliveryEffect(n)
<1> USE DEF dbVars, ctlVars, diskVars
<1>a. /\ target \in [Jobs -> [Node -> TargetStatus \cup {NoRow}]]
      /\ wire \in [Node -> Report \cup {NULL}]
      /\ active \in ActiveJob \cup {NULL}
  BY DEF TypeInv, TypeOK
<1>b. wire[n] # NULL => wire[n] \in Report
  BY <1>a
<1>1. CASE ReportStore(n)
  <2>1. Stored(wire[n].job, n, wire[n].status)
    BY <1>1, <1>a, <1>b, StoreEffect DEF ReportStore, Report
  <2>2. /\ wire'[n] \in Report /\ wire'[n].stored
        /\ wire'[n].job = wire[n].job /\ wire'[n].status = wire[n].status
    BY <1>1, <1>a, <1>b DEF ReportStore, Report
  <2>3. \A m \in Node : m # n => wire'[m] = wire[m]
    BY <1>1, <1>a DEF ReportStore
  <2> QED
    BY <1>1, <2>1, <2>2, <2>3, NullAssumption DEF ReportStore, DeliveryEffect, Stores
<1>2. CASE ReportApply(n)
  <2>1. ASSUME active # NULL /\ active.job = wire[n].job PROVE Mapped(n, wire[n].status)
    <3>1. wire[n].status \in TargetStatus
      BY <1>2, <1>b DEF ReportApply, Report, Reported, TargetStatus
    <3>2. active' = [active EXCEPT !.status[n] = wire[n].status]
      BY <1>2, <2>1 DEF ReportApply
    <3> QED
      BY <1>a, <2>1, <3>1, <3>2, MapEffect
  <2>2. wire'[n] = NULL /\ \A m \in Node : m # n => wire'[m] = wire[m]
    BY <1>2, <1>a DEF ReportApply
  <2> QED
    BY <1>2, <2>1, <2>2 DEF ReportApply, DeliveryEffect, Applies
<1>3. CASE ReportLost(n)
  <2>2. wire'[n] = NULL /\ \A m \in Node : m # n => wire'[m] = wire[m]
    BY <1>3, <1>a DEF ReportLost
  <2> QED
    BY <1>3, <2>2 DEF ReportLost, DeliveryEffect, Loses
<1> QED
  BY <1>1, <1>2, <1>3 DEF Delivery

-----------------------------------------------------------------------------
(* One installation at a time.  While the controller does not crash, a     *)
(* node that installs, or whose report about an installation is on its     *)
(* way, holds the grant of a goroutine that still waits for it, unless a   *)
(* goroutine gave it up; and a node that holds the grant and is recorded   *)
(* as finished has nothing left to say.                                    *)

WireFits(n) ==
  wire[n] # NULL =>
    /\ agent[n].pc = "install" => wire[n].status = "Installing"
    /\ agent[n].pc = "prefetch" => wire[n].status = "Prefetching"
    /\ agent[n].pc \notin {"copy", "stage"}

Engaged(n) ==
  \/ Installing(n)
  \/ wire[n] # NULL /\ wire[n].status \in {"Installing", "Completed", "InstallFailed"}

Authorized(n) ==
  Engaged(n) /\ "install" \notin gaveUp[n] =>
    /\ active # NULL /\ active.install = n /\ active.status[n] \notin InstallFinished
    /\ \E r \in Slots : run[r].pc = "wait"

Over(n) ==
  /\ active # NULL /\ active.install = n /\ active.status[n] \in InstallFinished
  /\ "install" \notin gaveUp[n]
  => agent[n].pc = "idle" /\ wire[n] = NULL

NodeSerial(n) == WireFits(n) /\ Authorized(n) /\ Over(n)

HolderFits(r) ==
  Holder(r) /\ active # NULL /\ active.install # NULL =>
    /\ run[r].pc = "set" => "install" \in gaveUp[active.install]
    /\ run[r].pc = "ungrant" => \/ "install" \in gaveUp[active.install]
                                \/ active.status[active.install] \in InstallFinished

RunSerial ==
  /\ restartDue => ~resuming /\ \A r \in Slots : run[r].pc = "free"
  /\ active # NULL => \E r \in Slots : run[r].pc # "free" /\ ~Before(r)
  /\ active # NULL /\ active.install # NULL => \E r \in Slots : Holder(r)
  /\ \A r \in Slots : HolderFits(r)

SerialInv == RunSerial /\ \A n \in Node : NodeSerial(n)

LEMMA SerialInit == Init => SerialInv
<1> SUFFICES ASSUME Init PROVE SerialInv
  OBVIOUS
<1>1. \A r \in Slots : run[r] = FreeRun
  BY DEF Init
<1>2. active = NULL /\ restartDue = FALSE
  BY DEF Init
<1>3. \A n \in Node : agent[n] = IdleAgent /\ wire[n] = NULL
  BY DEF Init
<1>4. RunSerial
  BY <1>1, <1>2, FreeRunType DEF RunSerial, HolderFits, Holder
<1>5. \A n \in Node : NodeSerial(n)
  BY <1>2, <1>3 DEF NodeSerial, WireFits, Authorized, Over, Engaged, Installing, IdleAgent
<1> QED
  BY <1>4, <1>5 DEF SerialInv

\* Where nobody drives a job nothing is active, and whoever installs was given up.
LEMMA NobodyDrives ==
  ASSUME SerialInv, \A r \in Slots : run[r].pc = "free"
  PROVE  /\ active = NULL
         /\ \A n \in Node : Engaged(n) => "install" \in gaveUp[n]
  BY DEF SerialInv, RunSerial, NodeSerial, Authorized

\* Whatever starts a goroutine when there is none, or none at all.
LEMMA SerialQuiet ==
  ASSUME SerialInv, \A r \in Slots : run[r].pc = "free",
         \A r \in Slots : run'[r].pc \in {"free", "stageCtl"},
         ~restartDue', UNCHANGED <<agent, gaveUp>>,
         \A n \in Node : wire'[n] \in {NULL, wire[n]}, active' = NULL
  PROVE  SerialInv'
<1>1. active = NULL /\ \A n \in Node : Engaged(n) => "install" \in gaveUp[n]
  BY NobodyDrives
<1>2. RunSerial'
  BY DEF RunSerial, HolderFits, Holder
<1>3. ASSUME NEW n \in Node PROVE NodeSerial(n)'
  <2>1. WireFits(n)
    BY DEF SerialInv, NodeSerial
  <2> QED
    BY <1>1, <2>1 DEF NodeSerial, WireFits, Authorized, Over, Engaged, Installing
<1> QED
  BY <1>2, <1>3 DEF SerialInv

LEMMA SerialKeep ==
  ASSUME SerialInv, UNCHANGED <<run, active, resuming, restartDue, agent, wire, gaveUp>>
  PROVE  SerialInv'
  BY DEF SerialInv, RunSerial, NodeSerial, WireFits, Authorized, Over, Engaged, Installing,
         HolderFits, Holder, Before

LEMMA SerialOperator ==
  ASSUME TypeInv, SerialInv, ~ConcurrentStarts, Operator PROVE SerialInv'
<1> USE DEF ctlVars, agentVars
<1>1. ASSUME NEW j \in Jobs, StartUpdate(j) PROVE SerialInv'
  <2>1. Quiet /\ UNCHANGED <<active, restartDue, agentVars, gaveUp>>
    BY <1>1 DEF StartUpdate
  <2>2. PICK r \in Slots : Spawn(r, j)
    BY <1>1 DEF StartUpdate, Free
  <2>3. /\ run'[r].pc = "stageCtl" /\ \A q \in Slots : q # r => run'[q] = run[q]
        /\ \A q \in Slots : run[q].pc = "free"
    BY <2>1, <2>2, SpawnType DEF TypeInv, TypeOK, Quiet, Free
  <2> QED
    BY <2>1, <2>3, NobodyDrives, SerialQuiet DEF Quiet
<1>2. ASSUME NEW j \in Jobs, CreateUpdate(j) \/ RollbackUpdate(j) PROVE SerialInv'
  BY <1>2, SerialKeep DEF CreateUpdate, RollbackUpdate
<1>3. ASSUME RollbackTarget \/ RollbackDone PROVE SerialInv'
  BY <1>3, SerialKeep DEF RollbackTarget, RollbackDone
<1>4. ASSUME NEW n \in Node, DeleteNode(n) PROVE SerialInv'
  BY <1>4, SerialKeep DEF DeleteNode
<1> QED
  BY <1>1, <1>2, <1>3, <1>4 DEF Operator

LEMMA SerialRestart ==
  ASSUME TypeInv, GrantInv, SerialInv, used'["ctl"] = 0, ControllerRestart \/ Resume
  PROVE  SerialInv'
<1>1. CASE ControllerRestart
  <2>1. restartDue
    <3>1. ASSUME ~restartDue PROVE FALSE
      <4>1. Spend("ctl", MaxControllerRestarts)
        BY <1>1, <3>1 DEF ControllerRestart
      <4>2. used'["ctl"] = used["ctl"] + 1 /\ used["ctl"] \in Nat
        BY <4>1, SpendEffect DEF TypeInv, TypeOK, Counters
      <4> QED
        BY <4>2
    <3> QED
      BY <3>1
  <2>2. \A r \in Slots : run[r].pc = "free" /\ run'[r].pc = "free"
    BY <1>1, <2>1, FreeRunType DEF ControllerRestart, SerialInv, RunSerial
  <2> QED
    BY <1>1, <2>2, SerialQuiet DEF ControllerRestart
<1>2. CASE Resume
  <2>1. /\ \A r \in Slots : run[r].pc = "free"
        /\ UNCHANGED <<active, restartDue, agent, wire, gaveUp>> /\ ~restartDue
    BY <1>2 DEF Resume, GrantInv, ResumeAlone, SerialInv, RunSerial, agentVars
  <2>2. \A r \in Slots : run'[r].pc \in {"free", "stageCtl"}
    <3>1. CASE UNCHANGED run
      BY <2>1, <3>1
    <3>2. CASE \E j \in Jobs, r \in Slots : Spawn(r, j)
      BY <2>1, <3>2, SpawnType DEF TypeInv, TypeOK
    <3> QED
      BY <1>2, <3>1, <3>2 DEF Resume, Running, Free
  <2> QED
    BY <2>1, <2>2, NobodyDrives, SerialQuiet
<1> QED
  BY <1>1, <1>2

LEMMA SerialOrchestrator ==
  ASSUME TypeInv, SelfInv, GrantInv, SerialInv, NEW r \in Slots, Orchestrator(r) \/ Deadline(r)
  PROVE  SerialInv'
<1>a. Effect(r) /\ RunSpares
  BY RunEffect
<1>b. /\ run[r].pc # "free"
      /\ \A q \in Slots : q # r => run'[q] = run[q] /\ run[q].pc = "free" /\ run'[q].pc = "free"
  BY OrchestratorType DEF RunStep, GrantInv, OneRun
<1>c. ~resuming /\ ~resuming' /\ ~restartDue
  BY <1>a, <1>b DEF RunSpares, SerialInv, RunSerial, GrantInv, ResumeAlone
<1>d. UNCHANGED <<agent, wire>> /\ \A n \in Node : "install" \in gaveUp[n] => "install" \in gaveUp'[n]
  BY <1>a DEF RunSpares, agentVars, GivesUpMore
<1>e. Follows(r) /\ HolderFits(r) /\ KnowsItself(r)
  BY DEF GrantInv, SerialInv, RunSerial, SelfInv
<1>f. \A q \in Slots : Holder(q) => q = r
  BY <1>b DEF Holder
<1>g. active # NULL => ~Before(r)
  BY <1>b DEF SerialInv, RunSerial
<1>h. active # NULL /\ active.install # NULL => Holder(r)
  BY <1>f DEF SerialInv, RunSerial
<1>i. \A n \in Node : Engaged(n)' <=> Engaged(n)
  BY <1>d DEF Engaged, Installing
<1>j. \A n \in Node : WireFits(n)'
  BY <1>d DEF SerialInv, NodeSerial, WireFits
<1>k. ASSUME run[r].pc # "wait" PROVE \A n \in Node : Engaged(n) => "install" \in gaveUp[n]
  BY <1>b, <1>k DEF SerialInv, NodeSerial, Authorized
<1>l. NULL \notin Node
  BY NodeAssumption
\* What is left: the goroutine is where it can own the map, and the grant.
<1>m. ASSUME /\ restartDue' => run'[r].pc = "free"
             /\ active' # NULL => run'[r].pc # "free" /\ ~Before(r)'
             /\ active' # NULL /\ active'.install # NULL => Holder(r)'
             /\ HolderFits(r)'
             /\ \A n \in Node : Authorized(n)' /\ Over(n)'
      PROVE  SerialInv'
  <2>1. \A q \in Slots : HolderFits(q)'
    BY <1>b, <1>m DEF HolderFits, Holder
  <2>2. RunSerial'
    BY <1>b, <1>c, <1>m, <2>1 DEF RunSerial
  <2> QED
    BY <1>j, <1>m, <2>2 DEF SerialInv, NodeSerial
\* A step at whose end no node holds the grant.
<1>n. ASSUME /\ restartDue' => run'[r].pc = "free"
             /\ active' # NULL => run'[r].pc # "free" /\ ~Before(r)' /\ active'.install = NULL
             /\ run[r].pc # "wait"
      PROVE  SerialInv'
  <2>1. HolderFits(r)'
    BY <1>n DEF HolderFits
  <2>2. \A n \in Node : Authorized(n)' /\ Over(n)'
    BY <1>d, <1>i, <1>k, <1>l, <1>n DEF Authorized, Over
  <2> QED
    BY <1>m, <1>n, <2>1, <2>2
\* A goroutine that holds no grant, before and after.
<1>o. ASSUME ~Holder(r), UNCHANGED restartDue, run'[r].pc # "free", ~Before(r)',
             \/ active' = active
             \/ active' # NULL /\ active'.install = IF active = NULL THEN NULL ELSE active.install
             \/ active' # NULL /\ active'.install = NULL
      PROVE  SerialInv'
  <2>1. run[r].pc # "wait"
    BY <1>o DEF Holder
  <2> QED
    BY <1>c, <1>h, <1>n, <1>o, <2>1
<1>1. CASE Stages(r)
  <2>1. active' = NULL /\ ~restartDue' /\ run[r].pc # "wait"
    BY <1>1, <1>c, <1>g DEF Stages, Before
  <2> QED
    BY <1>n, <2>1
<1>2. CASE Publishes(r)
  <2>1. run'[r].pc # "free" /\ ~Before(r)'
    BY <1>2 DEF Publishes, Prefetch, Before
  <2>2. /\ active' # NULL /\ active'.install = NULL /\ ~restartDue'
        /\ run[r].pc # "wait"
    BY <1>2, <1>c DEF Publishes, Before
  <2> QED
    BY <1>n, <2>1, <2>2
<1>3. CASE Moves(r) \/ TimesOut(r)
  <2>1. ~Holder(r) /\ run'[r].pc # "free" /\ ~Before(r)'
    BY <1>3 DEF Moves, TimesOut, Prefetch, Before, Holder
  <2> QED
    BY <1>3, <1>o, <2>1 DEF Moves, TimesOut
<1>4. CASE SetsMap(r)
  <2>1. /\ run[r].pc = "set" /\ run'[r].pc = run[r].next
        /\ run[r].next \in {"mark", "install", "ungrant", "ctlInstall", "finish"}
        /\ UNCHANGED restartDue /\ UNCHANGED gaveUp
    BY <1>4, <1>e DEF SetsMap, KnowsItself, SameDB
  <2>2. run'[r].pc # "free" /\ ~Before(r)'
    BY <2>1 DEF Before
  <2>3. \/ active' = active
        \/ active' # NULL /\ active # NULL /\ active'.install = active.install
    BY <1>4 DEF SetsMap, Mapped
  <2>4. CASE ~Holder(r)
    BY <1>o, <2>1, <2>2, <2>3, <2>4
  <2>5. CASE Holder(r)
    <3>1. Holder(r)' /\ run'[r].pc = "ungrant"
      BY <2>1, <2>5 DEF Holder
    <3>2. active' # NULL /\ active'.install # NULL => "install" \in gaveUp[active.install]
      BY <1>e, <2>1, <2>3, <2>5 DEF HolderFits
    <3>3. HolderFits(r)'
      BY <2>1, <2>3, <3>1, <3>2 DEF HolderFits
    <3>4. \A n \in Node : Authorized(n)' /\ Over(n)'
      BY <1>d, <1>i, <1>k, <1>l, <2>1, <2>3, <3>2 DEF Authorized, Over
    <3> QED
      BY <1>c, <1>m, <2>1, <2>2, <3>1, <3>3, <3>4
  <2> QED
    BY <2>4, <2>5
<1>5. CASE Switches(r)
  <2>1. ~Holder(r) /\ run'[r].pc # "free" /\ ~Before(r)'
    BY <1>5 DEF Switches, Prefetch, Before, Holder
  <2> QED
    BY <1>5, <1>o, <2>1 DEF Switches
<1>6. CASE Skips(r) \/ Rejects(r) \/ EndsLoop(r)
  <2>1. ~Holder(r) /\ run'[r].pc # "free" /\ ~Before(r)'
    BY <1>6 DEF Skips, Rejects, EndsLoop, Before, Holder
  <2> QED
    BY <1>6, <1>o, <2>1 DEF Skips, Rejects, EndsLoop
<1>7. CASE Grants(r)
  <2>1. PICK n \in run[r].todo :
          /\ run[r].pc = "install" /\ run'[r].pc = "wait" /\ UNCHANGED restartDue
          /\ Seen(r, n) \in {"Staged", "Installing"}
          /\ active # NULL => /\ active' # NULL /\ active'.install = n
                              /\ active'.status = active.status
          /\ active = NULL => active' = NULL
    BY <1>7 DEF Grants
  <2>2. Holder(r)' /\ run'[r].pc # "free" /\ ~Before(r)' /\ HolderFits(r)'
    BY <2>1 DEF Holder, Before, HolderFits
  <2>3. active # NULL => active.status[n] \notin InstallFinished
    BY <2>1 DEF Seen, MapStatus, Unset, InstallFinished
  <2>4. \A m \in Node : Engaged(m) => "install" \in gaveUp'[m]
    BY <1>d, <1>k, <2>1
  <2>5. ASSUME NEW m \in Node PROVE Authorized(m)' /\ Over(m)'
    BY <1>i, <2>1, <2>3, <2>4 DEF Authorized, Over
  <2> QED
    BY <1>c, <1>m, <2>1, <2>2, <2>5
<1>8. CASE Hears(r)
  <2>1. /\ run[r].pc = "wait" /\ run'[r].pc = "ungrant" /\ UNCHANGED <<active, restartDue, gaveUp>>
        /\ MapStatus(run[r].cur) \in InstallFinished
    BY <1>8 DEF Hears, SameDB
  <2>2. active # NULL /\ active.install = run[r].cur /\ active.status[active.install] \in InstallFinished
    BY <1>e, <2>1 DEF Follows, MapStatus
  <2>3. Holder(r)' /\ run'[r].pc # "free" /\ ~Before(r)' /\ HolderFits(r)'
    BY <2>1, <2>2 DEF Holder, Before, HolderFits
  <2>4. ASSUME NEW n \in Node PROVE Authorized(n)' /\ Over(n)'
    <3>1. Engaged(n) => "install" \in gaveUp[n]
      BY <2>2 DEF SerialInv, NodeSerial, Authorized
    <3> QED
      BY <1>d, <1>i, <2>1, <3>1 DEF Authorized, Over, SerialInv, NodeSerial
  <2> QED
    BY <1>c, <1>m, <2>1, <2>3, <2>4
<1>9. CASE StopsWaiting(r)
  <2>1. /\ run[r].pc = "wait" /\ run'[r].pc = "set" /\ run'[r].next = "ungrant"
        /\ UNCHANGED <<active, restartDue>> /\ Overruled(run[r].cur, "install")
    BY <1>9 DEF StopsWaiting
  <2>2. active # NULL /\ active.install = run[r].cur /\ active.install \in Node
    BY <1>e, <2>1 DEF Follows, KnowsItself, Agents
  <2>3. "install" \in gaveUp'[active.install]
    BY <2>1, <2>2 DEF Overruled
  <2>4. Holder(r)' /\ run'[r].pc # "free" /\ ~Before(r)' /\ HolderFits(r)'
    BY <2>1, <2>3 DEF Holder, Before, HolderFits
  <2>5. ASSUME NEW n \in Node PROVE Authorized(n)' /\ Over(n)'
    <3>1. Engaged(n) => "install" \in gaveUp'[n]
      BY <1>d, <2>2, <2>3 DEF SerialInv, NodeSerial, Authorized
    <3> QED
      BY <1>i, <2>1, <2>3, <3>1 DEF Authorized, Over
  <2> QED
    BY <1>c, <1>m, <2>1, <2>4, <2>5
<1>10. CASE Ungrants(r)
  <2>1. /\ run[r].pc = "ungrant" /\ run'[r].pc = "install" /\ UNCHANGED restartDue
        /\ active' # NULL => active'.install = NULL
    BY <1>10 DEF Ungrants
  <2> QED
    BY <1>c, <1>n, <2>1 DEF Before
<1>11. CASE DoesController(r) \/ Finishes(r)
  <2>1. ~Holder(r) /\ run'[r].pc # "free" /\ ~Before(r)' /\ UNCHANGED <<active, restartDue>>
    BY <1>11 DEF DoesController, Finishes, After, Before, Holder
  <2> QED
    BY <1>o, <2>1
<1>12. CASE Clears(r)
  <2>1. run[r].pc # "wait" /\ run'[r].pc = "free" /\ active' = NULL
    BY <1>12 DEF Clears
  <2> QED
    BY <1>n, <2>1
<1> QED
  BY <1>a, <1>1, <1>2, <1>3, <1>4, <1>5, <1>6, <1>7, <1>8, <1>9, <1>10, <1>11, <1>12 DEF Effect

LEMMA SerialFrame ==
  ASSUME SerialInv, NEW n \in Node, UNCHANGED <<run, resuming, restartDue, gaveUp>>,
         active' = NULL <=> active = NULL, active # NULL => active'.install = active.install,
         \A m \in Node : m # n => /\ agent'[m] = agent[m] /\ wire'[m] = wire[m]
                                  /\ active # NULL => active'.status[m] = active.status[m],
         \A r \in Slots : HolderFits(r)', NodeSerial(n)'
  PROVE  SerialInv'
<1>1. RunSerial'
  BY DEF SerialInv, RunSerial, Holder, Before
<1>2. ASSUME NEW m \in Node, m # n PROVE NodeSerial(m)'
  <2>1. NodeSerial(m)
    BY DEF SerialInv
  <2> QED
    BY <1>2, <2>1 DEF NodeSerial, WireFits, Authorized, Over, Engaged, Installing
<1> QED
  BY <1>1, <1>2 DEF SerialInv

LEMMA SerialAgent ==
  ASSUME TypeInv, GrantInv, SerialInv, NEW n \in Node, AgentStep(n)
  PROVE  SerialInv'
<1> USE DEF ctlVars
<1>a. AgentEffect(n)
  BY AgentEffects
<1>b. /\ UNCHANGED <<run, resuming, restartDue, gaveUp, active>>
      /\ \A m \in Node : m # n => agent'[m] = agent[m] /\ wire'[m] = wire[m]
  BY <1>a DEF AgentEffect, SameNode
<1>c. \A r \in Slots : HolderFits(r)'
  BY <1>b DEF SerialInv, RunSerial, HolderFits, Holder
<1>d. WireFits(n) /\ Authorized(n) /\ Over(n)
  BY DEF SerialInv, NodeSerial
<1>e. SUFFICES NodeSerial(n)'
  BY <1>b, <1>c, SerialFrame
<1>f. active # NULL /\ active.install # NULL =>
        \E r \in Slots : Holder(r) /\ HolderFits(r) /\ active.phase = "install"
  BY DEF SerialInv, RunSerial, GrantInv, Follows, Holder
<1>g. NULL \notin Node
  BY NodeAssumption
\* A busy agent only engages itself if it was engaged.
<1>h. ASSUME agent[n].pc # "idle" \/ wire[n] # NULL,
             Engaged(n)' => Engaged(n), WireFits(n)'
      PROVE  NodeSerial(n)'
  BY <1>b, <1>d, <1>h DEF NodeSerial, Authorized, Over
<1>1. CASE AsksPrefetch(n)
  <2>1. /\ agent'[n].pc = "prefetch" /\ wire'[n].status = "Prefetching" /\ active.phase = "prefetch"
    BY <1>1 DEF AsksPrefetch, Becomes, Posts
  <2>2. active.install # n
    BY <1>1, <1>f, <1>g, <2>1 DEF AsksPrefetch
  <2> QED
    BY <1>b, <2>1, <2>2 DEF NodeSerial, WireFits, Authorized, Over, Engaged, Installing
<1>2. CASE AsksInstall(n)
  <2>1. /\ agent'[n].pc = "install" /\ wire'[n].status = "Installing"
        /\ active # NULL /\ active.install = n /\ active.status[n] \in {"Staged", "Installing"}
    BY <1>2 DEF AsksInstall, Becomes, Posts
  <2>2. active.status[n] \notin InstallFinished
    BY <2>1 DEF InstallFinished
  <2>3. PICK r \in Slots : Holder(r) /\ HolderFits(r)
    BY <1>f, <1>g, <2>1
  <2>4. "install" \notin gaveUp[n] => run[r].pc = "wait"
    BY <1>g, <2>1, <2>2, <2>3 DEF Holder, HolderFits
  <2>5. Authorized(n)'
    BY <1>b, <2>1, <2>2, <2>4 DEF Authorized
  <2> QED
    BY <1>b, <2>1, <2>2, <2>5 DEF NodeSerial, WireFits, Over
<1>3. CASE StartsCopy(n)
  <2>1. agent[n].pc = "prefetch" /\ agent'[n].pc = "copy" /\ wire'[n] = NULL
    BY <1>3 DEF StartsCopy, Becomes
  <2> QED
    BY <1>h, <2>1 DEF WireFits, Engaged, Installing
<1>4. CASE EndsCopy(n) \/ BreaksCopy(n)
  <2>1. /\ agent[n].pc # "idle" /\ agent'[n].pc = "idle"
        /\ wire'[n].status \in {"Staged", "DownloadFailed"}
    BY <1>4 DEF EndsCopy, BreaksCopy, Becomes, Posts
  <2> QED
    BY <1>h, <2>1 DEF WireFits, Engaged, Installing
<1>5. CASE FindsNothing(n) \/ EndsInstall(n) \/ BreaksInstall(n)
  <2>1. agent[n].pc \in {"install", "stage"} /\ agent'[n].pc = "idle"
    BY <1>5 DEF FindsNothing, EndsInstall, BreaksInstall, Becomes
  <2> QED
    BY <1>h, <2>1 DEF WireFits, Engaged, Installing
<1>6. CASE StartsInstall(n)
  <2>1. agent[n].pc = "install" /\ agent'[n].pc = "stage" /\ wire'[n] = NULL
    BY <1>6 DEF StartsInstall, Becomes
  <2> QED
    BY <1>h, <2>1 DEF WireFits, Engaged, Installing
<1>7. CASE Dies(n)
  <2>1. agent'[n].pc = "idle" /\ wire'[n] = wire[n]
    BY <1>7 DEF Dies, IdleAgent
  <2> QED
    BY <1>b, <1>d, <2>1 DEF NodeSerial, WireFits, Authorized, Over, Engaged, Installing
<1> QED
  BY <1>a, <1>1, <1>2, <1>3, <1>4, <1>5, <1>6, <1>7 DEF AgentEffect

LEMMA SerialDelivery ==
  ASSUME TypeInv, SerialInv, NEW n \in Node, Delivery(n)
  PROVE  SerialInv'
<1>a. DeliveryEffect(n)
  BY DeliveryEffects
<1>b. /\ UNCHANGED <<run, resuming, restartDue, gaveUp, agent>>
      /\ \A m \in Node : m # n => wire'[m] = wire[m]
  BY <1>a DEF DeliveryEffect
<1>d. WireFits(n) /\ Authorized(n) /\ Over(n)
  BY DEF SerialInv, NodeSerial
<1>e. \A r \in Slots : HolderFits(r)
  BY DEF SerialInv, RunSerial
<1>g. wire[n] # NULL => wire[n].status \in Reported
  BY DEF TypeInv, TypeOK, Report
<1>h. agent[n].pc \in {"idle", "prefetch", "copy", "install", "stage"}
  BY DEF TypeInv, TypeOK
<1>1. CASE Stores(n) \/ Loses(n)
  <2>1. UNCHANGED active
    BY <1>1 DEF Stores, Loses
  <2>2. wire[n] # NULL /\ (wire'[n] # NULL => wire'[n].status = wire[n].status)
    BY <1>1 DEF Stores, Loses
  <2>3. NodeSerial(n)'
    BY <1>b, <1>d, <2>1, <2>2 DEF NodeSerial, WireFits, Authorized, Over, Engaged, Installing
  <2>4. \A r \in Slots : HolderFits(r)'
    BY <1>b, <1>e, <2>1 DEF HolderFits, Holder
  <2> QED
    BY <1>b, <2>1, <2>3, <2>4, SerialFrame
<1>2. CASE Applies(n)
  <2>1. /\ wire[n] # NULL /\ wire'[n] = NULL
        /\ (active' = active) \/ Mapped(n, wire[n].status)
    BY <1>2 DEF Applies
  <2>2. /\ active' = NULL <=> active = NULL
        /\ active # NULL =>
             /\ active'.install = active.install
             /\ \A m \in Node : m # n => active'.status[m] = active.status[m]
             /\ active'.status[n] \in {active.status[n], wire[n].status}
    BY <2>1 DEF Mapped
  \* A node that is recorded as finished sends no report.
  <2>3. active # NULL /\ active.install = n /\ active.status[n] \in InstallFinished =>
          "install" \in gaveUp[n]
    BY <1>d, <2>1 DEF Over
  <2>4. ASSUME NEW r \in Slots PROVE HolderFits(r)'
    <3>1. CASE active # NULL /\ active.install = n
      BY <1>b, <1>e, <2>2, <2>3, <3>1 DEF HolderFits, Holder
    <3>2. CASE active # NULL /\ active.install # n
      <4>1. active.install # NULL => active.install \in Node
        BY <3>2 DEF TypeInv, TypeOK, ActiveJob
      <4> QED
        BY <1>b, <1>e, <2>2, <3>2, <4>1 DEF HolderFits, Holder
    <3> QED
      BY <2>2, <3>1, <3>2 DEF HolderFits
  <2>5. Authorized(n)'
    <3>1. ASSUME Engaged(n)' PROVE Engaged(n) /\ wire[n].status \notin InstallFinished
      BY <1>b, <1>d, <2>1, <3>1 DEF Engaged, Installing, WireFits, InstallFinished
    <3> QED
      BY <1>b, <1>d, <2>2, <3>1 DEF Authorized
  <2>6. Over(n)'
    <3>1. ASSUME active # NULL /\ active.install = n, active'.status[n] \in InstallFinished,
                 "install" \notin gaveUp[n]
          PROVE  agent[n].pc = "idle"
      <4>1. wire[n].status \in InstallFinished
        BY <2>2, <2>3, <3>1
      <4> QED
        BY <1>d, <1>g, <1>h, <2>1, <4>1 DEF WireFits, InstallFinished
    <3> QED
      BY <1>b, <2>1, <2>2, <3>1 DEF Over
  <2>7. NodeSerial(n)'
    BY <2>1, <2>5, <2>6 DEF NodeSerial, WireFits
  <2> QED
    BY <1>b, <2>2, <2>4, <2>7, SerialFrame
<1> QED
  BY <1>a, <1>1, <1>2 DEF DeliveryEffect

\* No counter ever goes back.
Grow == \A k \in Counters : used[k] <= used'[k]

LEMMA CountersGrow == ASSUME TypeInv, [Next]_vars PROVE Grow
<1>a. used \in [Counters -> Nat] /\ \A k \in Counters : used[k] \in Nat
  BY DEF TypeInv, TypeOK
<1>b. ASSUME NEW k \in Counters, NEW limit, Spend(k, limit) PROVE Grow
  BY <1>a, <1>b, SpendEffect DEF Grow
<1>c. ASSUME UNCHANGED used PROVE Grow
  BY <1>a, <1>c DEF Grow
<1>d. {"starts", "rollbacks", "deletes", "ctl", "agents", "failures", "deadlines"} \subseteq Counters
  BY DEF Counters
<1>1. CASE Operator
  <2>1. ASSUME NEW j \in Jobs, StartUpdate(j) PROVE Grow
    BY <2>1, <1>b, <1>d DEF StartUpdate
  <2>2. ASSUME NEW j \in Jobs, RollbackUpdate(j) PROVE Grow
    BY <2>2, <1>b, <1>d DEF RollbackUpdate
  <2>3. ASSUME NEW n \in Node, DeleteNode(n) PROVE Grow
    BY <2>3, <1>b, <1>d DEF DeleteNode
  <2>4. ASSUME NEW j \in Jobs, CreateUpdate(j) PROVE Grow
    BY <2>4, <1>c DEF CreateUpdate
  <2>5. CASE RollbackTarget \/ RollbackDone
    BY <2>5, <1>c DEF RollbackTarget, RollbackDone
  <2> QED
    BY <1>1, <2>1, <2>2, <2>3, <2>4, <2>5 DEF Operator
<1>2. CASE ControllerRestart \/ Resume
  <2>1. CASE restartDue /\ ControllerRestart
    BY <2>1, <1>c DEF ControllerRestart
  <2>2. CASE ~restartDue /\ ControllerRestart
    BY <2>2, <1>b, <1>d DEF ControllerRestart
  <2>3. CASE Resume
    BY <2>3, <1>c DEF Resume
  <2> QED
    BY <1>2, <2>1, <2>2, <2>3
<1>3. ASSUME NEW r \in Slots, Orchestrator(r) \/ Deadline(r) PROVE Grow
  BY <1>3, <1>b, <1>c DEF Orchestrator, Deadline, RunStageController, RunPublish, RunScanStart,
     RunScan, RunScanEnd, RunMark, RunMarkEnd, RunSetMap, RunSwitchPhase, RunSkip, RunNotStaged, RunGrant,
     RunFinished, RunUngrant, RunAllGranted, RunController, RunInstallController, RunFinish, RunClear,
     PrefetchDeadline, InstallDeadline, RunOnly, RunAndDB, RunAndActive, Counters
<1>4. ASSUME NEW n \in Node, AgentStep(n) PROVE Grow
  BY <1>4, <1>b, <1>c DEF AgentStep, PollPrefetch, PollInstall, PrefetchCopy, PrefetchDone, PrefetchFails,
     InstallCopy, InstallDone, InstallFails, AgentRestart, AgentOnly, Counters
<1>5. ASSUME NEW n \in Node, Delivery(n) PROVE Grow
  BY <1>5, <1>c DEF Delivery, ReportStore, ReportApply, ReportLost
<1>6. CASE UNCHANGED vars
  BY <1>6, <1>c DEF vars
<1> QED
  BY <1>1, <1>2, <1>3, <1>4, <1>5, <1>6 DEF Next

LEMMA CrashesCounted ==
  ASSUME TypeInv, [Next]_vars, used'["ctl"] = 0 PROVE used["ctl"] = 0
<1>1. used["ctl"] \in Nat /\ used["ctl"] <= used'["ctl"]
  BY CountersGrow DEF Grow, TypeInv, TypeOK, Counters
<1> QED
  BY <1>1

LEMMA SerialNext ==
  ASSUME TypeInv, SelfInv, GrantInv, SerialInv, ~ConcurrentStarts, [Next]_vars, used'["ctl"] = 0
  PROVE  SerialInv'
<1>1. CASE UNCHANGED vars
  BY <1>1, SerialKeep DEF vars, ctlVars, agentVars
<1> QED
  BY <1>1, SerialOperator, SerialRestart, SerialOrchestrator, SerialAgent, SerialDelivery DEF Next

\* As long as no job is started while another one is driven and the controller
\* does not crash, two agents are inside an installation only if an orchestrator
\* gave up on one of them (server.go:75, policy_handlers.go:546-577).
THEOREM SerialCorrect == Spec => [](~ConcurrentStarts /\ used["ctl"] = 0 => SerialInstall)
<1> DEFINE Quietly == ~ConcurrentStarts /\ used["ctl"] = 0
           Inv == TypeInv /\ SelfInv /\ (~ConcurrentStarts => GrantInv) /\ (Quietly => SerialInv)
<1>1. Init => Inv
  BY InitType, SelfInit, GrantInit, SerialInit
<1>2. Inv /\ [Next]_vars => Inv'
  BY NextType, SelfNext, GrantNext, SerialNext, CrashesCounted
<1>3. Inv => (Quietly => SerialInstall)
  BY DEF SerialInstall, SerialInv, NodeSerial, Authorized, Engaged
<1> HIDE DEF Inv
<1> QED
  BY <1>1, <1>2, <1>3, PTL DEF Spec

-----------------------------------------------------------------------------
(* What a step of a goroutine means for the rest of the system, whichever  *)
(* step it is: for the phase it is in, for the row of an agent, and for    *)
(* the agent's entry in the map.                                           *)

PhaseKept(r) ==
  /\ Before(r)' => Stages(r)
  /\ Prefetch(r)' => Before(r) \/ Prefetch(r)
  /\ Install(r)' => Switches(r) \/ (Install(r) /\ run'[r].todo \subseteq run[r].todo
                                       /\ run'[r].snap = run[r].snap)
  /\ After(r)' => EndsLoop(r) \/ After(r)
  /\ run'[r].pc = "clear" => Finishes(r)
  /\ run'[r].pc = "free" => Clears(r)
  /\ jobStatus' = jobStatus \/ Finishes(r)

RowKept(r, n) ==
  /\ \A j \in Jobs : j # run[r].job => target'[j][n] = target[j][n]
  /\ \/ target'[run[r].job][n] = target[run[r].job][n]
     \/ /\ target'[run[r].job][n] \in {"DownloadFailed", "InstallFailed"}
        /\ gaveUp'[n] # {}
        /\ Prefetch(r) \/ (Install(r) /\ n \in run[r].todo) \/ "install" \in gaveUp'[n]

MapKept(r, n) ==
  active' # NULL =>
    \/ Publishes(r)
    \/ active # NULL /\ active'.status[n] = active.status[n]
    \/ /\ active # NULL /\ gaveUp[n] # {}
       /\ \/ active'.status[n] = "InstallFailed"
          \/ active'.status[n] = "DownloadFailed" /\ Prefetch(r)

LEMMA PhaseStep ==
  ASSUME NEW r \in Slots, KnowsItself(r), run[r].pc # "free", Effect(r)
  PROVE  PhaseKept(r)
<1> USE DEF Before, Prefetch, Holder, Install, After
<1>1. CASE Stages(r) \/ Publishes(r) \/ Moves(r) \/ TimesOut(r)
  BY <1>1 DEF PhaseKept, Stages, Publishes, Moves, TimesOut, SameDB
<1>2. CASE SetsMap(r)
  BY <1>2 DEF PhaseKept, SetsMap, SameDB, KnowsItself
<1>3. CASE Switches(r) \/ Skips(r) \/ Rejects(r) \/ Grants(r)
  BY <1>3 DEF PhaseKept, Switches, Skips, Rejects, Grants, SameDB
<1>4. CASE Hears(r) \/ StopsWaiting(r) \/ Ungrants(r) \/ EndsLoop(r)
  BY <1>4 DEF PhaseKept, Hears, StopsWaiting, Ungrants, EndsLoop, SameDB
<1>5. CASE DoesController(r) \/ Finishes(r) \/ Clears(r)
  BY <1>5 DEF PhaseKept, DoesController, Finishes, Clears, SameDB
<1> QED
  BY <1>1, <1>2, <1>3, <1>4, <1>5 DEF Effect

LEMMA RowStep ==
  ASSUME NEW r \in Slots, KnowsItself(r), run[r].job \in Jobs, Effect(r), NEW n \in Agents
  PROVE  RowKept(r, n)
<1>a. n \in Node
  BY DEF Agents
<1>1. ASSUME NEW m \in Agents, NEW st \in {"DownloadFailed", "InstallFailed"}, NEW why,
             Stored(run[r].job, m, st), Overruled(m, why),
             Prefetch(r) \/ (Install(r) /\ m \in run[r].todo) \/ why = "install"
      PROVE  RowKept(r, n)
  BY <1>a, <1>1 DEF Stored, Overruled, RowKept
<1>2. CASE Stages(r) \/ DoesController(r)
  BY <1>2 DEF RowKept, Stages, DoesController
<1>3. CASE UNCHANGED target
  BY <1>3 DEF RowKept
<1>4. CASE TimesOut(r)
  BY <1>1, <1>4 DEF TimesOut
<1>5. CASE Rejects(r)
  BY <1>1, <1>5 DEF Rejects, KnowsItself, Install
<1>6. CASE StopsWaiting(r)
  BY <1>1, <1>6 DEF StopsWaiting, KnowsItself
<1> QED
  BY <1>2, <1>3, <1>4, <1>5, <1>6 DEF Effect, Publishes, Moves, SetsMap, Switches, Skips, Grants,
     Hears, Ungrants, EndsLoop, Finishes, Clears, SameDB

LEMMA MapStep ==
  ASSUME NEW r \in Slots, KnowsItself(r), Effect(r), NEW n \in Agents
  PROVE  MapKept(r, n)
<1>a. n \in Node /\ n # Controller
  BY DEF Agents
<1>1. CASE SetsMap(r)
  BY <1>a, <1>1 DEF SetsMap, Mapped, MapKept, KnowsItself, Prefetch
<1>2. CASE UNCHANGED active
  BY <1>2 DEF MapKept
<1> QED
  BY <1>1, <1>2 DEF Effect, MapKept, Stages, Moves, TimesOut, Switches, Skips, Rejects, Grants,
     Hears, StopsWaiting, Ungrants, EndsLoop, DoesController, Finishes, Clears

-----------------------------------------------------------------------------
(* One start and no crash.  Until the start nothing has happened to any    *)
(* node; from then on there is one job s that everybody works for.         *)

Pristine == {NoRow, "Waiting", "RollingBack", "RolledBack"}

Untouched(n) == agent[n].pc = "idle" /\ wire[n] = NULL /\ gaveUp[n] = {}

\* No goroutine ever drove job j.
Undriven(j) ==
  /\ jobStatus[j] \notin {"Running", "Completed"}
  /\ \A n \in Agents : target[j][n] \in Pristine

Fresh ==
  /\ \A r \in Slots : run[r].pc = "free"
  /\ ~restartDue /\ active = NULL
  /\ \A n \in Node : Untouched(n) /\ ~agentDue[n] /\ bin[n] = NULL
  /\ \A n \in Node, j \in Jobs : staged[n][j] = "none" /\ release[n][j] = "none"
  /\ \A j \in Jobs : Undriven(j)

OnlyJob(s) ==
  /\ \A r \in Slots : run[r].pc # "free" => run[r].job = s
  /\ \A n \in Node : /\ agent[n].pc # "idle" => agent[n].job = s
                     /\ wire[n] # NULL => wire[n].job = s
  /\ active # NULL => active.job = s
  /\ \A j \in Jobs \ {s} : Undriven(j)
  /\ jobStatus[s] = "Running" => \E r \in Slots : run[r].pc \notin {"free", "clear"}
  /\ jobStatus[s] # "none"

Base == TypeInv /\ SelfInv /\ GrantInv /\ SerialInv

Undisturbed == ~ConcurrentStarts /\ used["ctl"] = 0 /\ used["starts"] <= 1

\* No row was rolled back or deleted.
RowsLeftAlone == used["rollbacks"] = 0 /\ used["deletes"] = 0

RolledBack == rollback # NULL \/ ~RowsLeftAlone'

\* The steps of the system while job s is driven.
Outside(s) ==         \* the administrator's
  /\ UNCHANGED <<active, run, resuming, restartDue, agent, wire, agentDue, diskVars, gaveUp>>
  /\ \A j \in Jobs : /\ \/ jobStatus'[j] \in {jobStatus[j], "RolledBack"}
                        \/ j # s /\ jobStatus'[j] = "Created"
                     /\ \A n \in Agents : \/ target'[j][n] = target[j][n]
                                          \/ j # s /\ target'[j][n] \in Pristine
                                          \/ target'[j][n] \in Pristine \ {"Waiting"} /\ RolledBack
  /\ ~RolledBack => UNCHANGED <<rollback, alive>>
  /\ used'["failures"] = used["failures"]
  /\ RowsLeftAlone' => RowsLeftAlone

Restarts ==
  /\ \A r \in Slots : run[r].pc = "free" /\ run'[r].pc = "free"
  /\ active' = NULL /\ \A n \in Node : wire'[n] = NULL
  /\ rollback' = NULL
  /\ UNCHANGED <<dbVars, agent, diskVars, gaveUp, used>>

Waits == UNCHANGED <<dbVars, active, run, rollback, agent, wire, diskVars, gaveUp, used>>

Drives(r) ==
  /\ run[r].pc # "free" /\ Effect(r) /\ RunSpares
  /\ \A q \in Slots \ {r} : run'[q] = run[q] /\ run[q].pc = "free"

LEMMA OutsideStep ==
  ASSUME TypeInv, NEW s \in Jobs, jobStatus[s] # "none", Operator,
         used["starts"] = 1, used'["starts"] <= 1
  PROVE  Outside(s)
<1> USE DEF dbVars, ctlVars, agentVars, diskVars, RolledBack, RowsLeftAlone
<1>a. /\ used \in [Counters -> Nat] /\ NULL \notin Jobs
      /\ target \in [Jobs -> [Node -> TargetStatus \cup {NoRow}]]
      /\ jobStatus \in [Jobs -> JobStatus] /\ alive \subseteq Node
      /\ rollback \in [job: Jobs, todo: SUBSET Node, mid: BOOLEAN] \cup {NULL}
      /\ Agents \subseteq Node
  BY NodeAssumption DEF TypeInv, TypeOK, Agents
<1>b. ASSUME UNCHANGED used
      PROVE  used'["failures"] = used["failures"] /\ (RowsLeftAlone' => RowsLeftAlone)
  BY <1>b
<1>c. ASSUME NEW k \in {"starts", "rollbacks", "deletes"}, NEW limit, Spend(k, limit)
      PROVE  /\ used'["failures"] = used["failures"]
             /\ k = "starts" => used'["starts"] = 2
             /\ used'[k] > 0
             /\ RowsLeftAlone' => RowsLeftAlone
  <2>1. \A i \in Counters : used'[i] = IF i = k THEN used[i] + 1 ELSE used[i]
    BY <1>a, <1>c, SpendEffect DEF Counters
  <2> QED
    BY <1>a, <2>1 DEF Counters
<1>1. ASSUME NEW j \in Jobs, CreateUpdate(j) PROVE Outside(s)
  <2>1. j # s
    BY <1>1 DEF CreateUpdate
  <2>2. \A i \in Jobs : /\ jobStatus'[i] = jobStatus[i] \/ (i # s /\ jobStatus'[i] = "Created")
                        /\ \A n \in Agents : \/ target'[i][n] = target[i][n]
                                             \/ i # s /\ target'[i][n] \in Pristine
    BY <1>1, <1>a, <2>1 DEF CreateUpdate, Pristine
  <2> QED
    BY <1>1, <1>b, <2>2 DEF CreateUpdate, Outside
<1>2. ASSUME NEW j \in Jobs, StartUpdate(j) PROVE FALSE
  BY <1>2, <1>c DEF StartUpdate
<1>3. ASSUME NEW j \in Jobs, RollbackUpdate(j) PROVE Outside(s)
  <2>1. /\ used'["failures"] = used["failures"] /\ used'["rollbacks"] > 0
        /\ RowsLeftAlone' => RowsLeftAlone
    BY <1>3, <1>c DEF RollbackUpdate
  <2> QED
    BY <1>3, <2>1 DEF RollbackUpdate, Outside
<1>4. CASE RollbackTarget
  <2>1. PICK n \in Deepest(rollback.todo) :
          StoreStatus(rollback.job, n, IF rollback.mid THEN "RolledBack" ELSE "RollingBack")
    BY <1>4 DEF RollbackTarget
  <2>2. rollback.job \in Jobs /\ n \in Node /\ rollback # NULL
    BY <1>4, <1>a DEF RollbackTarget, Deepest
  <2>3. Stored(rollback.job, n, IF rollback.mid THEN "RolledBack" ELSE "RollingBack")
    BY <1>a, <2>1, <2>2, StoreEffect
  <2>4. \A j \in Jobs, m \in Agents : target'[j][m] = target[j][m] \/ target'[j][m] \in {"RolledBack", "RollingBack"}
    BY <1>a, <2>3 DEF Stored
  <2> QED
    BY <1>4, <1>b, <2>2, <2>4 DEF RollbackTarget, Outside, Pristine
<1>5. CASE RollbackDone
  BY <1>5, <1>a, <1>b DEF RollbackDone, Outside
<1>6. ASSUME NEW n \in Node, DeleteNode(n) PROVE Outside(s)
  <2>1. /\ used'["failures"] = used["failures"] /\ used'["deletes"] > 0
        /\ RowsLeftAlone' => RowsLeftAlone
    BY <1>6, <1>c DEF DeleteNode
  <2>2. \A j \in Jobs, m \in Agents : target'[j][m] = target[j][m] \/ target'[j][m] = NoRow
    BY <1>6, <1>a DEF DeleteNode
  <2>3. RolledBack
    BY <2>1
  <2>4. NoRow \in Pristine \ {"Waiting"}
    BY DEF Pristine, NoRow
  <2> HIDE DEF RolledBack, RowsLeftAlone
  <2> QED
    BY <1>6, <2>1, <2>2, <2>3, <2>4 DEF DeleteNode, Outside
<1> QED
  BY <1>1, <1>2, <1>3, <1>4, <1>5, <1>6 DEF Operator

LEMMA RestartStep ==
  ASSUME Base, NEW s \in Jobs, OnlyJob(s), used'["ctl"] = 0, ControllerRestart \/ Resume
  PROVE  Restarts \/ Waits
<1> USE DEF dbVars, ctlVars, agentVars, diskVars
<1>1. CASE ControllerRestart
  <2>1. restartDue /\ UNCHANGED used
    <3>1. ASSUME ~restartDue PROVE FALSE
      <4>1. Spend("ctl", MaxControllerRestarts)
        BY <1>1, <3>1 DEF ControllerRestart
      <4>2. used'["ctl"] = used["ctl"] + 1 /\ used["ctl"] \in Nat
        BY <4>1, SpendEffect DEF Base, TypeInv, TypeOK, Counters
      <4> QED
        BY <4>2
    <3> QED
      BY <1>1, <3>1 DEF ControllerRestart
  <2>2. \A r \in Slots : run[r].pc = "free" /\ run'[r].pc = "free"
    BY <1>1, <2>1, FreeRunType DEF ControllerRestart, Base, SerialInv, RunSerial
  <2> QED
    BY <1>1, <2>1, <2>2 DEF ControllerRestart, Restarts
<1>2. CASE Resume
  <2>1. \A r \in Slots : run[r].pc = "free"
    BY <1>2 DEF Resume, Base, GrantInv, ResumeAlone
  <2>2. Running = {}
    BY <2>1 DEF Running, OnlyJob, Undriven
  <2> QED
    BY <1>2, <2>2 DEF Resume, Waits
<1> QED
  BY <1>1, <1>2

LEMMA DrivesStep ==
  ASSUME Base, NEW r \in Slots, Orchestrator(r) \/ Deadline(r)
  PROVE  Drives(r)
<1>1. Effect(r) /\ RunSpares
  BY RunEffect DEF Base
<1>2. /\ run[r].pc # "free"
      /\ \A q \in Slots \ {r} : run'[q] = run[q] /\ run[q].pc = "free"
  BY OrchestratorType DEF Base, RunStep, GrantInv, OneRun
<1> QED
  BY <1>1, <1>2 DEF Drives

LEMMA Steps ==
  ASSUME Base, NEW s \in Jobs, OnlyJob(s), used["starts"] = 1, Undisturbed', [Next]_vars
  PROVE  \/ Outside(s) \/ Restarts \/ Waits
         \/ \E r \in Slots : Drives(r)
         \/ \E n \in Node : AgentEffect(n) \/ DeliveryEffect(n)
<1>a. used'["starts"] <= 1 /\ used'["ctl"] = 0
  BY DEF Undisturbed
<1>1. CASE UNCHANGED vars
  BY <1>1 DEF Waits, vars, dbVars, ctlVars, agentVars, diskVars
<1>2. CASE Operator
  BY <1>2, <1>a, OutsideStep DEF Base, OnlyJob
<1>3. CASE ControllerRestart \/ Resume
  BY <1>3, <1>a, RestartStep
<1>4. ASSUME NEW r \in Slots, Orchestrator(r) \/ Deadline(r) PROVE Drives(r)
  BY <1>4, DrivesStep
<1>5. ASSUME NEW n \in Node, AgentStep(n) PROVE AgentEffect(n)
  BY <1>5, AgentEffects DEF Base
<1>6. ASSUME NEW n \in Node, Delivery(n) PROVE DeliveryEffect(n)
  BY <1>6, DeliveryEffects DEF Base
<1> QED
  BY <1>1, <1>2, <1>3, <1>4, <1>5, <1>6 DEF Next

-----------------------------------------------------------------------------

LEMMA OnlyJobNext ==
  ASSUME Base, NEW s \in Jobs, OnlyJob(s),
         \/ Outside(s) \/ Restarts \/ Waits
         \/ \E r \in Slots : Drives(r)
         \/ \E n \in Node : AgentEffect(n) \/ DeliveryEffect(n)
  PROVE  OnlyJob(s)'
<1> USE DEF dbVars, ctlVars, diskVars
<1>a. Agents \subseteq Node
  BY DEF Agents
<1>1. CASE Outside(s)
  <2>1. \A j \in Jobs \ {s} : Undriven(j)'
    BY <1>1 DEF Outside, OnlyJob, Undriven
  <2>2. jobStatus'[s] \in {jobStatus[s], "RolledBack"}
    BY <1>1 DEF Outside
  <2> QED
    BY <1>1, <2>1, <2>2 DEF Outside, OnlyJob
<1>2. CASE Restarts
  <2>1. jobStatus[s] # "Running"
    BY <1>2 DEF Restarts, OnlyJob
  <2> QED
    BY <1>2, <2>1 DEF Restarts, OnlyJob, Undriven
<1>3. CASE Waits
  BY <1>3 DEF Waits, OnlyJob, Undriven
<1>4. ASSUME NEW r \in Slots, Drives(r) PROVE OnlyJob(s)'
  <2>1. /\ run[r].job = s /\ run[r].pc # "free" /\ Effect(r) /\ KnowsItself(r)
        /\ \A q \in Slots \ {r} : run'[q].pc = "free"
        /\ UNCHANGED <<agent, wire>>
    BY <1>4 DEF Drives, OnlyJob, Base, SelfInv, RunSpares, agentVars
  <2>2. PhaseKept(r)
    BY <2>1, PhaseStep
  <2>3. \A n \in Agents : RowKept(r, n)
    BY <2>1, RowStep
  <2>4. run'[r].pc # "free" => run'[r].job = s
    BY <2>1 DEF Effect, Stages, Publishes, Moves, TimesOut, SetsMap, Switches, Skips, Rejects,
       Grants, Hears, StopsWaiting, Ungrants, EndsLoop, DoesController, Finishes, Clears, SameRun
  <2>5. active' # NULL => active'.job = s
    BY <2>1 DEF OnlyJob, Effect, Stages, Publishes, Moves, TimesOut, SetsMap, Switches, Skips, Rejects,
       Grants, Hears, StopsWaiting, Ungrants, EndsLoop, DoesController, Finishes, Clears, Mapped
  <2>6. jobStatus' = jobStatus \/ jobStatus' = [jobStatus EXCEPT ![s] = "Completed"]
    BY <2>1, <2>2 DEF PhaseKept, Finishes
  <2>7. jobStatus \in [Jobs -> JobStatus]
    BY DEF Base, TypeInv, TypeOK
  <2>8. \A j \in Jobs \ {s} : Undriven(j)'
    BY <2>1, <2>3, <2>6, <2>7 DEF OnlyJob, Undriven, RowKept
  <2>9. jobStatus'[s] # "none" /\ (jobStatus'[s] = "Running" => run'[r].pc \notin {"free", "clear"})
    <3>1. CASE Finishes(r)
      BY <2>1, <2>7, <3>1 DEF Finishes
    <3>2. CASE Clears(r)
      <4>1. run[r].pc = "clear" /\ \A q \in Slots : run[q].pc \in {"free", "clear"}
        BY <1>4, <3>2 DEF Clears, Drives
      <4>2. jobStatus[s] # "Running"
        BY <4>1 DEF OnlyJob
      <4> QED
        BY <3>2, <4>2 DEF Clears, SameDB, OnlyJob
    <3>3. CASE ~Finishes(r) /\ ~Clears(r)
      BY <2>2, <3>3 DEF PhaseKept, OnlyJob
    <3> QED
      BY <3>1, <3>2, <3>3
  <2> QED
    BY <2>1, <2>4, <2>5, <2>8, <2>9 DEF OnlyJob
<1>5. ASSUME NEW n \in Node, AgentEffect(n) PROVE OnlyJob(s)'
  <2>1. /\ UNCHANGED <<run, active, jobStatus, target>>
        /\ \A m \in Node : m # n => agent'[m] = agent[m] /\ wire'[m] = wire[m]
    BY <1>5 DEF AgentEffect, SameNode
  <2>2. /\ agent'[n].pc # "idle" => agent'[n].job = s
        /\ wire'[n] # NULL => wire'[n].job = s
    BY <1>5 DEF AgentEffect, OnlyJob, AsksPrefetch, AsksInstall, StartsCopy, EndsCopy, BreaksCopy,
       FindsNothing, StartsInstall, EndsInstall, BreaksInstall, Dies, Becomes, Posts, IdleAgent
  <2> QED
    BY <2>1, <2>2 DEF OnlyJob, Undriven
<1>6. ASSUME NEW n \in Node, DeliveryEffect(n) PROVE OnlyJob(s)'
  <2>1. /\ UNCHANGED <<run, jobStatus, agent>> /\ wire[n] # NULL /\ wire[n].job = s
        /\ \A m \in Node : m # n => wire'[m] = wire[m]
        /\ wire'[n] # NULL => wire'[n].job = s
    BY <1>6 DEF DeliveryEffect, OnlyJob, Stores, Applies, Loses
  <2>2. active' # NULL => active'.job = s
    BY <1>6 DEF DeliveryEffect, OnlyJob, Stores, Applies, Loses, Mapped
  <2>3. \A j \in Jobs, m \in Agents : j # s => target'[j][m] = target[j][m]
    BY <1>6, <1>a, <2>1 DEF DeliveryEffect, Stores, Applies, Loses, Stored
  <2> QED
    BY <2>1, <2>2, <2>3 DEF OnlyJob, Undriven
<1> QED
  BY <1>1, <1>2, <1>3, <1>4, <1>5, <1>6

\* The first start.
Begins(s) ==
  /\ \E r \in Slots : /\ run'[r].pc = "stageCtl" /\ run'[r].job = s
                      /\ \A n \in Node : run'[r].snap[n] = target[s][n]
                      /\ \A q \in Slots \ {r} : run'[q].pc = "free"
  /\ jobStatus[s] # "none" /\ jobStatus'[s] = "Running"
  /\ \A j \in Jobs \ {s} : jobStatus'[j] = jobStatus[j]
  /\ UNCHANGED <<alive, target, active, rollback, restartDue, agent, wire, agentDue, diskVars, gaveUp>>
  /\ \A k \in {"rollbacks", "deletes", "failures"} : used'[k] = used[k]

LEMMA FreshInit == Init => Fresh
<1> SUFFICES ASSUME Init PROVE Fresh
  OBVIOUS
<1>1. /\ \A r \in Slots : run[r].pc = "free"
      /\ ~restartDue /\ active = NULL
  BY FreeRunType DEF Init
<1>2. \A n \in Node : Untouched(n) /\ ~agentDue[n] /\ bin[n] = NULL
  BY DEF Init, Untouched, IdleAgent
<1>3. \A n \in Node, j \in Jobs : staged[n][j] = "none" /\ release[n][j] = "none"
  BY DEF Init
<1>4. \A j \in Jobs : Undriven(j)
  BY DEF Init, Undriven, Pristine, NoRow, Agents
<1> QED
  BY <1>1, <1>2, <1>3, <1>4 DEF Fresh

LEMMA FreshStep ==
  ASSUME TypeInv, Fresh, used["starts"] = 0, [Next]_vars
  PROVE  \/ Fresh' /\ used'["starts"] = 0
         \/ used'["starts"] = 1 /\ \E s \in Jobs : Begins(s)
<1> USE DEF dbVars, ctlVars, agentVars, diskVars
<1> DEFINE Still == /\ used'["starts"] = 0
                    /\ UNCHANGED <<run, restartDue, active, agentVars, gaveUp,
                                   bin, staged, release>>
<1>a. /\ used \in [Counters -> Nat]
      /\ target \in [Jobs -> [Node -> TargetStatus \cup {NoRow}]]
      /\ jobStatus \in [Jobs -> JobStatus] /\ run \in [Slots -> Run]
      /\ rollback \in [job: Jobs, todo: SUBSET Node, mid: BOOLEAN] \cup {NULL}
      /\ Agents \subseteq Node /\ NULL \notin Jobs
  BY NodeAssumption DEF TypeInv, TypeOK, Agents
<1>b. /\ \A r \in Slots : run[r].pc = "free"
      /\ ~restartDue /\ active = NULL
      /\ \A n \in Node : agent[n].pc = "idle" /\ wire[n] = NULL /\ ~agentDue[n]
  BY DEF Fresh, Untouched
<1>c. ASSUME NEW k \in Counters, NEW limit, Spend(k, limit)
      PROVE  \A i \in Counters : used'[i] = IF i = k THEN used[i] + 1 ELSE used[i]
  BY <1>a, <1>c, SpendEffect
<1>d. ASSUME Still, \A j \in Jobs : Undriven(j)' PROVE Fresh' /\ used'["starts"] = 0
  BY <1>d DEF Fresh, Untouched
<1>e. ASSUME UNCHANGED <<jobStatus, target>> PROVE \A j \in Jobs : Undriven(j)'
  BY <1>e DEF Fresh, Undriven
<1>f. \A j \in Jobs : Undriven(j)
  BY DEF Fresh
<1>1. ASSUME NEW j \in Jobs, CreateUpdate(j) PROVE Fresh' /\ used'["starts"] = 0
  <2>1. \A i \in Jobs : Undriven(i)'
    BY <1>1, <1>a, <1>f DEF CreateUpdate, Undriven, Pristine
  <2> QED
    BY <1>1, <1>d, <2>1 DEF CreateUpdate
<1>2. ASSUME NEW j \in Jobs, StartUpdate(j)
      PROVE  used'["starts"] = 1 /\ \E s \in Jobs : Begins(s)
  <2>1. \A i \in Counters : used'[i] = IF i = "starts" THEN used[i] + 1 ELSE used[i]
    BY <1>2, <1>c DEF StartUpdate, Counters
  <2>2. PICK r \in Slots : Spawn(r, j)
    BY <1>2 DEF StartUpdate, Free
  <2>3. run' = [run EXCEPT ![r] = [FreeRun EXCEPT !.pc = "stageCtl", !.job = j, !.snap = target[j]]]
    BY <2>2 DEF Spawn
  <2>4. /\ run'[r].pc = "stageCtl" /\ run'[r].job = j
        /\ \A n \in Node : run'[r].snap[n] = target[j][n]
        /\ \A q \in Slots \ {r} : run'[q].pc = "free"
    BY <1>a, <1>b, <2>3 DEF FreeRun
  <2>5. Begins(j)
    BY <1>2, <1>a, <2>1, <2>4 DEF Begins, StartUpdate, Counters
  <2> QED
    BY <2>1, <2>5 DEF Counters
<1>3. ASSUME NEW j \in Jobs, RollbackUpdate(j) PROVE Fresh' /\ used'["starts"] = 0
  <2>1. used'["starts"] = 0
    BY <1>3, <1>c DEF RollbackUpdate, Counters
  <2> QED
    BY <1>3, <1>d, <1>e, <2>1 DEF RollbackUpdate
<1>4. CASE RollbackTarget
  <2>1. PICK n \in Deepest(rollback.todo) :
          StoreStatus(rollback.job, n, IF rollback.mid THEN "RolledBack" ELSE "RollingBack")
    BY <1>4 DEF RollbackTarget
  <2>2. rollback.job \in Jobs /\ n \in Node
    BY <1>4, <1>a DEF RollbackTarget, Deepest
  <2>3. Stored(rollback.job, n, IF rollback.mid THEN "RolledBack" ELSE "RollingBack")
    BY <1>a, <2>1, <2>2, StoreEffect
  <2>4. \A j \in Jobs, m \in Agents : target'[j][m] = target[j][m] \/ target'[j][m] \in {"RolledBack", "RollingBack"}
    BY <1>a, <2>3 DEF Stored
  <2>5. \A j \in Jobs : Undriven(j)'
    BY <1>4, <1>f, <2>4 DEF RollbackTarget, Undriven, Pristine
  <2> QED
    BY <1>4, <1>d, <2>5 DEF RollbackTarget
<1>5. CASE RollbackDone
  <2>1. \A j \in Jobs : Undriven(j)'
    BY <1>5, <1>a, <1>f DEF RollbackDone, Undriven
  <2> QED
    BY <1>5, <1>d, <2>1 DEF RollbackDone
<1>6. ASSUME NEW n \in Node, DeleteNode(n) PROVE Fresh' /\ used'["starts"] = 0
  <2>1. used'["starts"] = 0
    BY <1>6, <1>c DEF DeleteNode, Counters
  <2>2. \A j \in Jobs : Undriven(j)'
    BY <1>6, <1>a, <1>f DEF DeleteNode, Undriven, Pristine
  <2> QED
    BY <1>6, <1>d, <2>1, <2>2 DEF DeleteNode
<1>7. ASSUME ControllerRestart PROVE Fresh' /\ used'["starts"] = 0
  <2>1. used'["starts"] = 0
    BY <1>b, <1>c, <1>7 DEF ControllerRestart, Counters
  <2>2. \A r \in Slots : run'[r].pc = "free"
    BY <1>7, FreeRunType DEF ControllerRestart
  <2>3. \A n \in Node : Untouched(n)' /\ ~agentDue'[n] /\ bin'[n] = NULL
    BY <1>7 DEF ControllerRestart, Fresh, Untouched
  <2> QED
    BY <1>7, <1>e, <2>1, <2>2, <2>3 DEF ControllerRestart, Fresh
<1>8. ASSUME Resume PROVE Fresh' /\ used'["starts"] = 0
  <2>1. Running = {}
    BY <1>f DEF Running, Undriven
  <2> QED
    BY <1>8, <1>d, <1>e, <2>1 DEF Resume
<1>9. ASSUME NEW r \in Slots, Orchestrator(r) \/ Deadline(r) PROVE FALSE
  BY <1>b, <1>9, OrchestratorType DEF RunStep
<1>10. ASSUME NEW n \in Node, AgentStep(n) PROVE Fresh' /\ used'["starts"] = 0
  <2>1. AgentEffect(n)
    BY <1>10, AgentEffects
  <2>2. Dies(n)
    BY <1>b, <2>1 DEF AgentEffect, AsksPrefetch, AsksInstall, StartsCopy, EndsCopy, BreaksCopy,
       FindsNothing, StartsInstall, EndsInstall, BreaksInstall
  <2>3. /\ \A m \in Node : /\ agent'[m].pc = "idle" /\ wire'[m] = wire[m] /\ ~agentDue'[m]
                           /\ SameDisk(m)
        /\ UNCHANGED <<run, active, restartDue, jobStatus, target, gaveUp>>
        /\ used'["starts"] = 0
    BY <1>b, <2>1, <2>2 DEF AgentEffect, Dies, SameNode, IdleAgent
  <2>4. \A j \in Jobs : Undriven(j)'
    BY <1>e, <2>3
  <2> QED
    BY <2>3, <2>4 DEF Fresh, Untouched, SameDisk
<1>11. ASSUME NEW n \in Node, Delivery(n) PROVE FALSE
  <2>1. DeliveryEffect(n)
    BY <1>11, DeliveryEffects
  <2> QED
    BY <1>b, <2>1 DEF DeliveryEffect, Stores, Applies, Loses
<1>12. CASE UNCHANGED vars
  BY <1>12, <1>d, <1>e DEF vars
<1> QED
  BY <1>1, <1>2, <1>3, <1>4, <1>5, <1>6, <1>7, <1>8, <1>9, <1>10, <1>11, <1>12 DEF Next, Operator

LEMMA OnlyJobBegins ==
  ASSUME Fresh, NEW s \in Jobs, Begins(s) PROVE OnlyJob(s)'
<1>1. PICK r \in Slots : /\ run'[r].pc = "stageCtl" /\ run'[r].job = s
                         /\ \A q \in Slots \ {r} : run'[q].pc = "free"
  BY DEF Begins
<1>2. \A j \in Jobs \ {s} : Undriven(j)'
  BY DEF Fresh, Begins, Undriven
<1> QED
  BY <1>1, <1>2 DEF OnlyJob, Begins, Fresh, Untouched

-----------------------------------------------------------------------------
(* Where a goroutine that drives a job finds the system.                   *)

LEMMA Whereabouts ==
  ASSUME Base, NEW s \in Jobs, OnlyJob(s), NEW r \in Slots, run[r].pc # "free"
  PROVE  /\ run[r].job = s /\ KnowsItself(r)
         /\ Before(r) => active = NULL
         /\ ~Before(r) => active # NULL /\ active.job = s
         /\ Before(r) \/ Prefetch(r) \/ Install(r) \/ After(r)
         /\ active # NULL /\ active.install # NULL => Holder(r)
         /\ Install(r) => active.phase = "install"
         /\ run[r].pc = "wait" => active.install = run[r].cur /\ run[r].cur \in Agents
         /\ \A n \in Node : Engaged(n) /\ "install" \notin gaveUp[n] =>
              run[r].pc = "wait" /\ run[r].cur = n
<1>1. \A q \in Slots : q # r => run[q].pc = "free"
  BY DEF Base, GrantInv, OneRun
<1>2. KnowsItself(r) /\ Follows(r) /\ run[r].job = s
  BY DEF Base, SelfInv, GrantInv, OnlyJob
<1>3. Before(r) => active = NULL
  BY <1>1 DEF Base, SerialInv, RunSerial
<1>4. ~Before(r) => active # NULL /\ active.job = s
  BY <1>2 DEF Follows, Before
<1>5. Before(r) \/ Prefetch(r) \/ Install(r) \/ After(r)
  <2>1. run[r].pc \in RunPC
    BY DEF Base, TypeInv, TypeOK, Run
  <2> QED
    BY <1>2, <2>1 DEF RunPC, KnowsItself, Before, Prefetch, Install, Holder, After
<1>6. active # NULL /\ active.install # NULL => Holder(r)
  BY <1>1 DEF Base, SerialInv, RunSerial, Holder
<1>7. Install(r) => active.phase = "install"
  BY <1>2 DEF Follows, Install, Holder
<1>8. run[r].pc = "wait" => active.install = run[r].cur /\ run[r].cur \in Agents
  BY <1>2 DEF Follows, KnowsItself
<1>9. ASSUME NEW n \in Node, Engaged(n), "install" \notin gaveUp[n]
      PROVE  run[r].pc = "wait" /\ run[r].cur = n
  BY <1>1, <1>8, <1>9 DEF Base, SerialInv, NodeSerial, Authorized
<1> QED
  BY <1>2, <1>3, <1>4, <1>5, <1>6, <1>7, <1>8, <1>9

-----------------------------------------------------------------------------
(* Leaves first.  Before the install phase no node has begun to install    *)
(* and none is about to.  In the install phase whoever has begun, is       *)
(* installing or holds the grant is no longer to be visited, and none      *)
(* that is still to be visited is deeper; the controller is not touched.   *)

Reached(n, s) == Begun(n, s) \/ Engaged(n) \/ (active # NULL /\ active.install = n)

LeafFits(r, n, s) ==
  /\ Before(r) => Untouched(n)
  /\ Before(r) \/ Prefetch(r) => ~Begun(n, s) /\ ~Engaged(n)
  /\ Install(r) => ~Begun(Controller, s)
  /\ Install(r) /\ Reached(n, s) =>
       /\ n \notin run[r].todo
       /\ \A m \in run[r].todo : Depth[m] <= Depth[n]
       /\ run[r].pc = "wait" => Depth[run[r].cur] <= Depth[n]

LeafInv(s) ==
  /\ \A r \in Slots, n \in Node : LeafFits(r, n, s)
  /\ ~Engaged(Controller)

LEMMA LeafBegins ==
  ASSUME Fresh, NEW s \in Jobs, Begins(s) PROVE LeafInv(s)'
<1>1. \A n \in Node : Untouched(n)' /\ ~Engaged(n)' /\ ~Begun(n, s)'
  BY DEF Fresh, Begins, Untouched, Engaged, Installing, Begun, diskVars
<1>2. \A r \in Slots : ~Install(r)'
  BY DEF Begins, Install, Holder
<1> QED
  BY <1>1, <1>2, NodeAssumption DEF LeafInv, LeafFits

\* No other goroutine is in any of the phases.
LEMMA OthersFree ==
  ASSUME NEW r \in Slots, Drives(r), NEW q \in Slots \ {r}
  PROVE  ~Before(q)' /\ ~Prefetch(q)' /\ ~Install(q)' /\ ~After(q)'
         /\ run'[q].pc = "free"
  BY DEF Drives, Before, Prefetch, Install, Holder, After

LEMMA IdleEnds ==
  ASSUME \A r \in Slots : run[r].pc = "free", NEW r \in Slots
  PROVE  ~Before(r) /\ ~Prefetch(r) /\ ~Install(r) /\ ~After(r)
  BY DEF Before, Prefetch, Install, Holder, After

\* An agent is only engaged because it asks for it while it holds the grant,
\* and only an engaged agent replaces its release.
LEMMA AgentReaches ==
  ASSUME NEW n \in Node, AgentEffect(n), NEW s \in Jobs, OnlyJob(s), NEW m \in Node
  PROVE  /\ Engaged(m)' => Engaged(m) \/ (m = n /\ AsksInstall(n))
         /\ Begun(m, s)' => Begun(m, s) \/ Engaged(m)
<1>1. CASE m # n
  <2>1. SameNode(m)
    BY <1>1 DEF AgentEffect
  <2> QED
    BY <2>1 DEF SameNode, SameDisk, Engaged, Installing, Begun
<1>2. CASE m = n
  <2>1. CASE AsksPrefetch(n) \/ AsksInstall(n) \/ BreaksInstall(n) \/ Dies(n) \/ FindsNothing(n)
    BY <1>2, <2>1 DEF AsksPrefetch, AsksInstall, BreaksInstall, Dies, FindsNothing, Becomes, Posts,
       SameDisk, IdleAgent, Engaged, Installing, Begun
  <2>2. CASE StartsCopy(n) \/ EndsCopy(n) \/ BreaksCopy(n)
    BY <1>2, <2>2 DEF StartsCopy, EndsCopy, BreaksCopy, Becomes, Posts, Engaged, Installing, Begun
  <2>3. CASE StartsInstall(n) \/ EndsInstall(n)
    BY <1>2, <2>3 DEF StartsInstall, EndsInstall, Engaged, Installing
  <2> QED
    BY <2>1, <2>2, <2>3 DEF AgentEffect
<1> QED
  BY <1>1, <1>2

LEMMA LeafDrives ==
  ASSUME Base, NEW s \in Jobs, OnlyJob(s), LeafInv(s), NEW r \in Slots, Drives(r)
  PROVE  LeafInv(s)'
<1>a. /\ run[r].pc # "free" /\ Effect(r) /\ RunSpares
      /\ KnowsItself(r) /\ run[r].todo \subseteq Agents
  BY DEF Drives, Base, SelfInv, KnowsItself
<1>b. /\ UNCHANGED <<agent, wire, release>> /\ GivesUpMore
      /\ \A n \in Node : Engaged(n)' <=> Engaged(n)
  BY <1>a DEF RunSpares, agentVars, Engaged, Installing
<1>c. PhaseKept(r)
  BY <1>a, PhaseStep
<1>d. \A n \in Node : LeafFits(r, n, s)
  BY DEF LeafInv
<1>e. Controller \in Node /\ NULL \notin Node /\ Agents = Node \ {Controller} /\ Depth \in [Node -> Nat]
  BY NodeAssumption DEF Agents
<1>f. ~After(r) => \A n \in Node : Begun(n, s)' <=> Begun(n, s)
  <2>1. ASSUME ~After(r) PROVE UNCHANGED bin
    BY <1>a, <2>1 DEF Effect, Stages, Publishes, Moves, TimesOut, SetsMap, Switches, Skips, Rejects,
       Grants, Hears, StopsWaiting, Ungrants, EndsLoop, DoesController, Finishes, Clears, SameDB, After
  <2> QED
    BY <1>b, <2>1 DEF Begun
<1>g. \A n \in Node : n # Controller => (Begun(n, s)' <=> Begun(n, s))
  BY <1>b DEF Begun
<1>h. Install(r) \/ Prefetch(r) \/ Before(r) => ~After(r)
  BY DEF Install, Holder, Prefetch, Before, After
<1>i. ASSUME NEW q \in Slots \ {r}, NEW n \in Node PROVE LeafFits(q, n, s)'
  <2>1. ~Before(q)' /\ ~Prefetch(q)' /\ ~Install(q)'
    BY OthersFree
  <2> QED
    BY <2>1 DEF LeafFits
<1>j. ASSUME NEW n \in Node PROVE LeafFits(r, n, s)'
  <2>1. ASSUME Before(r)' PROVE Untouched(n)'
    <3>1. Stages(r)
      BY <1>c, <2>1 DEF PhaseKept
    <3> QED
      BY <1>b, <1>d, <3>1 DEF Stages, LeafFits, Untouched
  <2>2. ASSUME Before(r)' \/ Prefetch(r)' PROVE ~Begun(n, s)' /\ ~Engaged(n)'
    <3>1. Before(r) \/ Prefetch(r)
      BY <1>c, <2>2 DEF PhaseKept, Stages
    <3> QED
      BY <1>b, <1>d, <1>f, <1>h, <3>1 DEF LeafFits
  <2>3. ASSUME Install(r)' PROVE ~Begun(Controller, s)'
    <3>1. Prefetch(r) \/ Install(r)
      BY <1>c, <2>3 DEF PhaseKept, Switches
    <3> QED
      BY <1>d, <1>e, <1>f, <1>h, <3>1 DEF LeafFits
  <2>4. ASSUME Install(r)', Reached(n, s)'
        PROVE  /\ n \notin run'[r].todo
               /\ \A m \in run'[r].todo : Depth[m] <= Depth[n]
               /\ run'[r].pc = "wait" => Depth[run'[r].cur] <= Depth[n]
    <3>1. CASE Switches(r)
      BY <1>b, <1>d, <1>e, <1>f, <1>h, <2>4, <3>1 DEF Switches, LeafFits, Reached
    <3>2. CASE ~Switches(r)
      <4>1. Install(r) /\ run'[r].todo \subseteq run[r].todo /\ ~After(r)
        BY <1>c, <1>h, <2>4, <3>2 DEF PhaseKept
      <4>2. CASE Grants(r)
        <5>1. PICK g \in run[r].todo :
                /\ run'[r].pc = "wait" /\ run'[r].cur = g /\ run'[r].todo = run[r].todo \ {g}
                /\ \A m \in run[r].todo : Depth[m] <= Depth[g]
                /\ active # NULL => active' # NULL /\ active'.install = g
                /\ active = NULL => active' = NULL
          BY <4>2 DEF Grants
        <5>2. CASE n = g
          BY <1>a, <1>e, <5>1, <5>2
        <5>3. CASE n # g
          <6>1. Begun(n, s) \/ Engaged(n)
            BY <1>b, <1>f, <2>4, <4>1, <5>1, <5>3 DEF Reached
          <6> QED
            BY <1>d, <4>1, <5>1, <6>1 DEF LeafFits, Reached
        <5> QED
          BY <5>2, <5>3
      <4>3. CASE ~Grants(r)
        <5>1. run'[r].pc # "wait"
          BY <1>a, <3>2, <4>1, <4>3 DEF KnowsItself, Effect, Stages, Publishes, Moves, TimesOut, SetsMap,
             Skips, Rejects, Hears, StopsWaiting, Ungrants, EndsLoop, DoesController, Finishes,
             Clears, Before, Prefetch, Install, Holder, After
        <5>2. active' # NULL => active'.install = NULL \/ (active # NULL /\ active'.install = active.install)
          BY <1>a, <4>1, <4>3 DEF Effect, Stages, Publishes, Moves, TimesOut, SetsMap, Switches, Mapped,
             Skips, Rejects, Hears, StopsWaiting, Ungrants, EndsLoop, DoesController, Finishes, Clears
        <5>3. Reached(n, s)
          BY <1>b, <1>e, <1>f, <2>4, <4>1, <5>2 DEF Reached
        <5> QED
          BY <1>d, <4>1, <5>1, <5>3 DEF LeafFits
      <4> QED
        BY <4>2, <4>3
    <3> QED
      BY <3>1, <3>2
  <2> QED
    BY <2>1, <2>2, <2>3, <2>4 DEF LeafFits
<1> QED
  BY <1>b, <1>e, <1>i, <1>j DEF LeafInv

LEMMA LeafNext ==
  ASSUME Base, NEW s \in Jobs, OnlyJob(s), LeafInv(s),
         \/ Outside(s) \/ Restarts \/ Waits
         \/ \E r \in Slots : Drives(r)
         \/ \E n \in Node : AgentEffect(n) \/ DeliveryEffect(n)
  PROVE  LeafInv(s)'
<1> USE DEF dbVars, ctlVars, diskVars
<1>0. Controller \in Node /\ NULL \notin Node
  BY NodeAssumption
<1>1. CASE Outside(s) \/ Waits
  BY <1>1 DEF Outside, Waits, LeafInv, LeafFits, Before, Prefetch, Install, Holder, Untouched,
     Reached, Begun, Engaged, Installing
<1>2. CASE Restarts
  <2>1. \A r \in Slots : ~Before(r)' /\ ~Prefetch(r)' /\ ~Install(r)'
    BY <1>2 DEF Restarts, Before, Prefetch, Install, Holder
  <2>2. ~Engaged(Controller)'
    BY <1>0, <1>2 DEF Restarts, LeafInv, Engaged, Installing
  <2> QED
    BY <2>1, <2>2 DEF LeafInv, LeafFits
<1>3. ASSUME NEW r \in Slots, Drives(r) PROVE LeafInv(s)'
  BY <1>3, LeafDrives
<1>4. ASSUME NEW n \in Node, AgentEffect(n) PROVE LeafInv(s)'
  <2>1. UNCHANGED <<run, active, gaveUp>> /\ \A m \in Node : m # n => SameNode(m)
    BY <1>4 DEF AgentEffect
  <2>2. \A m \in Node : /\ Engaged(m)' => Engaged(m) \/ (m = n /\ AsksInstall(n))
                        /\ Begun(m, s)' => Begun(m, s) \/ Engaged(m)
    BY <1>4, AgentReaches
  <2>3. ~Engaged(Controller)'
    BY <2>2, <1>0 DEF LeafInv, AsksInstall, Agents
  <2>4. ASSUME NEW r \in Slots, NEW m \in Node PROVE LeafFits(r, m, s)'
    <3>0. LeafFits(r, m, s) /\ LeafFits(r, Controller, s) /\ LeafFits(r, n, s)
      BY <1>0 DEF LeafInv
    <3>a. /\ Before(r)' <=> Before(r)
          /\ Prefetch(r)' <=> Prefetch(r)
          /\ Install(r)' <=> Install(r)
      BY <2>1 DEF Before, Prefetch, Install, Holder
    <3>b. run[r].pc # "free" => /\ Before(r) => active = NULL
                                /\ active # NULL /\ active.install # NULL => Holder(r)
      BY Whereabouts
    <3>c. AsksInstall(n) => active # NULL /\ active.install = n
      BY DEF AsksInstall
    <3>d. ~Begun(Controller, s) => ~Begun(Controller, s)'
      BY <1>0, <2>2 DEF LeafInv
    <3>1. ASSUME Before(r) PROVE Untouched(m)'
      <4>1. active = NULL /\ Untouched(n) /\ Untouched(m)
        BY <3>0, <3>1, <3>b DEF LeafFits, Before
      <4>2. Dies(n)
        BY <1>4, <4>1 DEF Untouched, AgentEffect, AsksPrefetch, AsksInstall, StartsCopy, EndsCopy,
           BreaksCopy, FindsNothing, StartsInstall, EndsInstall, BreaksInstall
      <4> QED
        BY <2>1, <4>1, <4>2 DEF Untouched, Dies, SameNode, IdleAgent
    <3>2. ASSUME Before(r) \/ Prefetch(r) PROVE ~Begun(m, s)' /\ ~Engaged(m)'
      <4>1. ~AsksInstall(n)
        BY <1>0, <3>2, <3>b, <3>c DEF Before, Prefetch, Holder
      <4> QED
        BY <2>2, <3>0, <3>2, <4>1 DEF LeafFits
    <3>3. Install(r) /\ Reached(m, s)' => Reached(m, s)
      BY <2>1, <2>2, <3>c DEF Reached
    <3> QED
      BY <2>1, <3>0, <3>a, <3>d, <3>1, <3>2, <3>3 DEF LeafFits
  <2> QED
    BY <2>3, <2>4 DEF LeafInv
<1>5. ASSUME NEW n \in Node, DeliveryEffect(n) PROVE LeafInv(s)'
  <2>1. /\ UNCHANGED <<run, agent, gaveUp, release, bin>> /\ wire[n] # NULL
        /\ \A m \in Node : m # n => wire'[m] = wire[m]
        /\ wire'[n] # NULL => wire'[n].status = wire[n].status
    BY <1>5 DEF DeliveryEffect, Stores, Applies, Loses
  <2>2. /\ active' = NULL <=> active = NULL
        /\ active # NULL => active'.install = active.install
    BY <1>5 DEF DeliveryEffect, Stores, Applies, Loses, Mapped
  <2>3. \A m \in Node : (Engaged(m)' => Engaged(m)) /\ (Begun(m, s)' <=> Begun(m, s))
    BY <2>1 DEF Engaged, Installing, Begun
  <2>4. ASSUME NEW r \in Slots, NEW m \in Node PROVE LeafFits(r, m, s)'
    <3>1. /\ Before(r)' <=> Before(r)
          /\ Prefetch(r)' <=> Prefetch(r)
          /\ Install(r)' <=> Install(r)
      BY <2>1 DEF Before, Prefetch, Install, Holder
    <3>2. LeafFits(r, m, s) /\ LeafFits(r, n, s)
      BY DEF LeafInv
    <3>3. ~Before(r)
      BY <2>1, <3>2 DEF LeafFits, Untouched
    <3>4. Reached(m, s)' => Reached(m, s)
      BY <2>2, <2>3 DEF Reached
    <3> QED
      BY <1>0, <2>1, <2>3, <3>1, <3>2, <3>3, <3>4 DEF LeafFits
  <2> QED
    BY <1>0, <2>3, <2>4 DEF LeafInv
<1> QED
  BY <1>1, <1>2, <1>3, <1>4, <1>5

LEMMA LeafHolds ==
  ASSUME Base, NEW s \in Jobs, OnlyJob(s), LeafInv(s)
  PROVE  LeafFirst
<1> SUFFICES ASSUME NEW m \in Agents, NEW n \in Node, Depth[m] > Depth[n], Installing(m),
                    Begun(n, agent[m].job), "install" \notin gaveUp[m]
             PROVE  FALSE
  BY DEF LeafFirst
<1>1. m \in Node /\ agent[m].job = s /\ Engaged(m)
  BY DEF Agents, OnlyJob, Installing, Engaged
<1>2. PICK r \in Slots : run[r].pc = "wait"
  BY <1>1 DEF Base, SerialInv, NodeSerial, Authorized
<1>3. run[r].cur = m /\ Install(r)
  BY <1>1, <1>2, Whereabouts DEF Install, Holder
<1>4. Depth[m] <= Depth[n]
  BY <1>1, <1>2, <1>3 DEF LeafInv, LeafFits, Reached
<1> QED
  BY <1>1, <1>4, NodeAssumption

-----------------------------------------------------------------------------
(* A success is final.  Once the row of an agent says Completed the agent  *)
(* rests and will not be asked again: the map is in the install phase and  *)
(* holds, or is about to hold, a verdict about the agent, and no goroutine *)
(* will visit it any more.                                                 *)

Visited(n) == \A r \in Slots : ~Prefetch(r) /\ (Install(r) => n \notin run[r].todo)

RowDone(n, s) ==
  target[s][n] = "Completed" =>
    /\ agent[n].pc = "idle"
    /\ wire[n] # NULL => wire[n].status = "Completed" /\ wire[n].stored
    /\ Visited(n) /\ \A r \in Slots : ~Before(r)
    /\ active # NULL =>
         /\ active.phase = "install"
         /\ wire[n] = NULL => active.status[n] \in {"Completed", "InstallFailed"}

MapDone(n) == active # NULL /\ active.status[n] = "Completed" => Visited(n)

DoneInv(s) ==
  /\ \A r \in Slots : After(r) => active.phase = "install"
  /\ \A r \in Slots, n \in Agents : Before(r) => run[r].snap[n] \in Pristine
  /\ \A n \in Agents : RowDone(n, s) /\ MapDone(n)

LEMMA DoneBegins ==
  ASSUME Fresh, NEW s \in Jobs, Begins(s) PROVE DoneInv(s)'
<1>1. \A n \in Agents : n \in Node /\ target'[s][n] \in Pristine /\ target'[s][n] = target[s][n]
  BY DEF Fresh, Begins, Undriven, Agents
<1>2. active' = NULL
  BY DEF Fresh, Begins
<1>3. \A r \in Slots : ~After(r)'
  BY DEF Begins, After
<1>4. \A r \in Slots, n \in Agents : Before(r)' => run'[r].snap[n] \in Pristine
  BY <1>1 DEF Begins, Before
<1> QED
  BY <1>1, <1>2, <1>3, <1>4 DEF DoneInv, RowDone, MapDone, Pristine, NoRow

\* No row of an agent becomes Completed by a step of a goroutine, and none
\* that is Completed is overwritten, except by one that stops waiting.
LEMMA DrivenRows ==
  ASSUME Base, NEW s \in Jobs, OnlyJob(s), DoneInv(s), NEW r \in Slots, Drives(r), NEW n \in Agents
  PROVE  /\ target'[s][n] = "Completed" => target[s][n] = "Completed"
         /\ target[s][n] = "Completed" /\ target'[s][n] # "Completed" => "install" \in gaveUp'[n]
         /\ \A j \in Jobs \ {s} : target'[j][n] = target[j][n]
<1>1. run[r].job = s /\ KnowsItself(r) /\ Effect(r)
  BY DEF Drives, OnlyJob, Base, SelfInv
<1>2. RowKept(r, n)
  BY <1>1, RowStep
<1>3. target[s][n] = "Completed" => ~Prefetch(r) /\ ~(Install(r) /\ n \in run[r].todo)
  BY DEF DoneInv, RowDone, Visited
<1> QED
  BY <1>1, <1>2, <1>3 DEF RowKept

LEMMA VisitedKept ==
  ASSUME Base, NEW s \in Jobs, OnlyJob(s), NEW r \in Slots, Drives(r), NEW n \in Agents,
         Visited(n), ~Before(r)
  PROVE  Visited(n)' /\ \A q \in Slots : ~Before(q)'
<1>1. PhaseKept(r)
  BY PhaseStep DEF Drives, Base, SelfInv
<1>2. ~Prefetch(r) /\ ~Before(r)
  BY DEF Visited
<1>3. ~Prefetch(r)' /\ ~Before(r)'
  BY <1>1, <1>2 DEF PhaseKept, Stages
<1>4. Install(r)' => n \notin run'[r].todo
  BY <1>1, <1>2 DEF PhaseKept, Switches, Visited
<1> QED
  BY <1>3, <1>4, OthersFree DEF Visited

LEMMA DoneDrives ==
  ASSUME Base, NEW s \in Jobs, OnlyJob(s), DoneInv(s), NEW r \in Slots, Drives(r)
  PROVE  DoneInv(s)'
<1>a. run[r].pc # "free" /\ Effect(r) /\ KnowsItself(r) /\ UNCHANGED <<agent, wire>>
  BY DEF Drives, Base, SelfInv, RunSpares, agentVars
<1>b. PhaseKept(r)
  BY <1>a, PhaseStep
<1>c. /\ Before(r) => active = NULL
      /\ ~Before(r) => active # NULL
      /\ Install(r) => active.phase = "install"
  BY <1>a, Whereabouts
<1>d. Before(r) => ~After(r) /\ ~Prefetch(r) /\ ~Install(r)
  BY DEF Before, After, Prefetch, Install, Holder
<1>e. ASSUME active # NULL, active.phase = "install", active' # NULL, ~Publishes(r)
      PROVE  active'.phase = "install"
  BY <1>a, <1>e DEF Effect, Stages, Moves, TimesOut, SetsMap, Switches, Skips, Rejects, Mapped,
     Grants, Hears, StopsWaiting, Ungrants, EndsLoop, DoesController, Finishes, Clears
<1>f. Publishes(r) => Before(r)
  BY DEF Publishes
<1>1. \A q \in Slots : After(q)' => active'.phase = "install"
  <2>1. ASSUME After(r)' PROVE active'.phase = "install"
    <3>1. EndsLoop(r) \/ After(r)
      BY <1>b, <2>1 DEF PhaseKept
    <3>2. active # NULL /\ active.phase = "install" /\ ~Publishes(r)
      BY <1>c, <1>d, <1>f, <3>1 DEF DoneInv, EndsLoop, Install, Before
    <3>3. active' # NULL
      BY <1>a, <2>1, <3>1, <3>2 DEF After, Effect, Stages, Moves, TimesOut, SetsMap, Switches, Skips, Rejects, Mapped,
         Grants, Hears, StopsWaiting, Ungrants, EndsLoop, DoesController, Finishes, Clears
    <3> QED
      BY <1>e, <3>2, <3>3
  <2> QED
    BY <2>1, OthersFree
<1>2. \A q \in Slots, n \in Agents : Before(q)' => run'[q].snap[n] \in Pristine
  <2>1. ASSUME NEW n \in Agents, Before(r)' PROVE run'[r].snap[n] \in Pristine
    BY <1>b, <2>1 DEF PhaseKept, Stages, DoneInv
  <2> QED
    BY <2>1, OthersFree
<1>3. ASSUME NEW n \in Agents PROVE RowDone(n, s)' /\ MapDone(n)'
  <2>a. MapKept(r, n)
    BY <1>a, MapStep
  <2>b. RowDone(n, s) /\ MapDone(n)
    BY DEF DoneInv
  <2>1. ASSUME target'[s][n] = "Completed" PROVE RowDone(n, s)'
    <3>1. target[s][n] = "Completed"
      BY <2>1, DrivenRows
    <3>2. ~Before(r) /\ ~Prefetch(r) /\ Visited(n) /\ ~Publishes(r)
      BY <1>f, <2>b, <3>1 DEF RowDone, Visited
    <3>3. Visited(n)' /\ \A q \in Slots : ~Before(q)'
      BY <3>2, VisitedKept
    <3>4. ASSUME active' # NULL
          PROVE  /\ active'.phase = "install"
                 /\ wire'[n] = NULL => active'.status[n] \in {"Completed", "InstallFailed"}
      BY <1>a, <1>c, <1>e, <2>a, <2>b, <3>1, <3>2, <3>4 DEF RowDone, MapKept
    <3> QED
      BY <1>a, <2>b, <3>1, <3>3, <3>4 DEF RowDone
  <2>2. ASSUME active' # NULL, active'.status[n] = "Completed" PROVE Visited(n)'
    <3>1. ~Publishes(r)
      BY <2>2 DEF Publishes, DoneInv, Pristine, Unset, Agents
    <3>2. active # NULL /\ active.status[n] = "Completed"
      BY <2>2, <2>a, <3>1 DEF MapKept
    <3> QED
      BY <1>c, <2>b, <3>2, VisitedKept DEF MapDone
  <2> QED
    BY <2>1, <2>2 DEF RowDone, MapDone
<1> QED
  BY <1>1, <1>2, <1>3 DEF DoneInv

LEMMA DoneNext ==
  ASSUME Base, NEW s \in Jobs, OnlyJob(s), LeafInv(s), DoneInv(s),
         \/ Outside(s) \/ Restarts \/ Waits
         \/ \E r \in Slots : Drives(r)
         \/ \E n \in Node : AgentEffect(n) \/ DeliveryEffect(n)
  PROVE  DoneInv(s)'
<1> USE DEF dbVars, ctlVars, diskVars
<1>a. Agents \subseteq Node
  BY DEF Agents
\* Whoever leaves the goroutines and the map alone changes nothing here but
\* what it does to the agent and to the row.
<1>b. ASSUME UNCHANGED <<run, active>>,
             \A n \in Agents : target'[s][n] = "Completed" =>
               /\ target[s][n] = "Completed"
               /\ agent'[n].pc = "idle" /\ wire'[n] = wire[n]
      PROVE  DoneInv(s)'
  BY <1>b DEF DoneInv, RowDone, MapDone, Visited, Before, Prefetch, Install, Holder, After
<1>1. CASE Outside(s) \/ Waits
  <2>1. \A n \in Agents : target'[s][n] = "Completed" => target[s][n] = "Completed"
    BY <1>1 DEF Outside, Waits, Pristine, NoRow
  <2> QED
    BY <1>1, <1>a, <1>b, <2>1 DEF Outside, Waits, DoneInv, RowDone
<1>2. CASE Restarts
  <2>1. \A r \in Slots : ~Before(r)' /\ ~Prefetch(r)' /\ ~Install(r)' /\ ~After(r)'
    BY <1>2 DEF Restarts, Before, Prefetch, Install, Holder, After
  <2> QED
    BY <1>2, <1>a, <2>1 DEF Restarts, DoneInv, RowDone, MapDone, Visited
<1>3. ASSUME NEW r \in Slots, Drives(r) PROVE DoneInv(s)'
  BY <1>3, DoneDrives
<1>4. ASSUME NEW n \in Node, AgentEffect(n) PROVE DoneInv(s)'
  <2>1. UNCHANGED <<run, active, target>> /\ \A m \in Node : m # n => SameNode(m)
    BY <1>4 DEF AgentEffect
  <2>2. ASSUME n \in Agents, target[s][n] = "Completed"
        PROVE  agent'[n].pc = "idle" /\ wire'[n] = wire[n]
    <3>1. RowDone(n, s)
      BY <2>2 DEF DoneInv
    <3>2. ~AsksPrefetch(n)
      BY <2>2, <3>1 DEF RowDone, AsksPrefetch
    <3>3. ~AsksInstall(n)
      BY <2>2, <3>1 DEF RowDone, AsksInstall
    <3>4. Dies(n)
      BY <1>4, <2>2, <3>1, <3>2, <3>3 DEF RowDone, AgentEffect, StartsCopy, EndsCopy,
         BreaksCopy, FindsNothing, StartsInstall, EndsInstall, BreaksInstall
    <3> QED
      BY <3>4 DEF Dies, IdleAgent
  <2>3. \A m \in Agents : m # n /\ target[s][m] = "Completed" =>
          agent'[m].pc = "idle" /\ wire'[m] = wire[m]
    BY <1>a, <2>1 DEF DoneInv, RowDone, SameNode
  <2> QED
    BY <1>b, <2>1, <2>2, <2>3
<1>5. ASSUME NEW n \in Node, DeliveryEffect(n) PROVE DoneInv(s)'
  <2>1. /\ UNCHANGED <<run, agent>> /\ wire[n] # NULL /\ wire[n].job = s
        /\ \A m \in Node : m # n => wire'[m] = wire[m]
    BY <1>5 DEF DeliveryEffect, Stores, Applies, Loses, OnlyJob
  <2>a. \A r \in Slots : /\ Before(r)' <=> Before(r)
                         /\ Prefetch(r)' <=> Prefetch(r)
                         /\ Install(r)' <=> Install(r)
                         /\ After(r)' <=> After(r)
    BY <2>1 DEF Before, Prefetch, Install, Holder, After
  \* A report about the end of an installation finds the node visited.
  <2>2. ASSUME wire[n].status = "Completed"
        PROVE  Visited(n) /\ agent[n].pc = "idle" /\ (\A r \in Slots : ~Before(r))
               /\ (active # NULL => active.phase = "install")
    <3>1. Engaged(n)
      BY <2>1, <2>2 DEF Engaged
    <3>2. \A r \in Slots : LeafFits(r, n, s)
      BY DEF LeafInv
    <3>3. Visited(n) /\ \A r \in Slots : ~Before(r)
      BY <3>1, <3>2 DEF LeafFits, Visited, Reached
    <3>4. agent[n].pc = "idle"
      <4>1. agent[n].pc \in {"idle", "prefetch", "copy", "install", "stage"} /\ WireFits(n)
        BY DEF Base, TypeInv, TypeOK, SerialInv, NodeSerial
      <4> QED
        BY <2>1, <2>2, <4>1 DEF WireFits
    <3>5. active # NULL => active.phase = "install"
      <4>1. ASSUME active # NULL PROVE active.phase = "install"
        <5>1. PICK r \in Slots : run[r].pc # "free" /\ ~Before(r)
          BY <4>1 DEF Base, SerialInv, RunSerial
        <5>2. Install(r) \/ After(r)
          BY <3>3, <5>1, Whereabouts DEF Visited
        <5> QED
          BY <5>1, <5>2, Whereabouts DEF DoneInv
      <4> QED
        BY <4>1
    <3> QED
      BY <3>3, <3>4, <3>5
  <2>b. \A m \in Agents : RowDone(m, s) /\ MapDone(m)
    BY DEF DoneInv
  <2>3. CASE Stores(n)
    <3>1. UNCHANGED active /\ wire'[n].stored /\ wire'[n].status = wire[n].status
      BY <2>3 DEF Stores
    <3>2. \A m \in Agents : target'[s][m] = IF m = n /\ target[s][m] # NoRow THEN wire[n].status
                                           ELSE target[s][m]
      BY <1>a, <2>1, <2>3 DEF Stores, Stored
    <3>3. ASSUME NEW m \in Agents PROVE RowDone(m, s)' /\ MapDone(m)'
      <4>1. Visited(m)' <=> Visited(m)
        BY <2>1, <2>a DEF Visited
      <4>2. MapDone(m)'
        BY <2>b, <3>1, <4>1 DEF MapDone
      <4>3. CASE m # n
        <5>1. wire'[m] = wire[m] /\ target'[s][m] = target[s][m]
          BY <1>a, <2>1, <3>2, <4>3
        <5> QED
          BY <2>1, <2>a, <2>b, <3>1, <4>1, <4>2, <5>1 DEF RowDone
      <4>4. CASE m = n
        <5>1. ASSUME target'[s][n] = "Completed" PROVE wire[n].status = "Completed"
          BY <3>2, <4>4, <5>1 DEF NoRow
        <5>2. wire[n] # NULL /\ wire'[n] # NULL
          BY <2>3 DEF Stores
        <5> QED
          BY <2>1, <2>2, <2>a, <3>1, <4>1, <4>2, <4>4, <5>1, <5>2 DEF RowDone
      <4> QED
        BY <4>3, <4>4
    <3> QED
      BY <2>1, <2>a, <3>1, <3>3 DEF DoneInv
  <2>4. CASE Applies(n)
    <3>1. UNCHANGED target /\ wire'[n] = NULL
      BY <2>4 DEF Applies
    <3>2. /\ active' = NULL <=> active = NULL
          /\ active # NULL =>
               /\ active'.phase = active.phase
               /\ \A m \in Agents : m # n => active'.status[m] = active.status[m]
               /\ active'.status[n] = wire[n].status
      BY <1>a, <2>1, <2>4 DEF Applies, Mapped, OnlyJob
    <3>3. ASSUME NEW m \in Agents PROVE RowDone(m, s)' /\ MapDone(m)'
      <4>1. Visited(m)' <=> Visited(m)
        BY <2>1, <2>a DEF Visited
      <4>2. MapDone(m)'
        BY <2>2, <2>b, <3>2, <4>1 DEF MapDone
      <4>3. CASE m # n
        BY <1>a, <2>1, <2>a, <2>b, <3>1, <3>2, <4>1, <4>2, <4>3 DEF RowDone
      <4>4. CASE m = n
        BY <2>1, <2>a, <2>b, <3>1, <3>2, <4>1, <4>2, <4>4 DEF RowDone
      <4> QED
        BY <4>3, <4>4
    <3>4. \A r \in Slots : After(r)' => active'.phase = "install"
      <4>1. \A r \in Slots : After(r) => active # NULL
        BY Whereabouts DEF After, Before
      <4> QED
        BY <2>a, <3>2, <4>1 DEF DoneInv
    <3> QED
      BY <2>1, <2>a, <3>3, <3>4 DEF DoneInv
  <2>5. CASE Loses(n)
    <3>1. \A m \in Agents : target[s][m] = "Completed" => agent[m].pc = "idle" /\ m # n
      BY <2>5, <2>b DEF RowDone, Loses
    <3> QED
      BY <1>a, <1>b, <2>1, <2>5, <3>1 DEF Loses
  <2> QED
    BY <1>5, <2>3, <2>4, <2>5 DEF DeliveryEffect
<1> QED
  BY <1>1, <1>2, <1>3, <1>4, <1>5

\* The step itself: what happens to a success that is recorded.
LEMMA DoneSticks ==
  ASSUME Base, NEW s \in Jobs, OnlyJob(s), DoneInv(s), RowsLeftAlone', rollback = NULL,
         \/ Outside(s) \/ Restarts \/ Waits
         \/ \E r \in Slots : Drives(r)
         \/ \E n \in Node : AgentEffect(n) \/ DeliveryEffect(n),
         NEW j \in Jobs, NEW n \in Agents, target[j][n] = "Completed", target'[j][n] # "Completed"
  PROVE  "install" \in gaveUp'[n]
<1> USE DEF dbVars
<1>a. j = s /\ Agents \subseteq Node
  BY DEF OnlyJob, Undriven, Pristine, NoRow, Agents
<1>1. CASE Outside(s)
  BY <1>a, <1>1 DEF Outside, RolledBack
<1>2. CASE Restarts \/ Waits
  BY <1>2 DEF Restarts, Waits
<1>3. ASSUME NEW r \in Slots, Drives(r) PROVE "install" \in gaveUp'[n]
  BY <1>a, <1>3, DrivenRows
<1>4. ASSUME NEW m \in Node, AgentEffect(m) PROVE FALSE
  BY <1>4 DEF AgentEffect
<1>5. ASSUME NEW m \in Node, DeliveryEffect(m) PROVE FALSE
  <2>1. RowDone(n, s)
    BY DEF DoneInv
  <2>2. Stores(m) /\ m = n
    BY <1>5, <1>a DEF DeliveryEffect, Stores, Applies, Loses, Stored, OnlyJob
  <2> QED
    BY <1>a, <2>1, <2>2 DEF Stores, RowDone
<1> QED
  BY <1>1, <1>2, <1>3, <1>4, <1>5

-----------------------------------------------------------------------------
(* Without rollbacks and deletions the rows of a job that was not started  *)
(* wait, and from its start on row and map of an agent that no goroutine   *)
(* overruled differ only while a report is between the two.                *)

WaitingRows == \A j \in Jobs : jobStatus[j] # "none" => \A n \in Agents : target[j][n] = "Waiting"

RowsInv == RowsLeftAlone => /\ rollback = NULL /\ alive = Node
                            /\ used["starts"] = 0 => WaitingRows

LEMMA RowsInit == Init => RowsInv
  BY DEF Init, RowsInv, WaitingRows

LEMMA RowsNext ==
  ASSUME Base, used["starts"] = 0 => Fresh, RowsInv, Undisturbed', [Next]_vars
  PROVE  RowsInv'
<1> USE DEF dbVars, ctlVars, agentVars, diskVars
<1> SUFFICES ASSUME RowsLeftAlone'
             PROVE  /\ rollback' = NULL /\ alive' = Node
                    /\ used'["starts"] = 0 => WaitingRows'
  BY DEF RowsInv
<1> DEFINE Goal == /\ rollback' = NULL /\ alive' = Node
                   /\ used'["starts"] = 0 => WaitingRows'
<1>a. used \in [Counters -> Nat] /\ target \in [Jobs -> [Node -> TargetStatus \cup {NoRow}]]
      /\ jobStatus \in [Jobs -> JobStatus] /\ Agents \subseteq Node
      /\ \A k \in Counters : used[k] \in Nat
  BY DEF Base, TypeInv, TypeOK, Agents
<1>b. ASSUME NEW k \in Counters, NEW limit, Spend(k, limit)
      PROVE  /\ \A i \in Counters : used'[i] = IF i = k THEN used[i] + 1 ELSE used[i]
             /\ RowsLeftAlone /\ k \notin {"rollbacks", "deletes"}
  <2>1. \A i \in Counters : used'[i] = IF i = k THEN used[i] + 1 ELSE used[i]
    BY <1>a, <1>b, SpendEffect
  <2> QED
    BY <1>a, <2>1 DEF Counters, RowsLeftAlone
<1>c. ASSUME RowsLeftAlone, used'["starts"] = used["starts"],
             used["starts"] = 0 => UNCHANGED <<jobStatus, target>>,
             UNCHANGED alive, rollback' \in {rollback, NULL}
      PROVE  Goal
  BY <1>c DEF RowsInv, WaitingRows
<1>d. UNCHANGED used => RowsLeftAlone
  BY DEF RowsLeftAlone
<1>e. used["starts"] = 0 => /\ \A r \in Slots : run[r].pc = "free"
                            /\ Running = {} /\ \A n \in Node : wire[n] = NULL
  BY DEF Fresh, Untouched, Undriven, Running
<1>1. ASSUME NEW j \in Jobs, CreateUpdate(j) PROVE Goal
  <2>1. RowsLeftAlone /\ alive = Node
    BY <1>1, <1>d DEF CreateUpdate, RowsInv
  <2> QED
    BY <1>1, <1>a, <2>1 DEF CreateUpdate, RowsInv, WaitingRows
<1>2. ASSUME NEW j \in Jobs, StartUpdate(j) PROVE Goal
  <2>1. RowsLeftAlone /\ used'["starts"] # 0
    BY <1>2, <1>a, <1>b DEF StartUpdate, Counters
  <2> QED
    BY <1>2, <2>1 DEF StartUpdate, RowsInv
<1>3. ASSUME NEW j \in Jobs, RollbackUpdate(j) PROVE FALSE
  BY <1>3, <1>b DEF RollbackUpdate, Counters
<1>4. ASSUME RollbackTarget \/ RollbackDone PROVE FALSE
  BY <1>4, <1>d DEF RollbackTarget, RollbackDone, RowsInv
<1>5. ASSUME NEW n \in Node, DeleteNode(n) PROVE FALSE
  BY <1>5, <1>b DEF DeleteNode, Counters
<1>6. CASE ControllerRestart
  <2>1. RowsLeftAlone /\ used'["starts"] = used["starts"]
    BY <1>6, <1>b, <1>d DEF ControllerRestart, Counters
  <2> QED
    BY <1>6, <1>c, <2>1 DEF ControllerRestart
<1>7. CASE Resume
  BY <1>7, <1>c, <1>d, <1>e DEF Resume
<1>8. ASSUME NEW r \in Slots, Orchestrator(r) \/ Deadline(r) PROVE Goal
  <2>1. Drives(r)
    BY <1>8, DrivesStep
  <2> QED
    BY <1>c, <1>e, <2>1 DEF Drives, RunSpares, Spends, RowsLeftAlone
<1>9. ASSUME NEW n \in Node, AgentStep(n) PROVE Goal
  <2>1. AgentEffect(n)
    BY <1>9, AgentEffects DEF Base
  <2> QED
    BY <1>c, <2>1 DEF AgentEffect, RowsLeftAlone
<1>10. ASSUME NEW n \in Node, Delivery(n) PROVE Goal
  <2>1. DeliveryEffect(n)
    BY <1>10, DeliveryEffects DEF Base
  <2> QED
    BY <1>c, <1>d, <1>e, <2>1 DEF DeliveryEffect, Stores, Applies, Loses
<1>11. CASE UNCHANGED vars
  BY <1>11, <1>c, <1>d DEF vars
<1> QED
  BY <1>1, <1>2, <1>3, <1>4, <1>5, <1>6, <1>7, <1>8, <1>9, <1>10, <1>11 DEF Next, Operator

Agree(n, s) ==
  active # NULL =>
    IF wire[n] # NULL /\ wire[n].stored
    THEN target[s][n] = wire[n].status
    ELSE target[s][n] = IF active.status[n] = Unset THEN "Waiting" ELSE active.status[n]

MatchInv(s) ==
  /\ \A n \in Agents : target[s][n] # NoRow
  /\ \A n \in Decidable : Agree(n, s)
  /\ \A r \in Slots, n \in Agents : Before(r) => run[r].snap[n] = "Waiting" /\ target[s][n] = "Waiting"

LEMMA MatchBegins ==
  ASSUME Fresh, WaitingRows, NEW s \in Jobs, Begins(s) PROVE MatchInv(s)'
<1>1. \A n \in Agents : n \in Node /\ target[s][n] = "Waiting" /\ target'[s][n] = target[s][n]
  BY DEF WaitingRows, Begins, Agents
<1>2. active' = NULL
  BY DEF Fresh, Begins
<1>3. \A r \in Slots, n \in Agents : Before(r)' => run'[r].snap[n] = target[s][n]
  BY <1>1 DEF Begins, Before
<1> QED
  BY <1>1, <1>2, <1>3 DEF MatchInv, Agree, NoRow

\* An agent only posts a report when none is on its way.
LEMMA AgentPosts ==
  ASSUME Base, NEW n \in Node, AgentEffect(n)
  PROVE  wire'[n] = wire[n] \/ (wire[n] = NULL /\ ~wire'[n].stored)
<1>1. wire[n] # NULL => agent[n].pc \notin {"copy", "stage"}
  BY DEF Base, SerialInv, NodeSerial, WireFits
<1> QED
  BY <1>1 DEF AgentEffect, AsksPrefetch, AsksInstall, StartsCopy, EndsCopy, BreaksCopy,
     FindsNothing, StartsInstall, EndsInstall, BreaksInstall, Dies, Posts

LEMMA MatchNext ==
  ASSUME Base, NEW s \in Jobs, OnlyJob(s), LeafInv(s), MatchInv(s), RowsLeftAlone', rollback = NULL,
         \/ Outside(s) \/ Restarts \/ Waits
         \/ \E r \in Slots : Drives(r)
         \/ \E n \in Node : AgentEffect(n) \/ DeliveryEffect(n)
  PROVE  MatchInv(s)'
<1> USE DEF dbVars, ctlVars, diskVars
<1>a. Agents \subseteq Node /\ Decidable \subseteq Agents
  BY DEF Agents, Decidable
<1>b. ASSUME UNCHANGED <<run, gaveUp>>, \A n \in Agents : target'[s][n] = target[s][n],
             \A n \in Decidable : Agree(n, s)'
      PROVE  MatchInv(s)'
  BY <1>b DEF MatchInv, Before, Decidable
<1>1. CASE Outside(s) \/ Waits
  <2>1. \A n \in Agents : target'[s][n] = target[s][n]
    BY <1>1 DEF Outside, Waits, RolledBack
  <2> QED
    BY <1>1, <1>a, <1>b, <2>1 DEF Outside, Waits, MatchInv, Agree
<1>2. CASE Restarts
  <2>1. \A r \in Slots : ~Before(r)'
    BY <1>2 DEF Restarts, Before
  <2> QED
    BY <1>2, <2>1 DEF Restarts, MatchInv, Agree
<1>3. ASSUME NEW r \in Slots, Drives(r) PROVE MatchInv(s)'
  <2>a. /\ run[r].pc # "free" /\ Effect(r) /\ KnowsItself(r) /\ UNCHANGED wire /\ run[r].job = s
        /\ GivesUpMore
    BY <1>3 DEF Drives, Base, SelfInv, RunSpares, agentVars, OnlyJob
  <2>b. PhaseKept(r) /\ \A n \in Agents : RowKept(r, n) /\ MapKept(r, n)
    BY <2>a, PhaseStep, RowStep, MapStep
  <2>1. \A n \in Agents : target'[s][n] # NoRow
    BY <2>a, <2>b DEF MatchInv, RowKept, NoRow
  <2>2. ASSUME NEW n \in Agents, gaveUp'[n] = {} PROVE Agree(n, s)'
    <3>1. gaveUp[n] = {} /\ n \in Decidable /\ n \in Node
      BY <1>a, <2>a, <2>2 DEF GivesUpMore, Decidable
    <3>2. target'[s][n] = target[s][n]
      BY <2>2, <2>a, <2>b DEF RowKept
    <3>3. CASE Publishes(r)
      <4>1. Before(r) /\ Untouched(n)
        BY <3>1, <3>3 DEF Publishes, LeafInv, LeafFits
      <4>2. run[r].snap[n] = "Waiting" /\ target[s][n] = "Waiting"
        BY <4>1 DEF MatchInv
      <4>3. active'.status[n] = Unset
        BY <3>1, <3>3, <4>2 DEF Publishes
      <4> QED
        BY <2>a, <3>2, <4>1, <4>2, <4>3 DEF Untouched, Agree
    <3>4. CASE ~Publishes(r)
      BY <2>a, <2>b, <3>1, <3>2, <3>4 DEF MapKept, MatchInv, Agree
    <3> QED
      BY <3>3, <3>4
  <2>3. ASSUME NEW n \in Agents, Before(r)'
        PROVE  run'[r].snap[n] = "Waiting" /\ target'[s][n] = "Waiting"
    BY <2>3, <2>b DEF PhaseKept, Stages, MatchInv
  <2>4. \A q \in Slots, n \in Agents : Before(q)' => run'[q].snap[n] = "Waiting" /\ target'[s][n] = "Waiting"
    BY <1>3, <2>3, OthersFree
  <2> QED
    BY <2>1, <2>2, <2>4 DEF MatchInv, Decidable
<1>4. ASSUME NEW n \in Node, AgentEffect(n) PROVE MatchInv(s)'
  <2>1. UNCHANGED <<run, gaveUp, target, active>> /\ \A m \in Node : m # n => wire'[m] = wire[m]
    BY <1>4 DEF AgentEffect, SameNode
  <2>2. wire'[n] = wire[n] \/ (wire[n] = NULL /\ ~wire'[n].stored)
    BY <1>4, AgentPosts
  <2>3. \A m \in Decidable : Agree(m, s)'
    BY <1>a, <2>1, <2>2 DEF MatchInv, Agree
  <2> QED
    BY <1>b, <2>1, <2>3
<1>5. ASSUME NEW n \in Node, DeliveryEffect(n) PROVE MatchInv(s)'
  <2>1. /\ UNCHANGED <<run, gaveUp>> /\ wire[n] # NULL /\ wire[n].job = s
        /\ wire[n].status \in Reported
        /\ \A m \in Node : m # n => wire'[m] = wire[m]
    BY <1>5 DEF DeliveryEffect, Stores, Applies, Loses, OnlyJob, Base, TypeInv, TypeOK, Report
  <2>2. \A r \in Slots : ~Before(r)
    BY <2>1 DEF LeafInv, LeafFits, Untouched
  <2>3. CASE Stores(n)
    <3>1. \A m \in Agents : target'[s][m] = IF m = n THEN wire[n].status ELSE target[s][m]
      BY <1>a, <2>1, <2>3 DEF Stores, Stored, MatchInv
    <3>2. UNCHANGED active /\ wire'[n] # NULL /\ wire'[n].stored /\ wire'[n].status = wire[n].status
      BY <2>3 DEF Stores
    <3>3. \A m \in Decidable : Agree(m, s)'
      BY <1>a, <2>1, <3>1, <3>2 DEF MatchInv, Agree
    <3>4. \A m \in Agents : target'[s][m] # NoRow
      BY <2>1, <3>1 DEF MatchInv, Reported, NoRow
    <3> QED
      BY <2>1, <2>2, <3>3, <3>4 DEF MatchInv, Before, Decidable
  <2>4. CASE Applies(n)
    <3>1. UNCHANGED target /\ wire'[n] = NULL /\ wire[n].stored
      BY <2>4 DEF Applies
    <3>2. active' # NULL => /\ active # NULL
                            /\ \A m \in Node : active'.status[m] = IF m = n THEN wire[n].status
                                                                  ELSE active.status[m]
      BY <2>1, <2>4 DEF Applies, Mapped, OnlyJob
    <3>3. wire[n].status # Unset
      BY <2>1 DEF Reported, Unset
    <3>4. \A m \in Decidable : Agree(m, s)'
      BY <1>a, <2>1, <3>1, <3>2, <3>3 DEF MatchInv, Agree
    <3> QED
      BY <1>b, <2>1, <3>1, <3>4
  <2>5. CASE Loses(n)
    <3>1. UNCHANGED <<target, active>> /\ wire'[n] = NULL /\ ~wire[n].stored
      BY <2>5 DEF Loses
    <3>2. \A m \in Decidable : Agree(m, s)'
      BY <1>a, <2>1, <3>1 DEF MatchInv, Agree
    <3> QED
      BY <1>b, <2>1, <3>1, <3>2
  <2> QED
    BY <1>5, <2>3, <2>4, <2>5 DEF DeliveryEffect
<1> QED
  BY <1>1, <1>2, <1>3, <1>4, <1>5

LEMMA MatchHolds ==
  ASSUME NEW s \in Jobs, OnlyJob(s), MatchInv(s) PROVE MapMatchesRow
  BY DEF OnlyJob, MatchInv, Agree, MapMatchesRow, MapStatus

-----------------------------------------------------------------------------
(* Completed is installed.  Unless reports get lost, an agent that the map *)
(* calls Staged holds a whole copy and is not about to fetch another one,  *)
(* so that what it installs is whole.                                      *)

DiskDone(n, s) ==
  /\ current[n] = s /\ release[n][s] = "full"
  /\ BusyFiles \/ bin[n] = [job |-> s, whole |-> TRUE]

FullFits(n, s) ==
  /\ active # NULL /\ active.status[n] \in {"Staged", "Installing"} =>
       /\ staged[n][s] = "full"
       /\ agent[n].pc = "prefetch" => wire[n] # NULL
       /\ agent[n].pc # "copy"
  /\ wire[n] # NULL /\ wire[n].status \in {"Staged", "Installing", "Completed"} =>
       staged[n][s] = "full"
  /\ Installing(n) => staged[n][s] = "full"
  /\ wire[n] # NULL /\ wire[n].status = "Completed" => DiskDone(n, s)
  /\ target[s][n] = "Completed" => DiskDone(n, s)

FullInv(s) == \A n \in Agents : FullFits(n, s)

LEMMA FullBegins ==
  ASSUME Fresh, NEW s \in Jobs, Begins(s) PROVE FullInv(s)'
<1>1. \A n \in Agents : n \in Node /\ target'[s][n] # "Completed"
  BY DEF Fresh, Begins, Undriven, Pristine, NoRow, Agents
<1>2. active' = NULL /\ \A n \in Node : wire'[n] = NULL /\ agent'[n].pc = "idle"
  BY DEF Fresh, Begins, Untouched
<1> QED
  BY <1>1, <1>2 DEF FullInv, FullFits, Installing

LEMMA FullAgent ==
  ASSUME Base, NEW s \in Jobs, OnlyJob(s), DoneInv(s), FullInv(s),
         NEW n \in Agents, AgentEffect(n)
  PROVE  FullFits(n, s)'
<1>a. n \in Node /\ UNCHANGED <<active, target>> /\ FullFits(n, s) /\ RowDone(n, s) /\ WireFits(n)
  BY DEF Agents, AgentEffect, dbVars, ctlVars, FullInv, DoneInv, Base, SerialInv, NodeSerial
<1>b. agent[n].pc # "idle" => agent[n].job = s /\ target[s][n] # "Completed"
  BY <1>a DEF OnlyJob, RowDone
<1>1. CASE AsksPrefetch(n)
  <2>0. active.job = s
    BY <1>1 DEF AsksPrefetch, OnlyJob
  <2>1. /\ agent'[n].pc = "prefetch" /\ SameDisk(n)
        /\ wire'[n] = [job |-> s, status |-> "Prefetching", stored |-> FALSE]
    BY <1>1, <2>0 DEF AsksPrefetch, Becomes, Posts
  <2>2. wire'[n] \in Report
    BY <2>1 DEF Report, Reported
  <2>3. wire'[n] # NULL
    BY <2>2, NullAssumption
  <2>4. wire'[n].status = "Prefetching"
    BY <2>1
  <2> QED
    BY <1>a, <2>1, <2>3, <2>4 DEF FullFits, SameDisk, DiskDone, Installing
<1>2. CASE AsksInstall(n)
  BY <1>2, <1>a DEF AsksInstall, Becomes, Posts, FullFits, SameDisk, DiskDone, Installing
<1>3. CASE StartsCopy(n)
  <2>1. /\ agent[n].pc = "prefetch" /\ wire[n] = NULL /\ wire'[n] = NULL /\ agent'[n].pc = "copy"
        /\ release'[n] = release[n] /\ bin'[n] = bin[n] /\ current'[n] = current[n]
    BY <1>3 DEF StartsCopy, Becomes
  <2> QED
    BY <1>a, <2>1 DEF FullFits, DiskDone, Installing
<1>4. CASE EndsCopy(n)
  <2>1. /\ agent[n].pc = "copy" /\ agent'[n].pc = "idle" /\ wire'[n].status = "Staged"
        /\ release'[n] = release[n] /\ bin'[n] = bin[n] /\ current'[n] = current[n]
        /\ staged'[n][s] = "full"
    BY <1>4, <1>b DEF EndsCopy, Becomes, Posts, Holds
  <2> QED
    BY <1>a, <2>1 DEF FullFits, DiskDone, Installing
<1>5. CASE BreaksCopy(n)
  <2>1. /\ agent[n].pc = "copy" \/ (agent[n].pc = "prefetch" /\ wire[n] = NULL)
        /\ agent'[n].pc = "idle" /\ wire'[n].status = "DownloadFailed"
        /\ release'[n] = release[n] /\ bin'[n] = bin[n] /\ current'[n] = current[n]
    BY <1>5 DEF BreaksCopy, Becomes, Posts
  <2> QED
    BY <1>a, <2>1 DEF FullFits, DiskDone, Installing
<1>6. CASE FindsNothing(n)
  BY <1>6, <1>a, <1>b DEF FindsNothing, FullFits, Installing
<1>7. CASE StartsInstall(n)
  <2>1. /\ agent[n].pc = "install" /\ agent'[n].pc = "stage" /\ wire'[n] = NULL
        /\ staged'[n] = staged[n]
    BY <1>7 DEF StartsInstall, Becomes
  <2> QED
    BY <1>a, <1>b, <2>1 DEF FullFits, Installing
<1>8. CASE EndsInstall(n)
  <2>1. /\ agent[n].pc = "stage" /\ agent[n].job = s /\ agent'[n].pc = "idle"
        /\ staged'[n] = staged[n] /\ staged[n][s] = "full"
    BY <1>8, <1>a, <1>b DEF EndsInstall, Becomes, FullFits, Installing
  <2>2. DiskDone(n, s)'
    <3>1. release'[n][s] = "full" /\ current'[n] = s
      BY <1>8, <2>1 DEF EndsInstall, Holds
    <3>2. BusyFiles \/ bin'[n] = [job |-> s, whole |-> TRUE]
      BY <1>8, <2>1 DEF EndsInstall
    <3> QED
      BY <3>1, <3>2 DEF DiskDone
  <2> QED
    BY <1>a, <2>1, <2>2 DEF FullFits, Installing
<1>9. CASE BreaksInstall(n)
  <2>1. /\ agent[n].pc = "stage" /\ agent'[n].pc = "idle" /\ wire'[n].status = "InstallFailed"
        /\ staged'[n] = staged[n]
    BY <1>9 DEF BreaksInstall, Becomes, Posts, SameDisk
  <2> QED
    BY <1>a, <1>b, <2>1 DEF FullFits, Installing
<1>10. CASE Dies(n)
  BY <1>10, <1>a DEF Dies, IdleAgent, SameDisk, FullFits, DiskDone, Installing
<1> QED
  BY <1>1, <1>2, <1>3, <1>4, <1>5, <1>6, <1>7, <1>8, <1>9, <1>10 DEF AgentEffect

LEMMA FullNext ==
  ASSUME Base, NEW s \in Jobs, OnlyJob(s), LeafInv(s), DoneInv(s), FullInv(s), ~LossyReports,
         \/ Outside(s) \/ Restarts \/ Waits
         \/ \E r \in Slots : Drives(r)
         \/ \E n \in Node : AgentEffect(n) \/ DeliveryEffect(n)
  PROVE  FullInv(s)'
<1> USE DEF dbVars, ctlVars, diskVars
<1>a. Agents \subseteq Node
  BY DEF Agents
<1>1. CASE Outside(s) \/ Waits
  <2>1. \A n \in Agents : target'[s][n] = "Completed" => target[s][n] = "Completed"
    BY <1>1 DEF Outside, Waits, Pristine, NoRow
  <2> QED
    BY <1>1, <2>1 DEF Outside, Waits, FullInv, FullFits, DiskDone, Installing
<1>2. CASE Restarts
  BY <1>2, <1>a DEF Restarts, FullInv, FullFits, DiskDone, Installing
<1>3. ASSUME NEW r \in Slots, Drives(r) PROVE FullInv(s)'
  <2>a. /\ run[r].pc # "free" /\ Effect(r) /\ KnowsItself(r) /\ run[r].job = s
        /\ UNCHANGED <<agent, wire, staged, release, current>>
    BY <1>3 DEF Drives, Base, SelfInv, RunSpares, agentVars, OnlyJob
  <2>b. \A n \in Agents : MapKept(r, n)
    BY <2>a, MapStep
  <2>1. \A n \in Agents : bin'[n] = bin[n]
    BY <2>a DEF Effect, Stages, Publishes, Moves, TimesOut, SetsMap, Switches, Skips, Rejects,
       Grants, Hears, StopsWaiting, Ungrants, EndsLoop, DoesController, Finishes, Clears, SameDB
  <2>2. ASSUME NEW n \in Agents PROVE FullFits(n, s)'
    <3>1. target'[s][n] = "Completed" => target[s][n] = "Completed"
      BY <1>3, DrivenRows
    <3>2. active' # NULL /\ active'.status[n] \in {"Staged", "Installing"} =>
            active # NULL /\ active.status[n] = active'.status[n]
      <4>1. Publishes(r) => active'.status[n] \notin {"Staged", "Installing"}
        BY <1>a DEF Publishes, DoneInv, Pristine, Unset, NoRow
      <4> QED
        BY <2>b, <4>1 DEF MapKept
    <3> QED
      BY <2>a, <2>1, <3>1, <3>2 DEF FullInv, FullFits, DiskDone, Installing
  <2> QED
    BY <2>2 DEF FullInv
<1>4. ASSUME NEW n \in Node, AgentEffect(n) PROVE FullInv(s)'
  <2>1. ASSUME NEW m \in Agents, m # n PROVE FullFits(m, s)'
    BY <1>4, <1>a, <2>1 DEF AgentEffect, SameNode, SameDisk, FullInv, FullFits, DiskDone, Installing
  <2>2. n \in Agents => FullFits(n, s)'
    BY <1>4, FullAgent
  <2> QED
    BY <2>1, <2>2 DEF FullInv
<1>5. ASSUME NEW n \in Node, DeliveryEffect(n) PROVE FullInv(s)'
  <2>1. /\ UNCHANGED <<agent, diskVars>> /\ wire[n] # NULL /\ wire[n].job = s /\ ~Loses(n)
        /\ \A m \in Node : m # n => wire'[m] = wire[m]
        /\ WireFits(n)
    BY <1>5 DEF DeliveryEffect, Stores, Applies, Loses, OnlyJob, Base, SerialInv, NodeSerial
  <2>2. CASE Stores(n)
    <3>1. \A m \in Agents : target'[s][m] = "Completed" =>
            target[s][m] = "Completed" \/ (m = n /\ wire[n].status = "Completed")
      BY <1>a, <2>1, <2>2 DEF Stores, Stored
    <3>2. UNCHANGED active /\ wire'[n] # NULL /\ wire'[n].status = wire[n].status
      BY <2>2 DEF Stores
    <3>3. ASSUME NEW m \in Agents PROVE FullFits(m, s)'
      <4>1. CASE m # n
        BY <1>a, <2>1, <3>1, <3>2, <4>1 DEF FullInv, FullFits, DiskDone, Installing
      <4>2. CASE m = n
        BY <1>a, <2>1, <3>1, <3>2, <4>2 DEF FullInv, FullFits, DiskDone, Installing
      <4> QED
        BY <4>1, <4>2
    <3> QED
      BY <3>3 DEF FullInv
  <2>3. CASE Applies(n)
    <3>1. UNCHANGED target /\ wire'[n] = NULL
      BY <2>3 DEF Applies
    <3>2. active' # NULL => /\ active # NULL
                            /\ \A m \in Node : active'.status[m] = IF m = n THEN wire[n].status
                                                                  ELSE active.status[m]
      BY <2>1, <2>3 DEF Applies, Mapped, OnlyJob
    <3>3. ASSUME NEW m \in Agents PROVE FullFits(m, s)'
      <4>1. CASE m # n
        BY <1>a, <2>1, <3>1, <3>2, <4>1 DEF FullInv, FullFits, DiskDone, Installing
      <4>2. CASE m = n
        BY <1>a, <2>1, <3>1, <3>2, <4>2 DEF FullInv, FullFits, DiskDone, Installing, WireFits
      <4> QED
        BY <4>1, <4>2
    <3> QED
      BY <3>3 DEF FullInv
  <2> QED
    BY <1>5, <2>1, <2>2, <2>3 DEF DeliveryEffect
<1> QED
  BY <1>1, <1>2, <1>3, <1>4, <1>5

LEMMA FullHolds ==
  ASSUME NEW s \in Jobs, OnlyJob(s), FullInv(s) PROVE CompletedIsInstalled
<1> SUFFICES ASSUME NEW j \in Jobs, NEW n \in Agents, target[j][n] = "Completed"
             PROVE  /\ current[n] = j
                    /\ Installing(n) \/ release[n][j] = "full"
                    /\ Installing(n) \/ BusyFiles \/ bin[n] = [job |-> j, whole |-> TRUE]
  BY DEF CompletedIsInstalled
<1>1. j = s
  BY DEF OnlyJob, Undriven, Pristine, NoRow
<1> QED
  BY <1>1 DEF FullInv, FullFits, DiskDone

-----------------------------------------------------------------------------
(* Nobody is forgotten.  As long as nothing fails, an agent that no        *)
(* goroutine overruled only moves forward, whoever installs has a copy to  *)
(* install from, and a goroutine that is done with an agent, or with its   *)
(* loop, leaves it Completed.                                              *)

Forward == {"Waiting", "Prefetching", "Staged", "Installing", "Completed"}

OnlineFits(n, s) ==
  /\ target[s][n] \in Forward
  /\ target[s][n] = "Completed" => current[n] = s
  /\ wire[n] # NULL => wire[n].status \in Forward
  /\ wire[n] # NULL /\ wire[n].status = "Completed" => current[n] = s
  /\ active # NULL => active.status[n] \in Forward \cup {Unset}
  /\ wire[n] # NULL /\ wire[n].status \in {"Staged", "Installing"} => staged[n][s] # "none"
  /\ active # NULL /\ active.status[n] \in {"Staged", "Installing"} => staged[n][s] # "none"
  /\ Installing(n) => staged[n][s] # "none"

LoopFits(r, n, s) ==
  /\ Install(r) => /\ run[r].snap[n] \in Forward \ {"Completed"}
                   /\ \/ n \in run[r].todo \/ target[s][n] = "Completed"
                      \/ run[r].pc = "wait" /\ run[r].cur = n
  /\ After(r) => target[s][n] = "Completed"

OnlineInv(s) ==
  /\ \A n \in Decidable : OnlineFits(n, s)
  /\ \A r \in Slots, n \in Decidable : LoopFits(r, n, s)
  /\ jobStatus[s] = "Completed" => \A n \in Decidable : target[s][n] = "Completed"

LEMMA OnlineBegins ==
  ASSUME Fresh, WaitingRows, NEW s \in Jobs, Begins(s) PROVE OnlineInv(s)'
<1>1. \A n \in Agents : n \in Node /\ target[s][n] = "Waiting" /\ target'[s][n] = target[s][n]
  BY DEF WaitingRows, Begins, Agents
<1>2. active' = NULL /\ \A n \in Node : wire'[n] = NULL /\ agent'[n].pc = "idle"
  BY DEF Fresh, Begins, Untouched
<1>3. \A n \in Agents : OnlineFits(n, s)'
  BY <1>1, <1>2 DEF OnlineFits, Forward, Installing
<1>4. \A r \in Slots : ~Install(r)' /\ ~After(r)'
  BY DEF Begins, Install, Holder, After
<1>5. jobStatus'[s] = "Running"
  BY DEF Begins
<1> QED
  BY <1>3, <1>4, <1>5 DEF OnlineInv, LoopFits, Decidable

LEMMA OnlineAgent ==
  ASSUME Base, NEW s \in Jobs, OnlyJob(s), DoneInv(s), OnlineInv(s), used'["failures"] = 0,
         NEW n \in Decidable, AgentEffect(n)
  PROVE  OnlineFits(n, s)'
<1>a. /\ n \in Agents /\ n \in Node /\ UNCHANGED <<active, target>> /\ OnlineFits(n, s)
      /\ ~BreaksCopy(n) /\ ~BreaksInstall(n)
  BY DEF Decidable, Agents, AgentEffect, dbVars, ctlVars, OnlineInv, BreaksCopy, BreaksInstall
<1>b. agent[n].pc # "idle" => agent[n].job = s
  BY <1>a DEF OnlyJob
<1>1. CASE AsksPrefetch(n)
  <2>1. agent'[n].pc = "prefetch" /\ SameDisk(n) /\ wire'[n].status = "Prefetching"
    BY <1>1 DEF AsksPrefetch, Becomes, Posts
  <2> QED
    BY <1>a, <2>1 DEF OnlineFits, SameDisk, Installing, Forward
<1>2. CASE AsksInstall(n)
  <2>1. SameDisk(n) /\ wire'[n].status = "Installing" /\ staged[n][s] # "none"
    BY <1>2, <1>a DEF AsksInstall, Posts, OnlineFits
  <2> QED
    BY <1>a, <2>1 DEF OnlineFits, SameDisk, Forward
<1>3. CASE StartsCopy(n)
  <2>1. wire'[n] = NULL /\ staged'[n][s] = "partial" /\ current'[n] = current[n]
    BY <1>3, <1>b DEF StartsCopy, Holds
  <2> QED
    BY <1>a, <2>1 DEF OnlineFits
<1>4. CASE EndsCopy(n)
  <2>1. wire'[n].status = "Staged" /\ staged'[n][s] = "full" /\ current'[n] = current[n]
    BY <1>4, <1>b DEF EndsCopy, Posts, Holds
  <2> QED
    BY <1>a, <2>1 DEF OnlineFits, Forward
<1>5. ~FindsNothing(n)
  BY <1>a, <1>b DEF FindsNothing, OnlineFits, Installing
<1>6. CASE StartsInstall(n)
  <2>1. wire'[n] = NULL /\ staged'[n] = staged[n] /\ current'[n] = current[n] /\ staged[n][s] # "none"
    BY <1>6, <1>a, <1>b DEF StartsInstall, OnlineFits, Installing
  <2> QED
    BY <1>a, <2>1 DEF OnlineFits
<1>7. CASE EndsInstall(n)
  <2>1. /\ agent'[n].pc = "idle" /\ wire'[n].status = "Completed"
        /\ staged'[n] = staged[n] /\ current'[n] = s
    BY <1>7, <1>b DEF EndsInstall, Becomes, Posts
  <2> QED
    BY <1>a, <2>1 DEF OnlineFits, Installing, Forward
<1>8. CASE Dies(n)
  BY <1>8, <1>a DEF Dies, IdleAgent, SameDisk, OnlineFits, Installing
<1> QED
  BY <1>a, <1>1, <1>2, <1>3, <1>4, <1>5, <1>6, <1>7, <1>8 DEF AgentEffect

LEMMA OnlineDrives ==
  ASSUME Base, NEW s \in Jobs, OnlyJob(s), LeafInv(s), DoneInv(s), MatchInv(s), OnlineInv(s),
         NEW r \in Slots, Drives(r)
  PROVE  OnlineInv(s)'
<1>a. /\ run[r].pc # "free" /\ Effect(r) /\ KnowsItself(r) /\ run[r].job = s /\ GivesUpMore
      /\ UNCHANGED <<agent, wire, staged, release, current>>
  BY DEF Drives, Base, SelfInv, RunSpares, agentVars, OnlyJob
<1>b. PhaseKept(r) /\ \A n \in Agents : RowKept(r, n) /\ MapKept(r, n)
  BY <1>a, PhaseStep, RowStep, MapStep
<1>c. \A n \in Decidable : n \in Agents /\ n \in Node
  BY DEF Decidable, Agents
<1>d. \A n \in Agents : gaveUp'[n] = {} => n \in Decidable
  BY <1>a DEF GivesUpMore, Decidable, Agents
<1>e. \A n \in Agents : gaveUp'[n] = {} => target'[s][n] = target[s][n]
  BY <1>a, <1>b DEF RowKept
<1>1. ASSUME NEW n \in Agents, gaveUp'[n] = {} PROVE OnlineFits(n, s)'
  <2>1. OnlineFits(n, s) /\ gaveUp[n] = {}
    BY <1>1, <1>d DEF OnlineInv, Decidable
  <2>2. target'[s][n] = target[s][n]
    BY <1>1, <1>e
  <2>3. active' # NULL => active'.status[n] = Unset \/ (active # NULL /\ active'.status[n] = active.status[n])
    <3>1. CASE Publishes(r)
      <4>1. run[r].snap[n] = "Waiting" /\ n \in Node
        BY <3>1, <1>1, <1>c, <1>d DEF Publishes, MatchInv
      <4> QED
        BY <3>1, <4>1 DEF Publishes
    <3>2. CASE ~Publishes(r)
      BY <1>b, <2>1, <3>2 DEF MapKept
    <3> QED
      BY <3>1, <3>2
  <2>4. Unset \notin {"Staged", "Installing"}
    BY DEF Unset
  <2> QED
    BY <1>a, <2>1, <2>2, <2>3, <2>4 DEF OnlineFits, Installing
<1>2. ASSUME NEW n \in Agents, gaveUp'[n] = {} PROVE LoopFits(r, n, s)'
  <2>a. n \in Decidable /\ n \in Node /\ target'[s][n] = target[s][n]
    BY <1>2, <1>c, <1>d, <1>e
  <2>b. OnlineFits(n, s) /\ LoopFits(r, n, s) /\ RowDone(n, s) /\ MapDone(n) /\ Agree(n, s) /\ target[s][n] # NoRow
    BY <2>a, <1>c DEF OnlineInv, DoneInv, MatchInv
  <2>c. ~Before(r) => active # NULL
    BY <1>a, Whereabouts
  <2>1. ASSUME Install(r)' PROVE run'[r].snap[n] \in Forward \ {"Completed"}
    <3>1. CASE Switches(r)
      <4>1. Prefetch(r) /\ run'[r].snap[n] = target[s][n]
        BY <1>a, <3>1 DEF Switches
      <4> QED
        BY <2>b, <4>1 DEF OnlineFits, RowDone, Visited
    <3>2. CASE ~Switches(r)
      BY <1>b, <2>1, <2>b, <3>2 DEF PhaseKept, LoopFits
    <3> QED
      BY <3>1, <3>2
  <2>2. ASSUME Install(r)'
        PROVE  \/ n \in run'[r].todo \/ target'[s][n] = "Completed"
               \/ run'[r].pc = "wait" /\ run'[r].cur = n
    <3>1. CASE Switches(r)
      BY <1>a, <2>b, <3>1, <1>2 DEF Switches, AgentRows
    <3>2. CASE ~Switches(r)
      <4>1. Install(r)
        BY <1>b, <2>2, <3>2 DEF PhaseKept
      <4>2. CASE target[s][n] = "Completed"
        BY <2>a, <4>2
      <4>3. CASE n \in run[r].todo
        <5>1. ASSUME Skips(r) PROVE n \in run'[r].todo
          <6>1. PICK m \in run[r].todo : Seen(r, m) \in InstallSkips /\ run'[r].todo = run[r].todo \ {m}
            BY <5>1 DEF Skips
          <6>2. MapStatus(n) # "Completed"
            BY <2>b, <4>1, <4>3 DEF MapDone, MapStatus, Visited, Unset
          <6>3. MapStatus(n) \in Forward \cup {Unset}
            BY <2>b DEF OnlineFits, MapStatus
          <6>4. Seen(r, n) \in Forward \ {"Completed"}
            BY <2>b, <4>1, <6>2, <6>3 DEF Seen, LoopFits
          <6> QED
            BY <4>3, <6>1, <6>4 DEF InstallSkips, Forward
        <5>2. ASSUME Rejects(r) PROVE n \in run'[r].todo
          BY <5>2, <1>2, <2>a, <4>3 DEF Rejects, Overruled
        <5>3. ASSUME StopsWaiting(r) PROVE n \in run'[r].todo
          BY <5>3, <1>2, <2>a, <4>3 DEF StopsWaiting, Overruled
        <5>4. ASSUME Grants(r) PROVE n \in run'[r].todo \/ (run'[r].pc = "wait" /\ run'[r].cur = n)
          BY <5>4, <4>3 DEF Grants
        <5>5. CASE SetsMap(r) \/ Hears(r) \/ Ungrants(r)
          BY <5>5, <4>3 DEF SetsMap, Hears, Ungrants
        <5>6. CASE Stages(r) \/ Publishes(r) \/ Moves(r) \/ TimesOut(r) \/ EndsLoop(r) \/ DoesController(r)
                     \/ Finishes(r) \/ Clears(r)
          BY <5>6, <4>1, <2>2 DEF Stages, Publishes, Moves, TimesOut, EndsLoop, DoesController,
             Finishes, Clears, Before, Prefetch, Install, Holder, After
        <5> QED
          BY <1>a, <3>2, <5>1, <5>2, <5>3, <5>4, <5>5, <5>6 DEF Effect
      <4>4. CASE run[r].pc = "wait" /\ run[r].cur = n /\ target[s][n] # "Completed"
        <5>1. Hears(r) \/ StopsWaiting(r)
          BY <1>a, <3>2, <4>4 DEF Effect, Stages, Publishes, Moves, TimesOut, SetsMap, Skips, Rejects,
             Grants, Ungrants, EndsLoop, DoesController, Finishes, Clears, Before, Prefetch
        <5>2. ~StopsWaiting(r)
          BY <1>2, <2>a, <4>4 DEF StopsWaiting, Overruled
        <5>3. MapStatus(n) \in InstallFinished /\ active # NULL
          BY <2>c, <4>4, <5>1, <5>2 DEF Hears, Before
        <5>4. active.status[n] = "Completed"
          BY <2>b, <5>3 DEF OnlineFits, MapStatus, InstallFinished, Forward, Unset
        <5>5. active.install = n /\ gaveUp[n] = {}
          BY <1>a, <2>a, <4>4, Whereabouts DEF Decidable
        <5>6. wire[n] = NULL
          BY <2>a, <5>3, <5>4, <5>5 DEF Base, SerialInv, NodeSerial, Over, InstallFinished
        <5> QED
          BY <2>b, <4>4, <5>3, <5>4, <5>6 DEF Agree, Unset
      <4> QED
        BY <2>b, <4>1, <4>2, <4>3, <4>4 DEF LoopFits
    <3> QED
      BY <3>1, <3>2
  <2>3. ASSUME After(r)' PROVE target'[s][n] = "Completed"
    <3>1. CASE EndsLoop(r)
      <4>1. Install(r) /\ run[r].todo = {} /\ run[r].pc # "wait"
        BY <3>1 DEF EndsLoop, Install
      <4> QED
        BY <2>a, <2>b, <4>1 DEF LoopFits
    <3>2. CASE After(r)
      BY <2>a, <2>b, <3>2 DEF LoopFits
    <3> QED
      BY <1>b, <2>3, <3>1, <3>2 DEF PhaseKept
  <2> QED
    BY <2>1, <2>2, <2>3 DEF LoopFits
<1>3. ASSUME NEW q \in Slots \ {r}, NEW n \in Agents PROVE LoopFits(q, n, s)'
  BY OthersFree DEF LoopFits
<1>4. ASSUME jobStatus'[s] = "Completed", NEW n \in Agents, gaveUp'[n] = {}
      PROVE  target'[s][n] = "Completed"
  <2>1. n \in Decidable /\ target'[s][n] = target[s][n]
    BY <1>4, <1>d, <1>e
  <2>2. CASE Finishes(r)
    BY <2>1, <2>2 DEF Finishes, OnlineInv, LoopFits, After
  <2>3. CASE jobStatus' = jobStatus
    BY <1>4, <2>1, <2>3 DEF OnlineInv
  <2> QED
    BY <1>b, <2>2, <2>3 DEF PhaseKept
<1> QED
  BY <1>1, <1>2, <1>3, <1>4 DEF OnlineInv, Decidable

LEMMA OnlineNext ==
  ASSUME Base, NEW s \in Jobs, OnlyJob(s), LeafInv(s), DoneInv(s), MatchInv(s), OnlineInv(s),
         RowsLeftAlone', rollback = NULL, used'["failures"] = 0,
         \/ Outside(s) \/ Restarts \/ Waits
         \/ \E r \in Slots : Drives(r)
         \/ \E n \in Node : AgentEffect(n) \/ DeliveryEffect(n)
  PROVE  OnlineInv(s)'
<1> USE DEF dbVars, ctlVars, diskVars
<1>a. Agents \subseteq Node /\ Decidable \subseteq Agents
  BY DEF Agents, Decidable
<1>b. ASSUME UNCHANGED <<run, gaveUp, jobStatus>>, \A n \in Decidable : OnlineFits(n, s)',
             \A n \in Decidable : target[s][n] = "Completed" => target'[s][n] = "Completed"
      PROVE  OnlineInv(s)'
  <2>1. Decidable' = Decidable
    BY <1>b DEF Decidable
  <2>2. \A r \in Slots, n \in Decidable : LoopFits(r, n, s)'
    BY <1>b DEF OnlineInv, LoopFits, Install, Holder, After
  <2> QED
    BY <1>b, <2>1, <2>2 DEF OnlineInv
<1>1. CASE Outside(s) \/ Waits
  <2>1. \A n \in Decidable : target'[s][n] = target[s][n]
    BY <1>1, <1>a DEF Outside, Waits, RolledBack
  <2>2. Decidable' = Decidable /\ UNCHANGED run
    BY <1>1 DEF Outside, Waits, Decidable
  <2>3. \A r \in Slots, n \in Decidable : LoopFits(r, n, s)'
    BY <2>1, <2>2 DEF OnlineInv, LoopFits, Install, Holder, After
  <2>4. \A n \in Decidable : OnlineFits(n, s)'
    BY <1>1, <2>1 DEF Outside, Waits, OnlineInv, OnlineFits, Installing
  <2>5. jobStatus'[s] = "Completed" => jobStatus[s] = "Completed"
    BY <1>1 DEF Outside, Waits
  <2> QED
    BY <2>1, <2>2, <2>3, <2>4, <2>5 DEF OnlineInv
<1>2. CASE Restarts
  <2>1. \A r \in Slots : ~Install(r)' /\ ~After(r)'
    BY <1>2 DEF Restarts, Install, Holder, After
  <2>2. \A n \in Decidable : OnlineFits(n, s)'
    BY <1>2, <1>a DEF Restarts, OnlineInv, OnlineFits, Installing
  <2>3. Decidable' = Decidable /\ UNCHANGED <<jobStatus, target>>
    BY <1>2 DEF Restarts, Decidable
  <2> QED
    BY <2>1, <2>2, <2>3 DEF OnlineInv, LoopFits
<1>3. ASSUME NEW r \in Slots, Drives(r) PROVE OnlineInv(s)'
  BY <1>3, OnlineDrives
<1>4. ASSUME NEW n \in Node, AgentEffect(n) PROVE OnlineInv(s)'
  <2>1. UNCHANGED <<run, gaveUp, jobStatus, target, active>> /\ \A m \in Node : m # n => SameNode(m)
    BY <1>4 DEF AgentEffect
  <2>2. ASSUME NEW m \in Decidable, m # n PROVE OnlineFits(m, s)'
    BY <1>a, <2>1, <2>2 DEF SameNode, SameDisk, OnlineInv, OnlineFits, Installing
  <2>3. n \in Decidable => OnlineFits(n, s)'
    BY <1>4, OnlineAgent
  <2> QED
    BY <1>b, <2>1, <2>2, <2>3
<1>5. ASSUME NEW n \in Node, DeliveryEffect(n) PROVE OnlineInv(s)'
  <2>1. /\ UNCHANGED <<run, gaveUp, jobStatus, agent, diskVars>> /\ wire[n] # NULL /\ wire[n].job = s
        /\ \A m \in Node : m # n => wire'[m] = wire[m]
    BY <1>5 DEF DeliveryEffect, Stores, Applies, Loses, OnlyJob
  <2>2. ASSUME NEW m \in Decidable, m # n PROVE OnlineFits(m, s)' /\ target'[s][m] = target[s][m]
    <3>1. target'[s][m] = target[s][m] /\ wire'[m] = wire[m]
      BY <1>5, <1>a, <2>1, <2>2 DEF DeliveryEffect, Stores, Applies, Loses, Stored
    <3>2. active' # NULL => active # NULL /\ active'.status[m] = active.status[m]
      BY <1>5, <1>a, <2>2 DEF DeliveryEffect, Stores, Applies, Loses, Mapped
    <3> QED
      BY <2>1, <3>1, <3>2 DEF OnlineInv, OnlineFits, Installing
  <2>3. ASSUME n \in Decidable
        PROVE  OnlineFits(n, s)' /\ (target[s][n] = "Completed" => target'[s][n] = "Completed")
    <3>a. OnlineFits(n, s) /\ RowDone(n, s)
      BY <1>a, <2>3 DEF OnlineInv, DoneInv
    <3>1. CASE Stores(n)
      <4>1. target[s][n] # "Completed"
        BY <3>1, <3>a DEF Stores, RowDone
      <4>2. target'[s][n] \in {target[s][n], wire[n].status} /\ UNCHANGED active
            /\ wire'[n] # NULL /\ wire'[n].status = wire[n].status
        BY <3>1, <2>1 DEF Stores, Stored
      <4> QED
        BY <2>1, <3>a, <4>1, <4>2 DEF OnlineFits, Installing
    <3>2. CASE Applies(n)
      <4>1. UNCHANGED target /\ wire'[n] = NULL
        BY <3>2 DEF Applies
      <4>2. active' # NULL => active # NULL /\ active'.status[n] = wire[n].status
        BY <2>1, <3>2 DEF Applies, Mapped, OnlyJob
      <4> QED
        BY <2>1, <3>a, <4>1, <4>2 DEF OnlineFits, Installing
    <3>3. CASE Loses(n)
      BY <2>1, <3>3, <3>a DEF Loses, OnlineFits, Installing
    <3> QED
      BY <1>5, <3>1, <3>2, <3>3 DEF DeliveryEffect
  <2> QED
    BY <1>b, <2>1, <2>2, <2>3
<1> QED
  BY <1>1, <1>2, <1>3, <1>4, <1>5

LEMMA OnlineHolds ==
  ASSUME NEW s \in Jobs, OnlyJob(s), used["failures"] = 0 => OnlineInv(s) PROVE NobodyForgotten
<1> SUFFICES ASSUME NEW j \in Jobs, NEW n \in Decidable, jobStatus[j] = "Completed", used["failures"] = 0
             PROVE  target[j][n] = "Completed" /\ current[n] = j
  BY DEF NobodyForgotten
<1>1. j = s
  BY DEF OnlyJob, Undriven
<1> QED
  BY <1>1 DEF OnlineInv, OnlineFits

-----------------------------------------------------------------------------
(* The whole argument: until the first start everything is fresh, and from *)
(* then on one job tells its story.                                        *)

Story(s) ==
  /\ OnlyJob(s) /\ LeafInv(s) /\ DoneInv(s)
  /\ RowsLeftAlone => MatchInv(s)
  /\ RowsLeftAlone /\ used["failures"] = 0 => OnlineInv(s)
  /\ ~LossyReports => FullInv(s)

OneStart ==
  Undisturbed => /\ used["starts"] = 0 => Fresh
                 /\ used["starts"] = 1 => \E s \in Jobs : Story(s)
                 /\ RowsInv

UpdateInv ==
  /\ TypeInv /\ SelfInv
  /\ ~ConcurrentStarts => GrantInv
  /\ ~ConcurrentStarts /\ used["ctl"] = 0 => SerialInv
  /\ OneStart

LEMMA StoryBegins ==
  ASSUME Fresh, RowsInv, NEW s \in Jobs, used["starts"] = 0, Begins(s) PROVE Story(s)'
<1>1. RowsLeftAlone' => RowsLeftAlone
  BY DEF Begins, RowsLeftAlone
<1>2. RowsLeftAlone' => MatchInv(s)' /\ OnlineInv(s)'
  BY <1>1, MatchBegins, OnlineBegins DEF RowsInv
<1> QED
  BY <1>2, OnlyJobBegins, LeafBegins, DoneBegins, FullBegins DEF Story

LEMMA StoryNext ==
  ASSUME Base, NEW s \in Jobs, Story(s), RowsInv, used["starts"] = 1, Undisturbed', [Next]_vars
  PROVE  Story(s)'
<1>1. \/ Outside(s) \/ Restarts \/ Waits
      \/ \E r \in Slots : Drives(r)
      \/ \E n \in Node : AgentEffect(n) \/ DeliveryEffect(n)
  BY Steps DEF Story
<1>2. \A k \in Counters : used[k] \in Nat /\ used[k] <= used'[k]
  BY CountersGrow DEF Grow, Base, TypeInv, TypeOK
<1>3. RowsLeftAlone' => RowsLeftAlone /\ rollback = NULL
  BY <1>2 DEF RowsLeftAlone, RowsInv, Counters
<1>4. used'["failures"] = 0 => used["failures"] = 0
  BY <1>2 DEF Counters
<1>5. OnlyJob(s)' /\ LeafInv(s)' /\ DoneInv(s)'
  BY <1>1, OnlyJobNext, LeafNext, DoneNext DEF Story
<1>6. RowsLeftAlone' => MatchInv(s)'
  BY <1>1, <1>3, MatchNext DEF Story
<1>7. RowsLeftAlone' /\ used'["failures"] = 0 => OnlineInv(s)'
  BY <1>1, <1>3, <1>4, OnlineNext DEF Story
<1>8. ~LossyReports => FullInv(s)'
  BY <1>1, FullNext DEF Story
<1> QED
  BY <1>5, <1>6, <1>7, <1>8 DEF Story

LEMMA UpdateInit == Init => UpdateInv
<1> SUFFICES ASSUME Init PROVE UpdateInv
  OBVIOUS
<1>1. used["starts"] = 0
  BY DEF Init, Counters
<1> QED
  BY <1>1, InitType, SelfInit, GrantInit, SerialInit, FreshInit, RowsInit DEF UpdateInv, OneStart

\* An undisturbed state only comes from an undisturbed one.
LEMMA UndisturbedBefore ==
  ASSUME TypeInv, [Next]_vars, Undisturbed' PROVE Undisturbed
<1>1. \A k \in Counters : used[k] \in Nat /\ used'[k] \in Nat /\ used[k] <= used'[k]
  BY CountersGrow, NextType DEF Grow, TypeInv, TypeOK
<1> QED
  BY <1>1 DEF Undisturbed, Counters

LEMMA UndisturbedBase ==
  ASSUME UpdateInv, Undisturbed
  PROVE  /\ Base /\ RowsInv /\ used["starts"] \in {0, 1}
         /\ used["starts"] = 0 => Fresh
         /\ used["starts"] = 1 => \E s \in Jobs : Story(s)
<1>1. used["starts"] \in Nat
  BY DEF UpdateInv, TypeInv, TypeOK, Counters
<1> QED
  BY <1>1 DEF UpdateInv, Undisturbed, OneStart, Base

LEMMA UpdateNext == UpdateInv /\ [Next]_vars => UpdateInv'
<1> SUFFICES ASSUME UpdateInv, [Next]_vars PROVE UpdateInv'
  OBVIOUS
<1>1. TypeInv' /\ SelfInv' /\ (~ConcurrentStarts => GrantInv')
  BY NextType, SelfNext, GrantNext DEF UpdateInv
<1>2. ~ConcurrentStarts /\ used'["ctl"] = 0 => SerialInv'
  BY SerialNext, CrashesCounted DEF UpdateInv
<1>3. ASSUME Undisturbed'
      PROVE  /\ used'["starts"] = 0 => Fresh'
             /\ used'["starts"] = 1 => \E s \in Jobs : Story(s)'
             /\ RowsInv'
  <2>a. Undisturbed
    BY <1>3, UndisturbedBefore DEF UpdateInv
  <2>b. /\ Base /\ RowsInv /\ used["starts"] \in {0, 1}
        /\ used["starts"] = 0 => Fresh
        /\ used["starts"] = 1 => \E s \in Jobs : Story(s)
    BY <2>a, UndisturbedBase
  <2>1. RowsInv'
    BY <1>3, <2>b, RowsNext
  <2>2. CASE used["starts"] = 0
    <3>1. \/ Fresh' /\ used'["starts"] = 0
          \/ used'["starts"] = 1 /\ \E s \in Jobs : Begins(s)
      BY <1>3, <2>b, <2>2, FreshStep DEF Base
    <3>2. ASSUME NEW s \in Jobs, Begins(s) PROVE Story(s)'
      BY <2>b, <2>2, <3>2, StoryBegins
    <3> QED
      BY <2>1, <3>1, <3>2
  <2>3. CASE used["starts"] = 1
    <3>1. used'["starts"] # 0
      <4>1. used["starts"] <= used'["starts"]
        BY CountersGrow DEF Grow, UpdateInv, Counters
      <4> QED
        BY <2>3, <4>1
    <3>2. PICK s \in Jobs : Story(s)
      BY <2>b, <2>3
    <3>3. Story(s)'
      BY <1>3, <2>b, <2>3, <3>2, StoryNext
    <3> QED
      BY <2>1, <3>1, <3>3
  <2> QED
    BY <2>b, <2>2, <2>3
<1> QED
  BY <1>1, <1>2, <1>3 DEF UpdateInv, OneStart

\* The inductive invariant of the update: types and what goroutines know about
\* themselves always; the grant of a lone goroutine without concurrent starts;
\* serial installations until the controller crashes; and the story of the only
\* job as long as there was at most one start (policy_handlers.go:430-613).
THEOREM UpdateInvariant == Spec => []UpdateInv
<1> QED
  BY UpdateInit, UpdateNext, PTL DEF Spec

\* Before the start the properties hold of a system in which nothing happened.
LEMMA FreshHolds ==
  ASSUME Fresh
  PROVE  LeafFirst /\ MapMatchesRow /\ NobodyForgotten /\ CompletedIsInstalled
<1>1. LeafFirst
  BY DEF Fresh, Untouched, LeafFirst, Installing, Agents
<1>2. MapMatchesRow
  BY DEF Fresh, MapMatchesRow
<1>3. NobodyForgotten
  BY DEF Fresh, Undriven, NobodyForgotten
<1>4. CompletedIsInstalled
  BY DEF Fresh, Undriven, Pristine, NoRow, CompletedIsInstalled
<1> QED
  BY <1>1, <1>2, <1>3, <1>4

LEMMA StoryHolds ==
  ASSUME Base, NEW s \in Jobs, Story(s)
  PROVE  /\ LeafFirst
         /\ RowsLeftAlone => MapMatchesRow /\ NobodyForgotten
         /\ ~LossyReports => CompletedIsInstalled
<1>1. LeafFirst
  BY LeafHolds DEF Story
<1>2. RowsLeftAlone => MapMatchesRow
  BY MatchHolds DEF Story
<1>3. RowsLeftAlone => NobodyForgotten
  BY OnlineHolds DEF Story
<1>4. ~LossyReports => CompletedIsInstalled
  BY FullHolds DEF Story
<1> QED
  BY <1>1, <1>2, <1>3, <1>4

LEMMA UpdateHolds ==
  ASSUME UpdateInv, Undisturbed
  PROVE  /\ LeafFirst
         /\ RowsLeftAlone => MapMatchesRow /\ NobodyForgotten
         /\ ~LossyReports => CompletedIsInstalled
<1>1. /\ Base /\ used["starts"] \in {0, 1}
      /\ used["starts"] = 0 => Fresh
      /\ used["starts"] = 1 => \E s \in Jobs : Story(s)
  BY UndisturbedBase
<1> QED
  BY <1>1, FreshHolds, StoryHolds

\* While a single start is driven to its end without a crash of the controller,
\* whatever agents, administrators, deadlines and lost reports do, no node
\* replaces its release while a deeper one installs, unless the orchestrator gave
\* up on the deeper one (policy_handlers.go:521-606).
THEOREM LeafFirstCorrect == Spec => [](Undisturbed => LeafFirst)
<1>1. UpdateInv => (Undisturbed => LeafFirst)
  BY UpdateHolds
<1> QED
  BY <1>1, UpdateInvariant, PTL

\* In such a run, unless rows are rolled back or deleted, the row and the map
\* entry of a node no orchestrator overruled differ only while a report is on its
\* way between them (bootstrap.go:431-437, policy_handlers.go:449).
THEOREM MapMatchesRowCorrect == Spec => [](Undisturbed /\ RowsLeftAlone => MapMatchesRow)
<1>1. UpdateInv => (Undisturbed /\ RowsLeftAlone => MapMatchesRow)
  BY UpdateHolds
<1> QED
  BY <1>1, UpdateInvariant, PTL

\* In such a run, unless rows are rolled back or deleted, a job in which nothing
\* failed ends with every agent on the release, but for those an orchestrator
\* wrote a verdict about (policy_handlers.go:513-606).
THEOREM OnlineCorrect == Spec => [](Undisturbed /\ RowsLeftAlone => NobodyForgotten)
<1>1. UpdateInv => (Undisturbed /\ RowsLeftAlone => NobodyForgotten)
  BY UpdateHolds
<1> QED
  BY <1>1, UpdateInvariant, PTL

\* In such a run, unless reports get lost, a Completed row belongs to a node that
\* switched to a whole copy of the release, whatever crashes or fails on the agents
\* (agent.go:306-317, updater.go:87-110).
THEOREM CompletedCorrect == Spec => [](Undisturbed /\ ~LossyReports => CompletedIsInstalled)
<1>1. UpdateInv => (Undisturbed /\ ~LossyReports => CompletedIsInstalled)
  BY UpdateHolds
<1> QED
  BY <1>1, UpdateInvariant, PTL

LEMMA StickStep ==
  ASSUME UpdateInv, Undisturbed', RowsLeftAlone', [Next]_vars,
         NEW j \in Jobs, NEW n \in Agents, target[j][n] = "Completed", target'[j][n] # "Completed"
  PROVE  "install" \in gaveUp'[n]
<1>1. Undisturbed
  BY UndisturbedBefore DEF UpdateInv
<1>2. /\ Base /\ RowsInv /\ used["starts"] \in {0, 1}
      /\ used["starts"] = 0 => Fresh
      /\ used["starts"] = 1 => \E s \in Jobs : Story(s)
  BY <1>1, UndisturbedBase
<1>3. rollback = NULL
  <2>1. \A k \in Counters : used[k] \in Nat /\ used[k] <= used'[k]
    BY CountersGrow DEF Grow, UpdateInv, TypeInv, TypeOK
  <2> QED
    BY <1>2, <2>1 DEF RowsLeftAlone, RowsInv, Counters
<1>4. ~Fresh
  BY DEF Fresh, Undriven, Pristine, NoRow
<1>5. PICK s \in Jobs : Story(s)
  BY <1>2, <1>4
<1>6. \/ Outside(s) \/ Restarts \/ Waits
      \/ \E r \in Slots : Drives(r)
      \/ \E m \in Node : AgentEffect(m) \/ DeliveryEffect(m)
  BY <1>2, <1>4, <1>5, Steps DEF Story
<1> QED
  BY <1>2, <1>3, <1>5, <1>6, DoneSticks DEF Story

\* In such a run, unless rows are rolled back or deleted, no step takes a recorded
\* success back, except the one of an orchestrator that stopped waiting for the
\* node (policy_handlers.go:571).
THEOREM SuccessCorrect == Spec /\ [](Undisturbed /\ RowsLeftAlone) => SuccessSticks
<1> DEFINE Kept == \A j \in Jobs, n \in Agents :
                     target[j][n] = "Completed" /\ target'[j][n] # "Completed" =>
                       "install" \in gaveUp'[n]
<1>1. UpdateInv /\ [Next]_vars /\ (Undisturbed /\ RowsLeftAlone)' => [Kept]_vars
  BY StickStep
<1> HIDE DEF Kept
<1>2. Spec /\ [](Undisturbed /\ RowsLeftAlone) => [][Kept]_vars
  BY <1>1, UpdateInvariant, PTL DEF Spec
<1> QED
  BY <1>2 DEF Kept, SuccessSticks

-----------------------------------------------------------------------------
(* A crash of the controller.  With one start, at most one crash, and no   *)
(* failure, crash or lost report on the agents' side, Completed stays      *)
(* Completed is installed: the crash loses memory and the reports on their *)
(* way, the job is resumed from the rows, and agents that were at work go  *)
(* on by themselves.  Until the crash (NodeCalm) a row that lets a node    *)
(* install belongs to a node with a whole copy.  From then on (NodeSafe) a *)
(* node whose copy is not whole either still fetches it or is barred from  *)
(* the installation by the map, by what a goroutine read, or by its row.   *)

Installable == {"Staged", "Installing"}

OneJob(s) ==
  /\ \A r \in Slots : run[r].pc # "free" => run[r].job = s
  /\ \A n \in Node : /\ agent[n].pc # "idle" => agent[n].job = s
                     /\ wire[n] # NULL => wire[n].job = s
  /\ active # NULL => active.job = s
  /\ \A j \in Jobs \ {s} : Undriven(j)
  /\ jobStatus[s] = "Running" => resuming \/ \E r \in Slots : run[r].pc \notin {"free", "clear"}
  /\ jobStatus[s] # "none"

\* The job is about to be resumed.
ResumeDue(s) == resuming /\ jobStatus[s] = "Running"

RunsFit(s) ==
  /\ restartDue => ~resuming /\ \A r \in Slots : run[r].pc = "free"
  /\ active # NULL => \E r \in Slots : run[r].pc # "free" /\ ~Before(r)
  /\ \A r \in Slots : Prefetch(r) => active.phase = "prefetch"
  /\ active # NULL /\ active.phase = "prefetch" => \E r \in Slots : Prefetch(r)
  /\ \A r \in Slots : Install(r) => active.install \notin run[r].todo
  /\ used["ctl"] = 0 => ~ResumeDue(s)

Says(n, st) == wire[n] # NULL /\ wire[n].status \in st

\* Whatever happens next, nobody takes node n for one that may install.
Barred(n, s) ==
  /\ active # NULL => active.status[n] \notin Installable
  /\ \A r \in Slots : Before(r) => run[r].snap[n] \notin Installable
  /\ ResumeDue(s) => target[s][n] \notin Installable

\* The row has recorded a success that the map missed.
Missed(n, s) ==
  /\ target[s][n] = "Completed" /\ ~Says(n, {"Completed"})
  /\ active # NULL /\ active.status[n] \in Installable

Awaited(n) == \E r \in Slots : run[r].pc = "wait" /\ run[r].cur = n

\* The installation of n is still to be granted, or to be waited for.
Ahead(n) ==
  \/ \E r \in Slots : Prefetch(r) \/ (Install(r) /\ n \in run[r].todo)
  \/ Awaited(n)

Resting(n) == agent[n].pc = "copy" \/ (agent[n].pc = "prefetch" /\ wire[n] = NULL)

NodeSafe(n, s) ==
  /\ WireFits(n)
  /\ agent[n].pc = "idle" /\ staged[n][s] # "full" => Barred(n, s)
  /\ agentDue[n] /\ Resting(n) => Barred(n, s)
  /\ agent[n].pc = "prefetch" /\ wire[n] # NULL =>
       ~ResumeDue(s) /\ \A r \in Slots : ~Before(r)
  /\ Installing(n) \/ Says(n, {"Staged", "Installing", "Completed"}) => staged[n][s] = "full"
  /\ Says(n, {"Completed"}) \/ target[s][n] = "Completed" => DiskDone(n, s)
  /\ target[s][n] = "Completed" /\ Installing(n) =>
       /\ agent[n].pc = "install" /\ wire[n] # NULL /\ ~wire[n].stored
       /\ active # NULL /\ active.status[n] \in Installable /\ Awaited(n)
  /\ target[s][n] = "Completed" /\ wire[n] # NULL /\ wire[n].stored => wire[n].status = "Completed"
  /\ Missed(n, s) => Ahead(n)

NodeCalm(n, s) ==
  /\ target[s][n] \in Installable => staged[n][s] = "full"
  /\ agent[n].pc \in {"prefetch", "copy"} =>
       target[s][n] \notin Installable \/ (wire[n] # NULL /\ ~wire[n].stored)
  /\ agentDue[n] \/ Installing(n) =>
       /\ agent[n].pc \notin {"prefetch", "copy"}
       /\ \A r \in Slots : ~Before(r) /\ ~Prefetch(r)
  /\ ~Missed(n, s)
  /\ \A r \in Slots : Before(r) => run[r].snap[n] \notin Installable
  /\ Installing(n) => target[s][n] # "Completed"

\* Somebody drives a job, and no crash has happened.
Undisrupted == used["ctl"] = 0 /\ \E r \in Slots : run[r].pc # "free"

Recovers(s) ==
  /\ OneJob(s) /\ RunsFit(s)
  /\ \A n \in Agents : NodeSafe(n, s)
  /\ Undisrupted => \A n \in Agents : NodeCalm(n, s)

OneCrash ==
  /\ ~ConcurrentStarts /\ used["starts"] <= 1 /\ used["ctl"] <= 1
  /\ used["agents"] = 0 /\ used["failures"] = 0 /\ ~LossyReports

CoreInv == TypeInv /\ SelfInv /\ GrantInv

\* The crash, or the restart that a finished job asked for.
Crashes ==
  /\ active' = NULL /\ \A n \in Node : wire'[n] = NULL
  /\ \A r \in Slots : run'[r].pc = "free"
  /\ resuming' = TRUE /\ restartDue' = FALSE
  /\ restartDue \/ (used["ctl"] = 0 /\ used'["ctl"] = 1)
  /\ UNCHANGED <<dbVars, agent, agentDue, diskVars>>

Respawns(s) ==
  /\ UNCHANGED jobStatus
  /\ \E r \in Slots : /\ run'[r].pc = "stageCtl" /\ run'[r].job = s
                      /\ \A n \in Node : run'[r].snap[n] = target[s][n]
                      /\ \A q \in Slots \ {r} : run'[q].pc = "free"

Resumes(s) ==
  /\ resuming /\ ~resuming' /\ active = NULL /\ \A r \in Slots : run[r].pc = "free"
  /\ \/ /\ UNCHANGED run /\ jobStatus'[s] \in {jobStatus[s], "Completed"}
        /\ jobStatus'[s] # "Running" /\ \A j \in Jobs \ {s} : jobStatus'[j] = jobStatus[j]
     \/ ResumeDue(s) /\ Respawns(s)
  /\ UNCHANGED <<alive, target, active, restartDue, agentVars, diskVars, used>>

LEMMA CrashStep ==
  ASSUME CoreInv, ControllerRestart, used'["ctl"] <= 1 PROVE Crashes
<1>1. \A r \in Slots : run'[r].pc = "free"
  BY FreeRunType DEF ControllerRestart
<1>2. ASSUME ~restartDue PROVE used["ctl"] = 0 /\ used'["ctl"] = 1
  <2>1. Spend("ctl", MaxControllerRestarts) /\ used \in [Counters -> Nat]
    BY <1>2 DEF ControllerRestart, CoreInv, TypeInv, TypeOK
  <2>2. used'["ctl"] = used["ctl"] + 1 /\ used["ctl"] \in Nat
    BY <2>1, SpendEffect DEF Counters
  <2> QED
    BY <2>2
<1> QED
  BY <1>1, <1>2 DEF ControllerRestart, Crashes

LEMMA ResumeStep ==
  ASSUME CoreInv, NEW s \in Jobs, OneJob(s), RunsFit(s), Resume PROVE Resumes(s)
<1>a. /\ jobStatus \in [Jobs -> JobStatus] /\ run \in [Slots -> Run]
      /\ target \in [Jobs -> [Node -> TargetStatus \cup {NoRow}]]
  BY DEF CoreInv, TypeInv, TypeOK
<1>b. resuming /\ ~resuming' /\ \A r \in Slots : run[r].pc = "free"
  BY DEF Resume, CoreInv, GrantInv, ResumeAlone
<1>c. active = NULL
  BY <1>b DEF RunsFit
<1>d. UNCHANGED <<alive, target, active, restartDue, agentVars, diskVars, used>>
  BY DEF Resume
<1>1. CASE Running = {} /\ UNCHANGED <<jobStatus, run>>
  BY <1>b, <1>c, <1>d, <1>1 DEF Running, Resumes
<1>2. CASE Running # {}
  <2>1. PICK j \in Running :
          IF \A n \in Rows(j) : target[j][n] \in ResumeTerminal
          THEN jobStatus' = [jobStatus EXCEPT ![j] = "Completed"] /\ UNCHANGED run
          ELSE /\ UNCHANGED jobStatus
               /\ IF active # NULL THEN UNCHANGED run ELSE \E r \in Free : Spawn(r, j)
    BY <1>2 DEF Resume
  <2>2. j = s /\ jobStatus[s] = "Running"
    BY DEF Running, OneJob, Undriven
  <2>3. CASE jobStatus' = [jobStatus EXCEPT ![j] = "Completed"] /\ UNCHANGED run
    BY <1>a, <1>b, <1>c, <1>d, <2>2, <2>3 DEF Resumes
  <2>4. CASE UNCHANGED jobStatus /\ \E r \in Free : Spawn(r, j)
    <3>1. PICK r \in Slots : Spawn(r, s)
      BY <2>2, <2>4 DEF Free
    <3>2. run' = [run EXCEPT ![r] = [FreeRun EXCEPT !.pc = "stageCtl", !.job = s, !.snap = target[s]]]
      BY <3>1 DEF Spawn
    <3>3. /\ run'[r].pc = "stageCtl" /\ run'[r].job = s
          /\ \A n \in Node : run'[r].snap[n] = target[s][n]
          /\ \A q \in Slots \ {r} : run'[q].pc = "free"
      BY <1>a, <1>b, <3>2 DEF FreeRun
    <3> QED
      BY <1>b, <1>c, <1>d, <2>2, <2>4, <3>3 DEF Resumes, Respawns, ResumeDue
  <2> QED
    BY <1>c, <2>1, <2>3, <2>4
<1> QED
  BY <1>1, <1>2 DEF Resume

LEMMA DriveStep ==
  ASSUME CoreInv, NEW r \in Slots, Orchestrator(r) \/ Deadline(r)
  PROVE  Drives(r) /\ KnowsItself(r)'
<1>1. Effect(r) /\ KnowsItself(r)' /\ RunSpares
  BY RunEffect DEF CoreInv
<1>2. /\ run[r].pc # "free"
      /\ \A q \in Slots \ {r} : run'[q] = run[q] /\ run[q].pc = "free"
  BY OrchestratorType DEF CoreInv, RunStep, GrantInv, OneRun
<1> QED
  BY <1>1, <1>2 DEF Drives

\* The steps of the system while job s is driven, or waits to be resumed.
LEMMA RecoverySteps ==
  ASSUME CoreInv, NEW s \in Jobs, OneJob(s), RunsFit(s), used["starts"] = 1, OneCrash', [Next]_vars
  PROVE  \/ Outside(s) \/ Crashes \/ Resumes(s) \/ UNCHANGED vars
         \/ \E r \in Slots : Drives(r) /\ KnowsItself(r)'
         \/ \E n \in Node : AgentEffect(n) \/ DeliveryEffect(n)
<1>1. CASE Operator
  BY <1>1, OutsideStep DEF CoreInv, OneJob, OneCrash
<1>2. CASE ControllerRestart
  BY <1>2, CrashStep DEF OneCrash
<1>3. CASE Resume
  BY <1>3, ResumeStep
<1>4. ASSUME NEW r \in Slots, Orchestrator(r) \/ Deadline(r) PROVE Drives(r) /\ KnowsItself(r)'
  BY <1>4, DriveStep
<1>5. ASSUME NEW n \in Node, AgentStep(n) PROVE AgentEffect(n)
  BY <1>5, AgentEffects DEF CoreInv
<1>6. ASSUME NEW n \in Node, Delivery(n) PROVE DeliveryEffect(n)
  BY <1>6, DeliveryEffects DEF CoreInv
<1> QED
  BY <1>1, <1>2, <1>3, <1>4, <1>5, <1>6 DEF Next

LEMMA OneJobNext ==
  ASSUME CoreInv, NEW s \in Jobs, OneJob(s), RunsFit(s),
         \/ Outside(s) \/ Crashes \/ Resumes(s) \/ UNCHANGED vars
         \/ \E r \in Slots : Drives(r) /\ KnowsItself(r)'
         \/ \E n \in Node : AgentEffect(n) \/ DeliveryEffect(n)
  PROVE  OneJob(s)'
<1> USE DEF dbVars, ctlVars, agentVars, diskVars
<1>a. Agents \subseteq Node
  BY DEF Agents
<1>1. CASE Outside(s)
  <2>1. \A j \in Jobs \ {s} : Undriven(j)'
    BY <1>1 DEF Outside, OneJob, Undriven
  <2>2. jobStatus'[s] \in {jobStatus[s], "RolledBack"}
    BY <1>1 DEF Outside
  <2> QED
    BY <1>1, <2>1, <2>2 DEF Outside, OneJob
<1>2. CASE Crashes
  BY <1>2 DEF Crashes, OneJob, Undriven
<1>3. CASE Resumes(s)
  <2>1. \A j \in Jobs \ {s} : Undriven(j)'
    BY <1>3 DEF Resumes, Respawns, OneJob, Undriven
  <2>2. /\ \A r \in Slots : run'[r].pc # "free" => run'[r].job = s
        /\ jobStatus'[s] = "Running" => \E r \in Slots : run'[r].pc = "stageCtl"
        /\ jobStatus'[s] # "none"
    BY <1>3 DEF Resumes, Respawns, OneJob
  <2> QED
    BY <1>3, <2>1, <2>2 DEF Resumes, OneJob
<1>4. CASE UNCHANGED vars
  BY <1>4 DEF vars, OneJob, Undriven
<1>5. ASSUME NEW r \in Slots, Drives(r) PROVE OneJob(s)'
  <2>1. /\ run[r].job = s /\ run[r].pc # "free" /\ Effect(r) /\ KnowsItself(r)
        /\ \A q \in Slots \ {r} : run'[q].pc = "free"
        /\ UNCHANGED <<agent, wire>> /\ ~resuming
    BY <1>5 DEF Drives, OneJob, CoreInv, SelfInv, RunSpares, GrantInv, ResumeAlone
  <2>2. PhaseKept(r)
    BY <2>1, PhaseStep
  <2>3. \A n \in Agents : RowKept(r, n)
    BY <2>1, RowStep
  <2>4. run'[r].pc # "free" => run'[r].job = s
    BY <2>1 DEF Effect, Stages, Publishes, Moves, TimesOut, SetsMap, Switches, Skips, Rejects,
       Grants, Hears, StopsWaiting, Ungrants, EndsLoop, DoesController, Finishes, Clears, SameRun
  <2>5. active' # NULL => active'.job = s
    BY <2>1 DEF OneJob, Effect, Stages, Publishes, Moves, TimesOut, SetsMap, Switches, Skips, Rejects,
       Grants, Hears, StopsWaiting, Ungrants, EndsLoop, DoesController, Finishes, Clears, Mapped
  <2>6. jobStatus' = jobStatus \/ jobStatus' = [jobStatus EXCEPT ![s] = "Completed"]
    BY <2>1, <2>2 DEF PhaseKept, Finishes
  <2>7. jobStatus \in [Jobs -> JobStatus]
    BY DEF CoreInv, TypeInv, TypeOK
  <2>8. \A j \in Jobs \ {s} : Undriven(j)'
    BY <2>1, <2>3, <2>6, <2>7 DEF OneJob, Undriven, RowKept
  <2>9. jobStatus'[s] # "none" /\ (jobStatus'[s] = "Running" => run'[r].pc \notin {"free", "clear"})
    <3>1. CASE Finishes(r)
      BY <2>1, <2>7, <3>1 DEF Finishes
    <3>2. CASE Clears(r)
      <4>1. \A q \in Slots : run[q].pc \in {"free", "clear"}
        BY <1>5, <3>2 DEF Clears, Drives
      <4>2. jobStatus[s] # "Running"
        BY <2>1, <4>1 DEF OneJob
      <4> QED
        BY <3>2, <4>2 DEF Clears, SameDB, OneJob
    <3>3. CASE ~Finishes(r) /\ ~Clears(r)
      BY <2>2, <3>3 DEF PhaseKept, OneJob
    <3> QED
      BY <3>1, <3>2, <3>3
  <2> QED
    BY <2>1, <2>4, <2>5, <2>8, <2>9 DEF OneJob
<1>6. ASSUME NEW n \in Node, AgentEffect(n) PROVE OneJob(s)'
  <2>1. /\ UNCHANGED <<run, active, jobStatus, target, resuming>>
        /\ \A m \in Node : m # n => agent'[m] = agent[m] /\ wire'[m] = wire[m]
    BY <1>6 DEF AgentEffect, SameNode
  <2>2. /\ agent'[n].pc # "idle" => agent'[n].job = s
        /\ wire'[n] # NULL => wire'[n].job = s
    BY <1>6 DEF AgentEffect, OneJob, AsksPrefetch, AsksInstall, StartsCopy, EndsCopy, BreaksCopy,
       FindsNothing, StartsInstall, EndsInstall, BreaksInstall, Dies, Becomes, Posts, IdleAgent
  <2> QED
    BY <2>1, <2>2 DEF OneJob, Undriven
<1>7. ASSUME NEW n \in Node, DeliveryEffect(n) PROVE OneJob(s)'
  <2>1. /\ UNCHANGED <<run, jobStatus, agent, resuming>> /\ wire[n] # NULL /\ wire[n].job = s
        /\ \A m \in Node : m # n => wire'[m] = wire[m]
        /\ wire'[n] # NULL => wire'[n].job = s
    BY <1>7 DEF DeliveryEffect, OneJob, Stores, Applies, Loses
  <2>2. active' # NULL => active'.job = s
    BY <1>7 DEF DeliveryEffect, OneJob, Stores, Applies, Loses, Mapped
  <2>3. \A j \in Jobs, m \in Agents : j # s => target'[j][m] = target[j][m]
    BY <1>7, <1>a, <2>1 DEF DeliveryEffect, Stores, Applies, Loses, Stored
  <2> QED
    BY <2>1, <2>2, <2>3 DEF OneJob, Undriven
<1> QED
  BY <1>1, <1>2, <1>3, <1>4, <1>5, <1>6, <1>7

\* The goroutine that is alive, and the record it keeps.
LEMMA Driver ==
  ASSUME CoreInv, NEW s \in Jobs, OneJob(s), RunsFit(s), NEW r \in Slots, run[r].pc # "free"
  PROVE  /\ run[r].job = s /\ KnowsItself(r) /\ ~resuming /\ ~restartDue
         /\ \A q \in Slots \ {r} : run[q].pc = "free"
         /\ Before(r) => active = NULL
         /\ ~Before(r) => active # NULL /\ active.job = s
         /\ Before(r) \/ Prefetch(r) \/ Install(r) \/ After(r)
<1>1. \A q \in Slots \ {r} : run[q].pc = "free"
  BY DEF CoreInv, GrantInv, OneRun
<1>2. KnowsItself(r) /\ Follows(r) /\ run[r].job = s
  BY DEF CoreInv, SelfInv, GrantInv, OneJob
<1>3. ~resuming /\ ~restartDue
  BY DEF CoreInv, GrantInv, ResumeAlone, RunsFit
<1>4. Before(r) => active = NULL
  BY <1>1 DEF RunsFit
<1>5. ~Before(r) => active # NULL /\ active.job = s
  BY <1>2 DEF Follows, Before
<1>6. Before(r) \/ Prefetch(r) \/ Install(r) \/ After(r)
  <2>1. run[r].pc \in RunPC
    BY DEF CoreInv, TypeInv, TypeOK, Run
  <2> QED
    BY <1>2, <2>1 DEF RunPC, KnowsItself, Before, Prefetch, Install, Holder, After
<1> QED
  BY <1>1, <1>2, <1>3, <1>4, <1>5, <1>6

LEMMA RunsFitDrives ==
  ASSUME CoreInv, NEW s \in Jobs, OneJob(s), RunsFit(s),
         NEW r \in Slots, Drives(r), KnowsItself(r)'
  PROVE  RunsFit(s)'
<1>a. /\ run[r].pc # "free" /\ Effect(r) /\ RunSpares /\ run[r].job = s /\ KnowsItself(r)
      /\ ~resuming /\ ~resuming' /\ ~restartDue
      /\ \A q \in Slots \ {r} : run[q].pc = "free" /\ run'[q].pc = "free"
      /\ Before(r) => active = NULL
      /\ ~Before(r) => active # NULL
  BY Driver DEF Drives, RunSpares
<1>b. PhaseKept(r)
  BY <1>a, PhaseStep
<1>c. \A q \in Slots \ {r} : ~Before(q)' /\ ~Prefetch(q)' /\ ~Install(q)'
  BY <1>a DEF Before, Prefetch, Install, Holder
<1>d. /\ Prefetch(r) => active.phase = "prefetch"
      /\ active # NULL /\ active.phase = "prefetch" => Prefetch(r)
      /\ Install(r) => active.install \notin run[r].todo
  <2>1. \A q \in Slots \ {r} : ~Prefetch(q)
    BY <1>a DEF Prefetch
  <2> QED
    BY <2>1 DEF RunsFit
<1>1. restartDue' => \A q \in Slots : run'[q].pc = "free"
  <2>1. Clears(r) \/ restartDue' = restartDue
    BY <1>a DEF Effect, Stages, Publishes, Moves, TimesOut, SetsMap, Switches, Skips, Rejects,
       Grants, Hears, StopsWaiting, Ungrants, EndsLoop, DoesController, Finishes
  <2> QED
    BY <1>a, <2>1 DEF Clears
<1>2. active' # NULL => run'[r].pc # "free" /\ ~Before(r)'
  <2>1. run'[r].pc = "free" => active' = NULL
    BY <1>b DEF PhaseKept, Clears
  <2>2. Before(r)' => active' = NULL
    BY <1>a, <1>b DEF PhaseKept, Stages
  <2> QED
    BY <2>1, <2>2
<1>3. /\ Prefetch(r)' => active'.phase = "prefetch"
      /\ active' # NULL /\ active'.phase = "prefetch" => Prefetch(r)'
  <2>1. CASE Before(r)
    <3>1. Stages(r) \/ Publishes(r)
      BY <1>a, <2>1 DEF Effect, Before, Prefetch, Install, Holder, Moves, TimesOut, SetsMap, Switches,
         Skips, Rejects, Grants, Hears, StopsWaiting, Ungrants, EndsLoop, DoesController, Finishes, Clears
    <3> QED
      BY <1>a, <2>1, <3>1 DEF Stages, Publishes, Before, Prefetch
  <2>2. CASE Prefetch(r)
    <3>1. Moves(r) \/ TimesOut(r) \/ SetsMap(r) \/ Switches(r)
      BY <1>a, <2>2 DEF Effect, Before, Prefetch, Holder, Stages, Publishes,
         Skips, Rejects, Grants, Hears, StopsWaiting, Ungrants, EndsLoop, DoesController, Finishes, Clears
    <3>2. SetsMap(r) => Prefetch(r)' /\ active'.phase = active.phase
      BY <2>2 DEF SetsMap, Prefetch, Mapped
    <3> QED
      BY <1>a, <1>d, <2>2, <3>1, <3>2 DEF Moves, TimesOut, Switches, Prefetch
  <2>3. CASE ~Before(r) /\ ~Prefetch(r)
    <3>1. ~Prefetch(r)'
      BY <1>b, <2>3 DEF PhaseKept
    <3>2. active' = NULL \/ active'.phase = active.phase
      BY <1>a, <2>3 DEF Effect, Before, Prefetch, Stages, Publishes, Moves, TimesOut, SetsMap, Switches,
         Skips, Rejects, Grants, Hears, StopsWaiting, Ungrants, EndsLoop, DoesController, Finishes, Clears, Mapped
    <3> QED
      BY <1>a, <1>d, <2>3, <3>1, <3>2
  <2> QED
    BY <2>1, <2>2, <2>3
<1>4. Install(r)' => active'.install \notin run'[r].todo
  <2>a. run'[r].todo \subseteq Agents /\ NULL \notin Agents
    BY NodeAssumption DEF KnowsItself, Agents
  <2>1. CASE Switches(r) \/ Ungrants(r)
    BY <1>a, <2>1, <2>a DEF Switches, Ungrants, Prefetch, Before
  <2>2. CASE Grants(r)
    BY <1>a, <2>2 DEF Grants, Before
  <2>3. ASSUME Install(r)', ~Switches(r), ~Ungrants(r), ~Grants(r)
        PROVE  active'.install \notin run'[r].todo
    <3>1. Install(r) /\ run'[r].todo \subseteq run[r].todo
      BY <1>b, <2>3 DEF PhaseKept
    <3>2. active'.install = active.install
      BY <1>a, <2>3, <3>1 DEF Effect, Before, Prefetch, Install, Holder, After, Stages, Publishes, Moves,
         TimesOut, SetsMap, Skips, Rejects, Hears, StopsWaiting, EndsLoop, DoesController, Finishes,
         Clears, Mapped
    <3> QED
      BY <1>d, <3>1, <3>2
  <2> QED
    BY <2>1, <2>2, <2>3
<1> QED
  BY <1>a, <1>c, <1>1, <1>2, <1>3, <1>4 DEF RunsFit, ResumeDue

LEMMA RunsFitNext ==
  ASSUME CoreInv, NEW s \in Jobs, OneJob(s), RunsFit(s), used["ctl"] \in Nat,
         used'["ctl"] = 0 => used["ctl"] = 0,
         \/ Outside(s) \/ Crashes \/ Resumes(s) \/ UNCHANGED vars
         \/ \E r \in Slots : Drives(r) /\ KnowsItself(r)'
         \/ \E n \in Node : AgentEffect(n) \/ DeliveryEffect(n)
  PROVE  RunsFit(s)'
<1> USE DEF dbVars, ctlVars, agentVars, diskVars
<1>1. CASE Outside(s)
  BY <1>1 DEF Outside, RunsFit, ResumeDue, Before, Prefetch, Install, Holder
<1>2. CASE Crashes
  <2>1. used'["ctl"] = 0 => jobStatus[s] # "Running"
    BY <1>2 DEF Crashes, RunsFit, OneJob
  <2> QED
    BY <1>2, <2>1 DEF Crashes, RunsFit, ResumeDue, Prefetch, Install, Holder
<1>3. CASE Resumes(s)
  <2>1. \A r \in Slots : run'[r].pc \in {"free", "stageCtl"}
    BY <1>3 DEF Resumes, Respawns
  <2>2. active' = NULL /\ ~resuming' /\ ~restartDue'
    BY <1>3 DEF Resumes, RunsFit
  <2> QED
    BY <2>1, <2>2 DEF RunsFit, ResumeDue, Prefetch, Install, Holder
<1>4. CASE UNCHANGED vars
  BY <1>4 DEF vars, RunsFit, ResumeDue, Before, Prefetch, Install, Holder
<1>5. ASSUME NEW r \in Slots, Drives(r), KnowsItself(r)' PROVE RunsFit(s)'
  BY <1>5, RunsFitDrives
<1>6. ASSUME NEW n \in Node, AgentEffect(n) PROVE RunsFit(s)'
  BY <1>6 DEF AgentEffect, RunsFit, ResumeDue, Before, Prefetch, Install, Holder
<1>7. ASSUME NEW n \in Node, DeliveryEffect(n) PROVE RunsFit(s)'
  <2>1. /\ active' # NULL <=> active # NULL
        /\ active # NULL => active'.phase = active.phase /\ active'.install = active.install
    BY <1>7 DEF DeliveryEffect, Stores, Applies, Loses, Mapped
  <2>2. UNCHANGED <<run, jobStatus, resuming, restartDue, used>>
    BY <1>7 DEF DeliveryEffect
  <2>3. active = NULL => UNCHANGED active
    BY <1>7 DEF DeliveryEffect, Stores, Applies, Loses
  <2> QED
    BY <2>1, <2>2, <2>3 DEF RunsFit, ResumeDue, Before, Prefetch, Install, Holder
<1> QED
  BY <1>1, <1>2, <1>3, <1>4, <1>5, <1>6, <1>7

-----------------------------------------------------------------------------
(* What one node has to do with a step that is not its own.                *)

\* Everything the invariant says of node n is as it was.
SameView(n, s) ==
  /\ agent'[n] = agent[n] /\ wire'[n] = wire[n] /\ agentDue'[n] = agentDue[n]
  /\ staged'[n] = staged[n] /\ release'[n] = release[n] /\ current'[n] = current[n]
  /\ bin'[n] = bin[n]

LEMMA NodesBegin ==
  ASSUME Fresh, NEW s \in Jobs, Begins(s), ~resuming', NEW n \in Agents
  PROVE  NodeSafe(n, s)' /\ NodeCalm(n, s)'
<1> USE DEF diskVars
<1>1. /\ n \in Node /\ agent'[n].pc = "idle" /\ wire'[n] = NULL /\ ~agentDue'[n] /\ active' = NULL
      /\ target'[s][n] \in Pristine
  BY DEF Fresh, Begins, Untouched, Undriven, Agents
<1>2. \A r \in Slots : run'[r].pc = "free" \/ run'[r].snap[n] \in Pristine
  BY <1>1 DEF Fresh, Begins, Undriven, Agents
<1>3. \A st \in Pristine : st \notin Installable /\ st # "Completed"
  BY DEF Pristine, NoRow, Installable
<1>4. Barred(n, s)'
  BY <1>1, <1>2, <1>3 DEF Barred, ResumeDue, Before
<1>5. ~Says(n, {"Completed"})' /\ ~Says(n, {"Staged", "Installing", "Completed"})' /\ ~Missed(n, s)'
  BY <1>1 DEF Says, Missed
<1>6. NodeSafe(n, s)'
  BY <1>1, <1>3, <1>4, <1>5 DEF NodeSafe, WireFits, Resting, Installing
<1>7. NodeCalm(n, s)'
  BY <1>1, <1>2, <1>3, <1>5 DEF NodeCalm, Installing, Before
<1> QED
  BY <1>6, <1>7

LEMMA NodesOutside ==
  ASSUME NEW s \in Jobs, Outside(s), NEW n \in Agents
  PROVE  NodeSafe(n, s) => NodeSafe(n, s)'
<1> USE DEF diskVars
<1>1. /\ SameView(n, s) /\ UNCHANGED <<active, run, resuming>>
      /\ target'[s][n] \in Installable \cup {"Completed"} => target'[s][n] = target[s][n]
      /\ ResumeDue(s)' => ResumeDue(s)
  BY DEF Outside, SameView, Pristine, NoRow, Installable, ResumeDue
<1>2. /\ Barred(n, s) => Barred(n, s)'
      /\ Missed(n, s)' => Missed(n, s)
      /\ Ahead(n)' <=> Ahead(n)
      /\ Awaited(n)' <=> Awaited(n)
  BY <1>1 DEF SameView, Barred, Before, Missed, Says, Ahead, Awaited, Prefetch, Install, Holder, Installable
<1> QED
  BY <1>1, <1>2 DEF SameView, NodeSafe, WireFits, Resting, Installing, Says, DiskDone, Before, Installable

LEMMA CalmOutside ==
  ASSUME NEW s \in Jobs, Outside(s), NEW n \in Agents
  PROVE  NodeCalm(n, s) => NodeCalm(n, s)'
<1> USE DEF diskVars
<1>1. /\ SameView(n, s) /\ UNCHANGED <<active, run>>
      /\ target'[s][n] \in Installable \cup {"Completed"} => target'[s][n] = target[s][n]
  BY DEF Outside, SameView, Pristine, NoRow, Installable
<1>2. Missed(n, s)' => Missed(n, s)
  BY <1>1 DEF SameView, Missed, Says
<1> QED
  BY <1>1, <1>2 DEF SameView, NodeCalm, Installing, Before, Prefetch

LEMMA NodesCrash ==
  ASSUME NEW s \in Jobs, OneJob(s), RunsFit(s), Crashes, NEW n \in Agents, NodeSafe(n, s),
         Undisrupted => NodeCalm(n, s)
  PROVE  NodeSafe(n, s)'
<1> USE DEF dbVars, diskVars
<1>0. /\ agent'[n] = agent[n] /\ agentDue'[n] = agentDue[n] /\ staged'[n] = staged[n]
      /\ release'[n] = release[n] /\ current'[n] = current[n] /\ bin'[n] = bin[n]
      /\ wire'[n] = NULL /\ active' = NULL /\ target' = target /\ jobStatus' = jobStatus
  BY DEF Crashes, Agents
<1>1. \A r \in Slots : ~Before(r)'
  BY DEF Crashes, Before
<1>2. ResumeDue(s)' => Undisrupted
  <2>1. CASE restartDue
    <3>1. jobStatus[s] # "Running"
      BY <2>1 DEF OneJob, RunsFit
    <3> QED
      BY <1>0, <3>1 DEF ResumeDue
  <2>2. CASE ~restartDue
    <3>1. used["ctl"] = 0 /\ ~ResumeDue(s)
      BY <2>2 DEF Crashes, RunsFit
    <3> QED
      BY <1>0, <3>1 DEF ResumeDue, OneJob, Undisrupted
  <2> QED
    BY <2>1, <2>2
<1>3. Barred(n, s)' \/ (Undisrupted /\ target[s][n] \in Installable)
  BY <1>0, <1>1, <1>2 DEF Barred
<1>4. Installing(n) => target[s][n] # "Completed"
  <2>1. CASE Undisrupted
    BY <2>1 DEF NodeCalm
  <2>2. CASE ~Undisrupted
    <3>1. \A r \in Slots : run[r].pc = "free"
      BY <2>2 DEF Undisrupted, Crashes, RunsFit
    <3> QED
      BY <3>1 DEF NodeSafe, Awaited
  <2> QED
    BY <2>1, <2>2
<1>5. staged[n][s] # "full" => Barred(n, s)'
  BY <1>3 DEF NodeCalm
<1>6. agentDue[n] /\ agent[n].pc \in {"copy", "prefetch"} => Barred(n, s)'
  BY <1>3 DEF NodeCalm
<1>7. \A st : ~Says(n, st)'
  BY <1>0 DEF Says
<1> QED
  BY <1>0, <1>1, <1>4, <1>5, <1>6, <1>7 DEF NodeSafe, WireFits, Resting, Installing, DiskDone, Missed

LEMMA NodesResume ==
  ASSUME NEW s \in Jobs, RunsFit(s), Resumes(s), NEW n \in Agents, NodeSafe(n, s)
  PROVE  NodeSafe(n, s)'
<1> USE DEF dbVars, agentVars, diskVars
<1>1. /\ SameView(n, s) /\ active = NULL /\ active' = NULL /\ target' = target /\ n \in Node
      /\ ~ResumeDue(s)' /\ ~Awaited(n)
  BY DEF Resumes, SameView, Agents, ResumeDue, Awaited
<1>2. \A r \in Slots : Before(r)' => ResumeDue(s) /\ run'[r].snap[n] = target[s][n]
  BY <1>1 DEF Resumes, Respawns, Before
<1>3. Barred(n, s) => Barred(n, s)'
  BY <1>1, <1>2 DEF Barred
<1>4. ~Missed(n, s)' /\ \A st : Says(n, st)' <=> Says(n, st)
  BY <1>1 DEF Missed, Says, SameView
<1>5. Installing(n) => target[s][n] # "Completed"
  BY <1>1 DEF NodeSafe
<1> QED
  BY <1>1, <1>2, <1>3, <1>4, <1>5 DEF SameView, NodeSafe, WireFits, Resting, Installing, DiskDone

\* What a step of the goroutine leaves of a node, its row and its map entry.
LEMMA DriveView ==
  ASSUME CoreInv, NEW s \in Jobs, OneJob(s), RunsFit(s),
         NEW r \in Slots, Drives(r), NEW n \in Agents
  PROVE  /\ SameView(n, s) /\ used'["ctl"] = used["ctl"] /\ run[r].pc # "free"
         /\ \A q \in Slots \ {r} : run[q].pc = "free" /\ run'[q].pc = "free"
         /\ target'[s][n] \in Installable \cup {"Completed"} => target'[s][n] = target[s][n]
         /\ active' # NULL /\ active'.status[n] \in Installable =>
              \/ active # NULL /\ active'.status[n] = active.status[n]
              \/ Publishes(r) /\ active'.status[n] = run[r].snap[n]
         /\ Before(r)' => Before(r) /\ run'[r].snap[n] = run[r].snap[n]
         /\ Prefetch(r)' => Before(r) \/ Prefetch(r)
         /\ ~ResumeDue(s) /\ ~ResumeDue(s)'
<1> USE DEF agentVars
<1>a. /\ run[r].pc # "free" /\ Effect(r) /\ RunSpares /\ run[r].job = s /\ KnowsItself(r)
      /\ ~resuming /\ ~resuming'
      /\ \A q \in Slots \ {r} : run[q].pc = "free" /\ run'[q].pc = "free"
  BY Driver DEF Drives, RunSpares
<1>b. PhaseKept(r) /\ RowKept(r, n) /\ MapKept(r, n)
  BY <1>a, PhaseStep, RowStep, MapStep
<1>1. bin'[n] = bin[n]
  BY <1>a DEF Effect, Stages, Publishes, Moves, TimesOut, SetsMap, Switches, Skips, Rejects,
     Grants, Hears, StopsWaiting, Ungrants, EndsLoop, DoesController, Finishes, Clears, SameDB
<1>2. SameView(n, s) /\ used'["ctl"] = used["ctl"]
  BY <1>a, <1>1 DEF SameView, RunSpares, Spends
<1>3. target'[s][n] \in Installable \cup {"Completed"} => target'[s][n] = target[s][n]
  BY <1>a, <1>b DEF RowKept, Installable
<1>4. Publishes(r) /\ active'.status[n] \in Installable => active'.status[n] = run[r].snap[n]
  BY DEF Publishes, Agents, Unset, Installable
<1>5. active' # NULL /\ active'.status[n] \in Installable =>
        \/ active # NULL /\ active'.status[n] = active.status[n]
        \/ Publishes(r) /\ active'.status[n] = run[r].snap[n]
  BY <1>b, <1>4 DEF MapKept, Installable
<1>6. /\ Before(r)' => Before(r) /\ run'[r].snap[n] = run[r].snap[n]
      /\ Prefetch(r)' => Before(r) \/ Prefetch(r)
  BY <1>b DEF PhaseKept, Stages
<1> QED
  BY <1>a, <1>2, <1>3, <1>5, <1>6 DEF ResumeDue

\* Whoever is ahead stays ahead, until the map or the row knows better.
LEMMA AheadDrives ==
  ASSUME CoreInv, NEW s \in Jobs, OneJob(s), RunsFit(s),
         NEW r \in Slots, Drives(r), NEW n \in Agents, Ahead(n),
         target[s][n] = "Completed", target'[s][n] = "Completed",
         active # NULL, active.status[n] \in Installable, active' # NULL,
         active'.status[n] \in Installable
  PROVE  Ahead(n)' /\ ~(run[r].pc = "wait" /\ run[r].cur = n)
<1>a. /\ run[r].pc # "free" /\ Effect(r) /\ run[r].job = s /\ KnowsItself(r) /\ n \in Node
      /\ \A q \in Slots \ {r} : run[q].pc = "free"
  BY Driver DEF Drives, Agents
<1>b. /\ active.status[n] \notin InstallSkips /\ active.status[n] \notin InstallFinished
      /\ MapStatus(n) = active.status[n] /\ Seen(r, n) = active.status[n]
  BY DEF Installable, InstallSkips, InstallFinished, MapStatus, Seen, Unset
<1>c. \A m \in Node, st \in {"InstallFailed", "DownloadFailed"} : Stored(s, m, st) => m # n
  BY <1>a DEF Stored, NoRow
<1>1. \/ Prefetch(r) \/ (Install(r) /\ n \in run[r].todo)
      \/ run[r].pc = "wait" /\ run[r].cur = n
  BY <1>a DEF Ahead, Awaited, Prefetch, Install, Holder
<1>2. ~(run[r].pc = "wait" /\ run[r].cur = n)
  <2>1. ASSUME run[r].pc = "wait", run[r].cur = n PROVE FALSE
    <3>1. Hears(r) \/ StopsWaiting(r)
      BY <1>a, <2>1 DEF Effect, Before, Prefetch, Install, Holder, Stages, Publishes, Moves, TimesOut,
         SetsMap, Switches, Skips, Rejects, Grants, Ungrants, EndsLoop, DoesController, Finishes, Clears
    <3> QED
      BY <1>a, <1>b, <1>c, <2>1, <3>1 DEF Hears, StopsWaiting
  <2> QED
    BY <2>1
<1>3. CASE Prefetch(r)
  <2>1. Moves(r) \/ TimesOut(r) \/ SetsMap(r) \/ Switches(r)
    BY <1>a, <1>3 DEF Effect, Before, Prefetch, Holder, Stages, Publishes,
       Skips, Rejects, Grants, Hears, StopsWaiting, Ungrants, EndsLoop, DoesController, Finishes, Clears
  <2>2. CASE Moves(r) \/ TimesOut(r)
    BY <1>2, <2>2 DEF Moves, TimesOut, Ahead
  <2>3. CASE SetsMap(r)
    <3>1. Prefetch(r)'
      BY <1>3, <2>3 DEF SetsMap, Prefetch
    <3> QED
      BY <1>2, <3>1 DEF Ahead
  <2>4. CASE Switches(r)
    <3>1. n \in run'[r].todo /\ Install(r)'
      BY <1>a, <2>4 DEF Switches, AgentRows, Install, NoRow
    <3> QED
      BY <1>2, <3>1 DEF Ahead
  <2> QED
    BY <2>1, <2>2, <2>3, <2>4
<1>4. CASE Install(r) /\ n \in run[r].todo
  <2>1. CASE SetsMap(r)
    <3>1. Install(r)' /\ n \in run'[r].todo
      BY <1>4, <2>1 DEF SetsMap, Install, Holder
    <3> QED
      BY <1>2, <3>1 DEF Ahead
  <2>2. CASE Skips(r) \/ Rejects(r) \/ Hears(r) \/ StopsWaiting(r) \/ Ungrants(r)
    <3>1. Install(r)' /\ n \in run'[r].todo
      BY <1>a, <1>b, <1>c, <1>4, <2>2 DEF Skips, Rejects, Hears, StopsWaiting, Ungrants, Install, Holder,
         KnowsItself, Agents
    <3> QED
      BY <1>2, <3>1 DEF Ahead
  <2>3. CASE Grants(r)
    <3>1. Install(r)' /\ (n \in run'[r].todo \/ (run'[r].pc = "wait" /\ run'[r].cur = n))
      BY <1>4, <2>3 DEF Grants, Install, Holder
    <3> QED
      BY <1>2, <3>1 DEF Ahead, Awaited
  <2>4. ~(Stages(r) \/ Publishes(r) \/ Moves(r) \/ TimesOut(r) \/ Switches(r) \/ EndsLoop(r)
          \/ DoesController(r) \/ Finishes(r) \/ Clears(r))
    BY <1>4 DEF Before, Prefetch, Install, Holder, Stages, Publishes, Moves, TimesOut,
       Switches, EndsLoop, DoesController, Finishes, Clears
  <2> QED
    BY <1>a, <2>1, <2>2, <2>3, <2>4 DEF Effect
<1> QED
  BY <1>1, <1>2, <1>3, <1>4

LEMMA NodesDrive ==
  ASSUME CoreInv, NEW s \in Jobs, OneJob(s), RunsFit(s),
         NEW r \in Slots, Drives(r), NEW n \in Agents, NodeSafe(n, s)
  PROVE  NodeSafe(n, s)'
<1>a. /\ SameView(n, s) /\ run[r].pc # "free"
      /\ \A q \in Slots \ {r} : run[q].pc = "free" /\ run'[q].pc = "free"
      /\ target'[s][n] \in Installable \cup {"Completed"} => target'[s][n] = target[s][n]
      /\ active' # NULL /\ active'.status[n] \in Installable =>
           \/ active # NULL /\ active'.status[n] = active.status[n]
           \/ Publishes(r) /\ active'.status[n] = run[r].snap[n]
      /\ Before(r)' => Before(r) /\ run'[r].snap[n] = run[r].snap[n]
      /\ ~ResumeDue(s) /\ ~ResumeDue(s)'
  BY DriveView
<1>b. \A st : Says(n, st)' <=> Says(n, st)
  BY <1>a DEF Says, SameView
<1>c. \A q \in Slots : Before(q)' => Before(q) /\ run'[q].snap[n] = run[q].snap[n]
  BY <1>a DEF Before
<1>1. Barred(n, s) => Barred(n, s)'
  BY <1>a, <1>c DEF Barred, Publishes
<1>2. Missed(n, s)' => Ahead(n)'
  <2>1. CASE Publishes(r)
    BY <2>1 DEF Publishes, Ahead
  <2>2. ASSUME ~Publishes(r), Missed(n, s)' PROVE Ahead(n)'
    <3>1. Missed(n, s) /\ active'.status[n] = active.status[n]
      BY <1>a, <1>b, <2>2 DEF Missed
    <3> QED
      BY <2>2, <3>1, AheadDrives DEF Missed, NodeSafe
  <2> QED
    BY <2>1, <2>2
<1>3. target'[s][n] = "Completed" /\ Installing(n)' =>
        /\ agent'[n].pc = "install" /\ wire'[n] # NULL /\ ~wire'[n].stored
        /\ active' # NULL /\ active'.status[n] \in Installable /\ Awaited(n)'
  <2> SUFFICES ASSUME target'[s][n] = "Completed", Installing(n)' PROVE FALSE
    OBVIOUS
  <2>1. /\ target[s][n] = "Completed" /\ active # NULL /\ active.status[n] \in Installable
        /\ Awaited(n)
    BY <1>a DEF SameView, Installing, NodeSafe
  <2>2. run[r].pc = "wait" /\ run[r].cur = n
    BY <1>a, <2>1 DEF Awaited
  <2>3. Hears(r) \/ StopsWaiting(r)
    BY <2>2 DEF Drives, Effect, Before, Prefetch, Install, Holder, Stages, Publishes, Moves, TimesOut,
       SetsMap, Switches, Skips, Rejects, Grants, Ungrants, EndsLoop, DoesController, Finishes, Clears
  <2>4. active' = active
    BY <2>3 DEF Hears, StopsWaiting
  <2> QED
    BY <2>1, <2>2, <2>4, AheadDrives DEF Ahead
<1> QED
  BY <1>a, <1>b, <1>c, <1>1, <1>2, <1>3 DEF SameView, NodeSafe, WireFits, Resting, Installing, DiskDone

LEMMA CalmDrives ==
  ASSUME CoreInv, NEW s \in Jobs, OneJob(s), RunsFit(s),
         NEW r \in Slots, Drives(r), NEW n \in Agents, NodeCalm(n, s)
  PROVE  NodeCalm(n, s)'
<1>a. /\ SameView(n, s)
      /\ \A q \in Slots \ {r} : run[q].pc = "free" /\ run'[q].pc = "free"
      /\ target'[s][n] \in Installable \cup {"Completed"} => target'[s][n] = target[s][n]
      /\ active' # NULL /\ active'.status[n] \in Installable =>
           \/ active # NULL /\ active'.status[n] = active.status[n]
           \/ Publishes(r) /\ active'.status[n] = run[r].snap[n]
      /\ Before(r)' => Before(r) /\ run'[r].snap[n] = run[r].snap[n]
      /\ Prefetch(r)' => Before(r) \/ Prefetch(r)
  BY DriveView
<1>1. \A q \in Slots : /\ Before(q)' => Before(q) /\ run'[q].snap[n] = run[q].snap[n]
                       /\ Prefetch(q)' => Before(q) \/ Prefetch(q)
  BY <1>a DEF Before, Prefetch
<1>2. ~Missed(n, s)'
  BY <1>a DEF NodeCalm, Missed, Says, SameView, Publishes
<1> QED
  BY <1>a, <1>1, <1>2 DEF SameView, NodeCalm, Installing, Installable

\* Nothing that the invariant says of node n has changed, wherever it is kept.
Apart(n, s) ==
  /\ SameView(n, s) /\ UNCHANGED <<run, jobStatus, resuming>>
  /\ target'[s][n] = target[s][n]
  /\ active' = NULL <=> active = NULL
  /\ active # NULL => active'.status[n] = active.status[n]

LEMMA NodesApart ==
  ASSUME NEW s \in Jobs, NEW n \in Agents, Apart(n, s)
  PROVE  (NodeSafe(n, s) => NodeSafe(n, s)') /\ (NodeCalm(n, s) => NodeCalm(n, s)')
<1>1. /\ Barred(n, s) => Barred(n, s)'
      /\ Missed(n, s)' => Missed(n, s)
      /\ ResumeDue(s)' <=> ResumeDue(s)
      /\ Ahead(n)' <=> Ahead(n)
      /\ Awaited(n)' <=> Awaited(n)
      /\ \A st : Says(n, st)' <=> Says(n, st)
  BY DEF Apart, SameView, Barred, Before, ResumeDue, Missed, Says, Ahead, Awaited, Prefetch, Install, Holder
<1>2. NodeSafe(n, s) => NodeSafe(n, s)'
  BY <1>1 DEF Apart, SameView, NodeSafe, WireFits, Resting, Installing, DiskDone, Before
<1>3. NodeCalm(n, s) => NodeCalm(n, s)'
  BY <1>1 DEF Apart, SameView, NodeCalm, Installing, Before, Prefetch
<1> QED
  BY <1>2, <1>3

\* What an agent's step leaves alone, its own news aside.
LEMMA AgentView ==
  ASSUME NEW s \in Jobs, NEW n \in Agents, AgentEffect(n)
  PROVE  /\ n \in Node /\ UNCHANGED <<active, run, target, used["ctl"]>>
         /\ Barred(n, s)' <=> Barred(n, s)
         /\ ResumeDue(s)' <=> ResumeDue(s)
         /\ Ahead(n)' <=> Ahead(n)
         /\ Awaited(n)' <=> Awaited(n)
         /\ \A r \in Slots : (Before(r)' <=> Before(r)) /\ (Prefetch(r)' <=> Prefetch(r))
         /\ Missed(n, s)' /\ ~Says(n, {"Completed"}) => Missed(n, s)
  BY DEF AgentEffect, dbVars, ctlVars, Agents, Barred, Before, ResumeDue, Ahead, Awaited, Prefetch,
     Install, Holder, Missed

LEMMA PostedReport ==
  ASSUME NEW n, NEW j \in Jobs, NEW st \in Reported, Posts(n, j, st)
  PROVE  /\ wire'[n] # NULL /\ wire'[n].status = st /\ ~wire'[n].stored
         /\ \A sts : Says(n, sts)' <=> st \in sts
<1>1. wire'[n] = [job |-> j, status |-> st, stored |-> FALSE]
  BY DEF Posts
<1>2. wire'[n] \in Report
  BY <1>1 DEF Report
<1>3. wire'[n] # NULL
  BY <1>2, NullAssumption
<1> QED
  BY <1>1, <1>3 DEF Says

\* An agent that works, works for the job; nothing fails under it.
LEMMA AgentWorks ==
  ASSUME CoreInv, NEW s \in Jobs, OneJob(s), RunsFit(s), OneCrash',
         NEW n \in Agents, AgentEffect(n), NodeSafe(n, s)
  PROVE  /\ \/ AsksPrefetch(n) \/ AsksInstall(n) \/ StartsCopy(n) \/ EndsCopy(n)
            \/ StartsInstall(n) \/ EndsInstall(n)
            \/ Dies(n) /\ agentDue[n] /\ wire[n] = NULL
         /\ agent[n].pc # "idle" => agent[n].job = s
         /\ active # NULL => /\ active.job = s /\ ~resuming /\ \A r \in Slots : ~Before(r)
                             /\ active.phase = "prefetch" => \E r \in Slots : Prefetch(r)
                             /\ active.phase # "prefetch" => \A r \in Slots : ~Prefetch(r)
<1>1. agent[n].pc # "idle" => agent[n].job = s
  BY DEF OneJob, Agents
<1>2. used'["failures"] = 0 /\ used'["agents"] = 0
  BY DEF OneCrash
<1>3. ~BreaksCopy(n) /\ ~BreaksInstall(n)
  BY <1>2 DEF BreaksCopy, BreaksInstall
<1>4. ~FindsNothing(n)
  BY <1>1 DEF FindsNothing, NodeSafe, Installing
<1>5. ASSUME active # NULL
      PROVE  /\ active.job = s /\ ~resuming /\ \A r \in Slots : ~Before(r)
             /\ active.phase = "prefetch" => \E r \in Slots : Prefetch(r)
             /\ active.phase # "prefetch" => \A r \in Slots : ~Prefetch(r)
  <2>1. PICK r \in Slots : run[r].pc # "free" /\ ~Before(r)
    BY <1>5 DEF RunsFit
  <2>2. ~resuming /\ active.job = s /\ \A q \in Slots \ {r} : run[q].pc = "free"
    BY <2>1, Driver
  <2> QED
    BY <1>5, <2>1, <2>2 DEF RunsFit, Before
<1>6. Dies(n) => agentDue[n] /\ wire[n] = NULL
  BY <1>2 DEF Dies
<1> QED
  BY <1>1, <1>3, <1>4, <1>5, <1>6 DEF AgentEffect

LEMMA NodesAgent ==
  ASSUME CoreInv, NEW s \in Jobs, OneJob(s), RunsFit(s), OneCrash',
         NEW n \in Agents, AgentEffect(n), NodeSafe(n, s)
  PROVE  NodeSafe(n, s)'
<1>a. /\ n \in Node /\ UNCHANGED <<active, run, target>>
      /\ Barred(n, s)' <=> Barred(n, s)
      /\ ResumeDue(s)' <=> ResumeDue(s)
      /\ Ahead(n)' <=> Ahead(n)
      /\ Awaited(n)' <=> Awaited(n)
      /\ \A r \in Slots : (Before(r)' <=> Before(r)) /\ (Prefetch(r)' <=> Prefetch(r))
      /\ Missed(n, s)' /\ ~Says(n, {"Completed"}) => Missed(n, s)
  BY AgentView
<1>b. /\ agent[n].pc # "idle" => agent[n].job = s
      /\ active # NULL => /\ active.job = s /\ ~resuming /\ \A r \in Slots : ~Before(r)
                          /\ active.phase # "prefetch" => \A r \in Slots : ~Prefetch(r)
  BY AgentWorks
<1>c. wire[n] = NULL => \A sts : ~Says(n, sts)
  BY DEF Says
<1>1. CASE AsksPrefetch(n)
  <2>1. /\ wire[n] = NULL /\ agent'[n].pc = "prefetch" /\ SameDisk(n) /\ active # NULL
    BY <1>1 DEF AsksPrefetch, Becomes
  <2>2. /\ wire'[n] # NULL /\ wire'[n].status = "Prefetching" /\ ~wire'[n].stored
        /\ \A sts : Says(n, sts)' <=> "Prefetching" \in sts
    BY <1>1, <1>b, <2>1, PostedReport DEF AsksPrefetch, Reported
  <2>3. ~ResumeDue(s)
    BY <1>b, <2>1 DEF ResumeDue
  <2> QED
    BY <1>a, <1>b, <1>c, <2>1, <2>2, <2>3 DEF NodeSafe, WireFits, Resting, Installing, DiskDone, SameDisk
<1>2. CASE AsksInstall(n)
  <2>1. /\ agent[n].pc = "idle" /\ wire[n] = NULL /\ agent'[n].pc = "install" /\ SameDisk(n)
        /\ active # NULL /\ active.phase = "install" /\ active.install = n
        /\ active.status[n] \in Installable
    BY <1>2 DEF AsksInstall, Becomes, Installable
  <2>2. /\ wire'[n] # NULL /\ wire'[n].status = "Installing" /\ ~wire'[n].stored
        /\ \A sts : Says(n, sts)' <=> "Installing" \in sts
    BY <1>2, <1>b, <2>1, PostedReport DEF AsksInstall, Reported
  <2>3. staged[n][s] = "full"
    BY <2>1 DEF NodeSafe, Barred
  <2>4. target[s][n] = "Completed" => Awaited(n)
    <3>1. target[s][n] = "Completed" => Ahead(n)
      BY <1>c, <2>1 DEF NodeSafe, Missed
    <3>2. \A r \in Slots : ~Prefetch(r) /\ ~(Install(r) /\ n \in run[r].todo)
      BY <1>b, <2>1 DEF RunsFit
    <3> QED
      BY <3>1, <3>2 DEF Ahead
  <2> QED
    BY <1>a, <1>c, <2>1, <2>2, <2>3, <2>4 DEF NodeSafe, WireFits, Resting, Installing, DiskDone, SameDisk
<1>3. CASE StartsCopy(n)
  <2>1. /\ agent[n].pc = "prefetch" /\ wire[n] = NULL /\ wire'[n] = NULL /\ agent'[n].pc = "copy"
        /\ release'[n] = release[n] /\ bin'[n] = bin[n] /\ current'[n] = current[n]
        /\ agentDue'[n] = agentDue[n]
    BY <1>3 DEF StartsCopy, Becomes
  <2>2. \A sts : ~Says(n, sts)'
    BY <2>1 DEF Says
  <2> QED
    BY <1>a, <1>c, <2>1, <2>2 DEF NodeSafe, WireFits, Resting, Installing, DiskDone
<1>4. CASE EndsCopy(n)
  <2>1. /\ agent[n].pc = "copy" /\ agent[n].job = s /\ agent'[n].pc = "idle" /\ staged'[n][s] = "full"
        /\ release'[n] = release[n] /\ bin'[n] = bin[n] /\ current'[n] = current[n]
    BY <1>4, <1>b DEF EndsCopy, Becomes, Holds
  <2>2. /\ wire'[n] # NULL /\ wire'[n].status = "Staged" /\ ~wire'[n].stored
        /\ \A sts : Says(n, sts)' <=> "Staged" \in sts
    BY <1>4, <2>1, PostedReport DEF EndsCopy, Reported
  <2>3. wire[n] = NULL
    BY <2>1 DEF NodeSafe, WireFits
  <2> QED
    BY <1>a, <1>c, <2>1, <2>2, <2>3 DEF NodeSafe, WireFits, Resting, Installing, DiskDone
<1>5. CASE StartsInstall(n)
  <2>1. /\ agent[n].pc = "install" /\ wire[n] = NULL /\ wire'[n] = NULL /\ agent'[n].pc = "stage"
        /\ staged'[n] = staged[n]
    BY <1>5 DEF StartsInstall, Becomes
  <2>2. \A sts : ~Says(n, sts)'
    BY <2>1 DEF Says
  <2>3. target[s][n] # "Completed"
    BY <2>1 DEF NodeSafe, Installing
  <2> QED
    BY <1>a, <1>c, <2>1, <2>2, <2>3 DEF NodeSafe, WireFits, Resting, Installing, Missed
<1>6. CASE EndsInstall(n)
  <2>1. /\ agent[n].pc = "stage" /\ agent[n].job = s /\ agent'[n].pc = "idle"
        /\ staged'[n] = staged[n] /\ staged[n][s] = "full"
    BY <1>6, <1>b DEF EndsInstall, Becomes, NodeSafe, Installing
  <2>2. DiskDone(n, s)'
    <3>1. release'[n][s] = "full" /\ current'[n] = s
      BY <1>6, <2>1 DEF EndsInstall, Holds
    <3>2. BusyFiles \/ bin'[n] = [job |-> s, whole |-> TRUE]
      BY <1>6, <2>1 DEF EndsInstall
    <3> QED
      BY <3>1, <3>2 DEF DiskDone
  <2>3. /\ wire'[n] # NULL /\ wire'[n].status = "Completed" /\ ~wire'[n].stored
        /\ \A sts : Says(n, sts)' <=> "Completed" \in sts
    BY <1>6, <2>1, PostedReport DEF EndsInstall, Reported
  <2>4. ~Missed(n, s)'
    BY <2>3 DEF Missed
  <2> QED
    BY <1>a, <2>1, <2>2, <2>3, <2>4 DEF NodeSafe, WireFits, Resting, Installing
<1>7. CASE Dies(n) /\ agentDue[n] /\ wire[n] = NULL
  <2>1. /\ agent'[n].pc = "idle" /\ wire'[n] = NULL /\ SameDisk(n) /\ ~agentDue'[n]
    BY <1>7 DEF Dies, IdleAgent
  <2>2. \A sts : ~Says(n, sts)'
    BY <2>1 DEF Says
  <2>3. staged[n][s] # "full" => Barred(n, s)
    <3>1. agent[n].pc \in {"idle", "prefetch", "copy", "install", "stage"}
      BY <1>a DEF CoreInv, TypeInv, TypeOK
    <3> QED
      BY <1>7, <3>1 DEF NodeSafe, Resting, Installing
  <2> QED
    BY <1>7, <1>a, <1>c, <2>1, <2>2, <2>3 DEF NodeSafe, WireFits, Resting, Installing, DiskDone, SameDisk
<1> QED
  BY <1>1, <1>2, <1>3, <1>4, <1>5, <1>6, <1>7, AgentWorks

LEMMA CalmAgent ==
  ASSUME CoreInv, NEW s \in Jobs, OneJob(s), RunsFit(s), OneCrash',
         NEW n \in Agents, AgentEffect(n), NodeSafe(n, s), NodeCalm(n, s)
  PROVE  NodeCalm(n, s)'
<1>a. /\ n \in Node /\ UNCHANGED <<active, run, target>>
      /\ \A r \in Slots : (Before(r)' <=> Before(r)) /\ (Prefetch(r)' <=> Prefetch(r))
      /\ Missed(n, s)' /\ ~Says(n, {"Completed"}) => Missed(n, s)
  BY AgentView
<1>b. /\ agent[n].pc # "idle" => agent[n].job = s
      /\ active # NULL => /\ active.job = s /\ \A r \in Slots : ~Before(r)
                          /\ active.phase = "prefetch" => \E r \in Slots : Prefetch(r)
                          /\ active.phase # "prefetch" => \A r \in Slots : ~Prefetch(r)
  BY AgentWorks
<1>c. wire[n] = NULL => ~Says(n, {"Completed"}) /\ ~Missed(n, s)'
  BY <1>a DEF Says, NodeCalm
<1>1. CASE AsksPrefetch(n)
  <2>1. /\ wire[n] = NULL /\ agent'[n].pc = "prefetch" /\ SameDisk(n) /\ agentDue'[n] = agentDue[n]
        /\ active # NULL /\ active.phase = "prefetch"
    BY <1>1 DEF AsksPrefetch, Becomes
  <2>2. wire'[n] # NULL /\ ~wire'[n].stored
    BY <1>1, <1>b, <2>1, PostedReport DEF AsksPrefetch, Reported
  <2>3. ~agentDue[n]
    BY <1>b, <2>1 DEF NodeCalm
  <2> QED
    BY <1>a, <1>c, <2>1, <2>2, <2>3 DEF NodeCalm, Installing, SameDisk, Before
<1>2. CASE AsksInstall(n)
  <2>1. /\ wire[n] = NULL /\ agent'[n].pc = "install" /\ SameDisk(n)
        /\ active # NULL /\ active.phase = "install" /\ active.status[n] \in Installable
    BY <1>2 DEF AsksInstall, Becomes, Installable
  <2>2. target[s][n] # "Completed"
    BY <1>c, <2>1 DEF NodeCalm, Missed
  <2> QED
    BY <1>a, <1>b, <1>c, <2>1, <2>2 DEF NodeCalm, Installing, SameDisk
<1>3. CASE StartsCopy(n)
  <2>1. /\ agent[n].pc = "prefetch" /\ wire[n] = NULL /\ wire'[n] = NULL /\ agent'[n].pc = "copy"
        /\ agentDue'[n] = agentDue[n]
    BY <1>3 DEF StartsCopy, Becomes
  <2>2. target[s][n] \notin Installable /\ ~agentDue[n]
    BY <2>1 DEF NodeCalm
  <2> QED
    BY <1>a, <1>c, <2>1, <2>2 DEF NodeCalm, Installing, Before
<1>4. CASE EndsCopy(n)
  <2>1. /\ agent[n].pc = "copy" /\ agent[n].job = s /\ agent'[n].pc = "idle" /\ staged'[n][s] = "full"
        /\ agentDue'[n] = agentDue[n]
    BY <1>4, <1>b DEF EndsCopy, Becomes, Holds
  <2>2. wire[n] = NULL /\ ~agentDue[n]
    BY <2>1 DEF NodeSafe, WireFits, NodeCalm
  <2> QED
    BY <1>a, <1>c, <2>1, <2>2 DEF NodeCalm, Installing, Before
<1>5. CASE StartsInstall(n)
  <2>1. /\ agent[n].pc = "install" /\ wire[n] = NULL /\ agent'[n].pc = "stage"
        /\ staged'[n] = staged[n] /\ agentDue'[n] = agentDue[n]
    BY <1>5 DEF StartsInstall, Becomes
  <2> QED
    BY <1>a, <1>c, <2>1 DEF NodeCalm, Installing, Before
<1>6. CASE EndsInstall(n)
  <2>1. /\ agent[n].pc = "stage" /\ agent[n].job = s /\ agent'[n].pc = "idle" /\ staged'[n] = staged[n]
    BY <1>6, <1>b DEF EndsInstall, Becomes
  <2>2. Says(n, {"Completed"})'
    BY <1>6, <2>1, PostedReport DEF EndsInstall, Reported
  <2>3. ~Missed(n, s)'
    BY <2>2 DEF Missed
  <2> QED
    BY <1>a, <2>1, <2>3 DEF NodeCalm, Installing, Before
<1>7. CASE Dies(n) /\ agentDue[n] /\ wire[n] = NULL
  <2>1. agent'[n].pc = "idle" /\ SameDisk(n) /\ ~agentDue'[n]
    BY <1>7 DEF Dies, IdleAgent
  <2> QED
    BY <1>7, <1>a, <1>c, <2>1 DEF NodeCalm, Installing, SameDisk, Before
<1> QED
  BY <1>1, <1>2, <1>3, <1>4, <1>5, <1>6, <1>7, AgentWorks

\* What the delivery of a report leaves alone, and what it writes.
LEMMA ReportView ==
  ASSUME CoreInv, NEW s \in Jobs, OneJob(s), NEW n \in Agents, DeliveryEffect(n), ~LossyReports
  PROVE  /\ n \in Node /\ wire[n] # NULL /\ wire[n].job = s
         /\ agent'[n] = agent[n] /\ agentDue'[n] = agentDue[n] /\ staged'[n] = staged[n]
         /\ release'[n] = release[n] /\ current'[n] = current[n] /\ bin'[n] = bin[n]
         /\ UNCHANGED <<run, jobStatus, resuming, used>>
         /\ \A r \in Slots : (Before(r)' <=> Before(r)) /\ (Prefetch(r)' <=> Prefetch(r))
         /\ Stores(n) \/ Applies(n)
         /\ Stores(n) => /\ UNCHANGED active
                         /\ target'[s][n] \in {NoRow, wire[n].status}
         /\ Applies(n) => /\ UNCHANGED target /\ wire'[n] = NULL /\ wire[n].stored
                          /\ active' = NULL <=> active = NULL
                          /\ active # NULL => active'.status[n] = wire[n].status
<1>1. n \in Node /\ wire[n] # NULL /\ wire[n].job = s
  BY DEF DeliveryEffect, Stores, Applies, Loses, OneJob, Agents
<1>2. Stores(n) \/ Applies(n)
  BY DEF DeliveryEffect, Loses
<1>3. /\ UNCHANGED <<run, jobStatus, resuming, used, agent, agentDue, staged, release, current, bin>>
      /\ \A r \in Slots : (Before(r)' <=> Before(r)) /\ (Prefetch(r)' <=> Prefetch(r))
  BY DEF DeliveryEffect, diskVars, Before, Prefetch
<1>4. Stores(n) => UNCHANGED active /\ target'[s][n] \in {NoRow, wire[n].status}
  BY <1>1 DEF Stores, Stored
<1>5. Applies(n) => /\ UNCHANGED target /\ wire'[n] = NULL /\ wire[n].stored
                    /\ active' = NULL <=> active = NULL
                    /\ active # NULL => active'.status[n] = wire[n].status
  BY <1>1 DEF Applies, Mapped, OneJob
<1> QED
  BY <1>1, <1>2, <1>3, <1>4, <1>5

LEMMA NodesDelivery ==
  ASSUME CoreInv, NEW s \in Jobs, OneJob(s), NEW n \in Agents, DeliveryEffect(n), ~LossyReports,
         NodeSafe(n, s)
  PROVE  NodeSafe(n, s)' /\ ~Missed(n, s)'
<1>a. /\ n \in Node /\ wire[n] # NULL /\ wire[n].job = s
      /\ agent'[n] = agent[n] /\ agentDue'[n] = agentDue[n] /\ staged'[n] = staged[n]
      /\ release'[n] = release[n] /\ current'[n] = current[n] /\ bin'[n] = bin[n]
      /\ UNCHANGED <<run, jobStatus, resuming>>
      /\ \A r \in Slots : Before(r)' <=> Before(r)
  BY ReportView
<1>b. wire[n].status # NoRow
  BY <1>a DEF CoreInv, TypeInv, TypeOK, Report, Reported, NoRow
<1>c. /\ wire[n].status \in Installable \cup {"Completed"} => staged[n][s] = "full"
      /\ wire[n].status = "Completed" => DiskDone(n, s)
  BY <1>a DEF NodeSafe, Says, Installable
<1>d. /\ agent[n].pc = "install" => wire[n].status = "Installing"
      /\ agent[n].pc = "prefetch" => wire[n].status = "Prefetching"
      /\ agent[n].pc \notin {"copy", "stage"}
  BY <1>a DEF NodeSafe, WireFits
<1>1. CASE Stores(n)
  <2>1. /\ UNCHANGED active /\ target'[s][n] \in {NoRow, wire[n].status}
    BY <1>1, ReportView
  <2>2. /\ wire'[n] # NULL /\ wire'[n].stored /\ wire'[n].status = wire[n].status
        /\ \A sts : Says(n, sts)' <=> Says(n, sts)
    BY <1>1 DEF Stores, Says
  <2>3. target'[s][n] \in Installable \cup {"Completed"} => target'[s][n] = wire[n].status
    BY <2>1 DEF NoRow, Installable
  <2>4. staged[n][s] # "full" /\ Barred(n, s) => Barred(n, s)'
    BY <1>a, <1>c, <2>1, <2>3 DEF Barred, ResumeDue
  <2>5. /\ target'[s][n] = "Completed" => ~Installing(n) /\ DiskDone(n, s)
        /\ ~Missed(n, s)'
    BY <1>a, <1>c, <1>d, <2>2, <2>3 DEF Installing, Missed, Says
  <2>6. ResumeDue(s)' <=> ResumeDue(s)
    BY <1>a DEF ResumeDue
  <2>7. NodeSafe(n, s)'
    BY <1>a, <1>c, <1>d, <2>2, <2>3, <2>4, <2>5, <2>6 DEF NodeSafe, WireFits, Resting, Installing, DiskDone
  <2> QED
    BY <2>5, <2>7
<1>2. CASE Applies(n)
  <2>1. /\ UNCHANGED target /\ wire'[n] = NULL /\ wire[n].stored
        /\ active' = NULL <=> active = NULL
        /\ active # NULL => active'.status[n] = wire[n].status
    BY <1>2, ReportView
  <2>2. \A sts : ~Says(n, sts)'
    BY <2>1 DEF Says
  <2>3. ResumeDue(s)' <=> ResumeDue(s)
    BY <1>a, <2>1 DEF ResumeDue
  <2>4. wire[n].status \notin Installable /\ Barred(n, s) => Barred(n, s)'
    BY <1>a, <2>1, <2>3 DEF Barred
  <2>5. agent[n].pc = "prefetch" => Barred(n, s)'
    BY <1>a, <1>d, <2>1, <2>3 DEF NodeSafe, Barred, Installable
  <2>6. target[s][n] = "Completed" => wire[n].status = "Completed" /\ ~Installing(n)
    BY <1>a, <2>1 DEF NodeSafe
  <2>7. ~Missed(n, s)'
    BY <2>1, <2>6 DEF Missed, Installable
  <2>8. NodeSafe(n, s)'
    BY <1>a, <1>c, <1>d, <2>1, <2>2, <2>4, <2>5, <2>6, <2>7
       DEF NodeSafe, WireFits, Resting, Installing, DiskDone
  <2> QED
    BY <2>7, <2>8
<1> QED
  BY <1>1, <1>2, ReportView

LEMMA CalmDelivery ==
  ASSUME CoreInv, NEW s \in Jobs, OneJob(s), NEW n \in Agents, DeliveryEffect(n), ~LossyReports,
         NodeSafe(n, s), NodeCalm(n, s)
  PROVE  NodeCalm(n, s)'
<1>a. /\ n \in Node /\ wire[n] # NULL
      /\ agent'[n] = agent[n] /\ agentDue'[n] = agentDue[n] /\ staged'[n] = staged[n]
      /\ UNCHANGED run
      /\ \A r \in Slots : (Before(r)' <=> Before(r)) /\ (Prefetch(r)' <=> Prefetch(r))
      /\ \/ target'[s][n] \in {NoRow, wire[n].status}
         \/ UNCHANGED target /\ wire[n].stored
  BY ReportView
<1>b. /\ wire[n].status \in Installable => staged[n][s] = "full"
      /\ agent[n].pc \in {"install", "stage"} => wire[n].status = "Installing"
      /\ agent[n].pc \in {"prefetch", "copy"} => wire[n].status = "Prefetching"
  BY <1>a DEF NodeSafe, Says, WireFits, Installable
<1>1. ~Missed(n, s)'
  BY NodesDelivery
<1>2. target'[s][n] \in Installable => staged[n][s] = "full"
  BY <1>a, <1>b DEF NodeCalm, NoRow, Installable
<1>3. agent[n].pc \in {"prefetch", "copy"} => target'[s][n] \notin Installable
  BY <1>a, <1>b DEF NodeCalm, NoRow, Installable
<1>4. Installing(n) => target'[s][n] # "Completed"
  BY <1>a, <1>b DEF NodeCalm, NoRow, Installing
<1> QED
  BY <1>a, <1>1, <1>2, <1>3, <1>4 DEF NodeCalm, Installing

LEMMA RecoversNext ==
  ASSUME CoreInv, NEW s \in Jobs, Recovers(s), used["starts"] = 1, OneCrash', [Next]_vars
  PROVE  Recovers(s)'
<1>a. OneJob(s) /\ RunsFit(s) /\ \A n \in Agents : NodeSafe(n, s)
  BY DEF Recovers
<1>b. \/ Outside(s) \/ Crashes \/ Resumes(s) \/ UNCHANGED vars
      \/ \E r \in Slots : Drives(r) /\ KnowsItself(r)'
      \/ \E n \in Node : AgentEffect(n) \/ DeliveryEffect(n)
  BY <1>a, RecoverySteps
<1>c. /\ used["ctl"] \in Nat /\ (used'["ctl"] = 0 => used["ctl"] = 0)
  <2>1. used["ctl"] \in Nat /\ used["ctl"] <= used'["ctl"]
    BY CountersGrow DEF Grow, CoreInv, TypeInv, TypeOK, Counters
  <2> QED
    BY <2>1, CrashesCounted DEF CoreInv
<1>d. OneJob(s)' /\ RunsFit(s)'
  BY <1>a, <1>b, <1>c, OneJobNext, RunsFitNext
<1>e. Agents \subseteq Node /\ ~LossyReports
  BY DEF Agents, OneCrash
<1>f. ASSUME UNCHANGED run, Undisrupted' PROVE Undisrupted
  BY <1>c, <1>f DEF Undisrupted
<1> DEFINE Safe(n) == NodeSafe(n, s)' /\ (Undisrupted' => NodeCalm(n, s)')
<1> SUFFICES ASSUME NEW n \in Agents PROVE Safe(n)
  BY <1>d DEF Recovers
<1>g. NodeSafe(n, s) /\ (Undisrupted => NodeCalm(n, s)) /\ n \in Node
  BY <1>a, <1>e DEF Recovers
<1>1. CASE Outside(s)
  <2>1. UNCHANGED run
    BY <1>1 DEF Outside
  <2> QED
    BY <1>1, <1>f, <1>g, <2>1, NodesOutside, CalmOutside
<1>2. CASE Crashes
  <2>1. ~Undisrupted'
    BY <1>2 DEF Crashes, Undisrupted
  <2> QED
    BY <1>2, <1>a, <1>g, <2>1, NodesCrash
<1>3. CASE Resumes(s)
  <2>1. ~Undisrupted'
    BY <1>3, <1>a, <1>c DEF Resumes, Undisrupted, RunsFit
  <2> QED
    BY <1>3, <1>a, <1>g, <2>1, NodesResume
<1>4. CASE UNCHANGED vars
  <2>1. UNCHANGED run /\ Apart(n, s)
    BY <1>4 DEF vars, dbVars, ctlVars, agentVars, diskVars, Apart, SameView
  <2> QED
    BY <1>f, <1>g, <2>1, NodesApart
<1>5. ASSUME NEW r \in Slots, Drives(r) PROVE Safe(n)
  <2>1. Undisrupted' => Undisrupted
    BY <1>5, <1>c DEF Undisrupted, Drives
  <2> QED
    BY <1>5, <1>a, <1>g, <2>1, NodesDrive, CalmDrives
<1>6. ASSUME NEW m \in Node, AgentEffect(m) PROVE Safe(n)
  <2>1. UNCHANGED run
    BY <1>6 DEF AgentEffect, ctlVars
  <2>2. CASE m = n
    BY <1>6, <1>a, <1>f, <1>g, <2>1, <2>2, NodesAgent, CalmAgent
  <2>3. CASE m # n
    <3>1. Apart(n, s)
      BY <1>6, <1>g, <2>3 DEF AgentEffect, SameNode, SameDisk, dbVars, ctlVars, Apart, SameView
    <3> QED
      BY <1>f, <1>g, <2>1, <3>1, NodesApart
  <2> QED
    BY <2>2, <2>3
<1>7. ASSUME NEW m \in Node, DeliveryEffect(m) PROVE Safe(n)
  <2>1. UNCHANGED run
    BY <1>7 DEF DeliveryEffect
  <2>2. CASE m = n
    BY <1>7, <1>a, <1>e, <1>f, <1>g, <2>1, <2>2, NodesDelivery, CalmDelivery
  <2>3. CASE m # n
    <3>1. UNCHANGED <<jobStatus, resuming>> /\ SameView(n, s)
      BY <1>7, <1>g, <2>3 DEF DeliveryEffect, diskVars, SameView
    <3>2. target'[s][n] = target[s][n]
      BY <1>7, <1>g, <2>3 DEF DeliveryEffect, Stores, Applies, Loses, Stored
    <3>3. /\ active' = NULL <=> active = NULL
          /\ active # NULL => active'.status[n] = active.status[n]
      BY <1>7, <1>g, <2>3 DEF DeliveryEffect, Stores, Applies, Loses, Mapped
    <3>4. Apart(n, s)
      BY <2>1, <3>1, <3>2, <3>3 DEF Apart
    <3> QED
      BY <1>f, <1>g, <2>1, <3>4, NodesApart
  <2> QED
    BY <2>2, <2>3
<1> QED
  BY <1>b, <1>1, <1>2, <1>3, <1>4, <1>5, <1>6, <1>7

LEMMA RecoversBegins ==
  ASSUME Fresh, NEW s \in Jobs, Begins(s), GrantInv' PROVE Recovers(s)'
<1>1. PICK r \in Slots : /\ run'[r].pc = "stageCtl" /\ run'[r].job = s
                         /\ \A q \in Slots \ {r} : run'[q].pc = "free"
  BY DEF Begins
<1>2. ~resuming'
  BY <1>1 DEF GrantInv, ResumeAlone
<1>3. \A j \in Jobs \ {s} : Undriven(j)'
  BY DEF Fresh, Begins, Undriven
<1>4. OneJob(s)'
  BY <1>1, <1>3 DEF OneJob, Begins, Fresh, Untouched
<1>5. RunsFit(s)'
  <2>1. \A q \in Slots : ~Prefetch(q)' /\ ~Install(q)'
    BY <1>1 DEF Prefetch, Install, Holder
  <2> QED
    BY <1>2, <2>1 DEF RunsFit, Begins, Fresh, ResumeDue
<1>6. \A n \in Agents : NodeSafe(n, s)' /\ NodeCalm(n, s)'
  BY <1>2, NodesBegin
<1> QED
  BY <1>4, <1>5, <1>6 DEF Recovers

RecoveryInv ==
  /\ TypeInv /\ SelfInv
  /\ ~ConcurrentStarts => GrantInv
  /\ used["starts"] = 0 => Fresh
  /\ OneCrash /\ used["starts"] = 1 => \E s \in Jobs : Recovers(s)

LEMMA RecoveryInit == Init => RecoveryInv
<1> SUFFICES ASSUME Init PROVE RecoveryInv
  OBVIOUS
<1>1. used["starts"] = 0
  BY DEF Init, Counters
<1> QED
  BY <1>1, InitType, SelfInit, GrantInit, FreshInit DEF RecoveryInv

LEMMA RecoveryNext == RecoveryInv /\ [Next]_vars => RecoveryInv'
<1> SUFFICES ASSUME RecoveryInv, [Next]_vars PROVE RecoveryInv'
  OBVIOUS
<1>1. TypeInv' /\ SelfInv' /\ (~ConcurrentStarts => GrantInv')
  BY NextType, SelfNext, GrantNext DEF RecoveryInv
<1>2. \A k \in Counters : used[k] \in Nat /\ used'[k] \in Nat /\ used[k] <= used'[k]
  BY <1>1, CountersGrow DEF Grow, RecoveryInv, TypeInv, TypeOK
<1>3. OneCrash' => OneCrash /\ ~ConcurrentStarts
  BY <1>2 DEF OneCrash, Counters
<1>4. used["starts"] = 0 => \/ Fresh' /\ used'["starts"] = 0
                            \/ used'["starts"] = 1 /\ \E s \in Jobs : Begins(s)
  BY FreshStep DEF RecoveryInv
<1>5. used'["starts"] = 0 => Fresh'
  BY <1>2, <1>4 DEF Counters
<1>6. ASSUME OneCrash', used'["starts"] = 1 PROVE \E s \in Jobs : Recovers(s)'
  <2>1. CASE used["starts"] = 0
    <3>1. PICK s \in Jobs : Begins(s)
      BY <1>4, <1>6, <2>1
    <3>2. Recovers(s)'
      BY <1>1, <1>3, <1>6, <2>1, <3>1, RecoversBegins DEF RecoveryInv
    <3> QED
      BY <3>2
  <2>2. CASE used["starts"] = 1
    <3>1. PICK s \in Jobs : Recovers(s)
      BY <1>3, <1>6, <2>2 DEF RecoveryInv
    <3>2. CoreInv
      BY <1>3, <1>6 DEF CoreInv, RecoveryInv
    <3>3. Recovers(s)'
      BY <1>6, <2>2, <3>1, <3>2, RecoversNext
    <3> QED
      BY <3>3
  <2>3. used["starts"] \in {0, 1}
    BY <1>2, <1>6 DEF Counters
  <2> QED
    BY <2>1, <2>2, <2>3
<1> QED
  BY <1>1, <1>5, <1>6 DEF RecoveryInv

LEMMA RecoveryHolds == ASSUME RecoveryInv, OneCrash PROVE CompletedIsInstalled
<1>1. used["starts"] \in {0, 1}
  <2>1. used["starts"] \in Nat
    BY DEF RecoveryInv, TypeInv, TypeOK, Counters
  <2> QED
    BY <2>1 DEF OneCrash
<1>2. CASE used["starts"] = 0
  BY <1>2, FreshHolds DEF RecoveryInv
<1>3. CASE used["starts"] = 1
  <2>1. PICK s \in Jobs : Recovers(s)
    BY <1>3 DEF RecoveryInv
  <2>2. ASSUME NEW j \in Jobs, NEW n \in Agents, target[j][n] = "Completed" PROVE j = s
    BY <2>1, <2>2 DEF Recovers, OneJob, Undriven, Pristine, NoRow
  <2>3. \A n \in Agents : target[s][n] = "Completed" => DiskDone(n, s)
    BY <2>1 DEF Recovers, NodeSafe
  <2> QED
    BY <2>2, <2>3 DEF CompletedIsInstalled, DiskDone
<1> QED
  BY <1>1, <1>2, <1>3

\* A single start is driven, the controller crashes at most once, loses its memory
\* and the reports on their way, and resumes the job from the rows
\* (policy_handlers.go:646-686).  As long as no agent crashes or fails and no other
\* report is lost, a Completed row still belongs to a node that switched to a
\* whole copy of the release (agent.go:306-317), although nodes may be made to
\* fetch and install once more what they have already installed.
THEOREM CompletedAcrossCrash == Spec => [](OneCrash => CompletedIsInstalled)
<1>1. RecoveryInv => (OneCrash => CompletedIsInstalled)
  BY RecoveryHolds
<1>2. Spec => []RecoveryInv
  BY RecoveryInit, RecoveryNext, PTL DEF Spec
<1> QED
  BY <1>1, <1>2, PTL

=============================================================================
