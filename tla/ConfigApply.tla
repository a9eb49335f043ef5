----------------------------- MODULE ConfigApply -----------------------------
(***************************************************************************)
(* How a published configuration reaches the nodes: ConfigPublish together *)
(* with the agents and netd.  Every 15 seconds an agent reports the        *)
(* generation it runs, fetches its desired state and has netd prepare,     *)
(* activate and verify it.  netd serves every call in a goroutine of its   *)
(* own and keeps the WireGuard devices and the last state it activated in  *)
(* memory.                                                                 *)
(*                                                                         *)
(* Simplifications:                                                        *)
(*  - A device is the link it belongs to; two links of a node have         *)
(*    different interface names.  Addresses, routes and firewall rules,    *)
(*    whose errors netd drops, are left out, and so is the prepare call,   *)
(*    which refuses no state the compiler makes.                           *)
(*  - At most one call of a dead agent process is still running in netd.   *)
(*  - Agents reach the controller directly, not through their parents.     *)
(***************************************************************************)
EXTENDS ConfigPublish

CONSTANTS
  Online,            \* the nodes whose agent and netd run
  MaxAgentRestarts,  \* bound: restarts of agents, all nodes together
  MaxNetdRestarts    \* bound: restarts of netd, all nodes together

ASSUME ApplyAssumption ==
  /\ Online \subseteq Node
  /\ {MaxAgentRestarts, MaxNetdRestarts} \subseteq Nat
  /\ NULL \notin Nat

VARIABLES
  reported,   \* nodes.active_generation
  agent,      \* the position of an agent in its tick and the state it fetched
  activeGen,  \* Agent.activeGen
  dev,        \* wgManager.devs
  lastGood,   \* netd's lastGood
  orphan,     \* an activation that a dead agent process asked netd for
  restarts,   \* counters against the bounds
  foreign     \* history: the devices were last changed on behalf of another
              \* state than the one the agent is about to verify

nodeVars == <<reported, agent, activeGen, dev, lastGood, orphan, restarts, foreign>>
vars     == <<publishVars, nodeVars>>

Maybe(S) == S \cup {NULL}

TypeOK ==
  /\ PublishTypeOK
  /\ reported \in [Node -> Maybe(Nat)]
  /\ agent \in [Node -> [pc: {"idle", "pull", "activate", "good", "verify", "rollback"},
                         st: Maybe(State)]]
  /\ activeGen \in [Node -> Maybe(Nat)]
  /\ dev \in [Node -> SUBSET Link]
  /\ lastGood \in [Node -> Maybe(State)]
  /\ orphan \in [Node -> [pc: {"none", "activate", "good"}, st: Maybe(State)]]
  /\ restarts \in [{"agent", "netd"} -> Nat]
  /\ foreign \in [Node -> BOOLEAN]

NoCall == [pc |-> "none", st |-> NULL]
Resting == [pc |-> "idle", st |-> NULL]

Init ==
  /\ PublishInit
  /\ reported = [n \in Node |-> NULL]
  /\ agent = [n \in Node |-> Resting]
  /\ activeGen = [n \in Node |-> NULL]
  /\ dev = [n \in Node |-> {}]
  /\ lastGood = [n \in Node |-> NULL]
  /\ orphan = [n \in Node |-> NoCall]
  /\ restarts = [k \in {"agent", "netd"} |-> 0]
  /\ foreign = [n \in Node |-> FALSE]

ControllerIdle == UNCHANGED <<alive, left, linkRow, lastGen, req, desired, unpublished, overlap, raced>>

-----------------------------------------------------------------------------
(* The agent's tick.                                                       *)

At(n, pc) == agent[n].pc = pc
Go(n, pc) == agent' = [agent EXCEPT ![n].pc = pc]
Rest(n)   == agent' = [agent EXCEPT ![n] = Resting]

\* TouchNodeSeen changes no row when the node was deleted.
Heartbeat(n) ==
  /\ At(n, "idle")
  /\ Go(n, "pull")
  /\ reported' = IF n \in alive THEN [reported EXCEPT ![n] = activeGen[n]] ELSE reported
  /\ UNCHANGED <<publishVars, activeGen, dev, lastGood, orphan, restarts, foreign>>

HeartbeatLost(n) ==
  /\ At(n, "idle") /\ Spend("faults", MaxFaults)
  /\ Go(n, "pull")
  /\ ControllerIdle
  /\ UNCHANGED <<reported, activeGen, dev, lastGood, orphan, restarts, foreign>>

\* handleAgentDesired answers 404 when there is no desired state.
Pull(n) ==
  /\ At(n, "pull")
  /\ IF desired[n] = NULL THEN Rest(n)
     ELSE agent' = [agent EXCEPT ![n] = [pc |-> "activate", st |-> desired[n]]]
  /\ UNCHANGED <<publishVars, reported, activeGen, dev, lastGood, orphan, restarts, foreign>>

\* The request or the prepare call fails.
PullFails(n) ==
  /\ At(n, "pull") /\ Spend("faults", MaxFaults)
  /\ Rest(n)
  /\ ControllerIdle
  /\ UNCHANGED <<reported, activeGen, dev, lastGood, orphan, restarts, foreign>>

\* reconcile: under the manager's lock, devices of other links are closed, then
\* the others are created or updated one by one until one fails.
Reconciled(n, st) == dev' = [dev EXCEPT ![n] = st.links]

PartlyReconciled(n, st) ==
  \E failing \in st.links : \E made \in SUBSET (st.links \ (dev[n] \cup {failing})) :
    dev' = [dev EXCEPT ![n] = (@ \cap st.links) \cup made]

Activate(n) ==
  /\ At(n, "activate")
  /\ Reconciled(n, agent[n].st)
  /\ foreign' = [foreign EXCEPT ![n] = FALSE]
  /\ Go(n, "good")
  /\ UNCHANGED <<publishVars, reported, activeGen, lastGood, orphan, restarts>>

\* Variant: a failed activation is taken for a success.
ActivateFailsUnnoticed(n) ==
  /\ At(n, "activate") /\ Spend("faults", MaxFaults)
  /\ PartlyReconciled(n, agent[n].st)
  /\ foreign' = [foreign EXCEPT ![n] = FALSE]
  /\ Go(n, "good")
  /\ ControllerIdle
  /\ UNCHANGED <<reported, activeGen, lastGood, orphan, restarts>>

\* The agent logs the error and returns: nothing is rolled back.
ActivateFails(n) ==
  /\ At(n, "activate") /\ Spend("faults", MaxFaults)
  /\ PartlyReconciled(n, agent[n].st)
  /\ Rest(n)
  /\ ControllerIdle
  /\ UNCHANGED <<reported, activeGen, lastGood, orphan, restarts, foreign>>

\* After apply, outside of any lock.
SetLastGood(n) ==
  /\ At(n, "good")
  /\ lastGood' = [lastGood EXCEPT ![n] = agent[n].st]
  /\ Go(n, "verify")
  /\ UNCHANGED <<publishVars, reported, activeGen, dev, orphan, restarts, foreign>>

\* Variant: the agent goes on reporting the generation of its first activation.
VerifyKeepsGeneration(n) ==
  /\ At(n, "verify")
  /\ activeGen' = [activeGen EXCEPT ![n] = IF @ = NULL THEN agent[n].st.gen ELSE @]
  /\ Rest(n)
  /\ UNCHANGED <<publishVars, reported, dev, lastGood, orphan, restarts, foreign>>

\* netd's verify accepts every state.
Verify(n) ==
  /\ At(n, "verify")
  /\ activeGen' = [activeGen EXCEPT ![n] = agent[n].st.gen]
  /\ Rest(n)
  /\ UNCHANGED <<publishVars, reported, dev, lastGood, orphan, restarts, foreign>>

\* The call itself fails.
VerifyFails(n) ==
  /\ At(n, "verify") /\ Spend("faults", MaxFaults)
  /\ Go(n, "rollback")
  /\ ControllerIdle
  /\ UNCHANGED <<reported, activeGen, dev, lastGood, orphan, restarts, foreign>>

\* Applying the last state again may fail as well; its answer is ignored.
Rollback(n) ==
  /\ At(n, "rollback")
  /\ IF lastGood[n] = NULL THEN UNCHANGED <<dev, foreign>>
     ELSE /\ Reconciled(n, lastGood[n]) \/ PartlyReconciled(n, lastGood[n])
          /\ foreign' = [foreign EXCEPT ![n] = @ \/ lastGood[n] # agent[n].st]
  /\ Rest(n)
  /\ UNCHANGED <<publishVars, reported, activeGen, lastGood, orphan, restarts>>

-----------------------------------------------------------------------------
(* Restarts.                                                               *)

\* Variant: -1 instead of nil for an unknown generation.
AgentRestartMinusOne(n) ==
  /\ restarts["agent"] < MaxAgentRestarts
  /\ orphan[n].pc = "none"
  /\ restarts' = [restarts EXCEPT !["agent"] = @ + 1]
  /\ orphan' = IF agent[n].pc \in {"activate", "good"}
               THEN [orphan EXCEPT ![n] = agent[n]] ELSE orphan
  /\ Rest(n)
  /\ activeGen' = [activeGen EXCEPT ![n] = 0 - 1]
  /\ UNCHANGED <<publishVars, reported, dev, lastGood, foreign>>

\* A running activation goes on in netd; activeGen starts as nil again.
AgentRestart(n) ==
  /\ restarts["agent"] < MaxAgentRestarts
  /\ orphan[n].pc = "none"
  /\ restarts' = [restarts EXCEPT !["agent"] = @ + 1]
  /\ orphan' = IF agent[n].pc \in {"activate", "good"}
               THEN [orphan EXCEPT ![n] = agent[n]] ELSE orphan
  /\ Rest(n)
  /\ activeGen' = [activeGen EXCEPT ![n] = NULL]
  /\ UNCHANGED <<publishVars, reported, dev, lastGood, foreign>>

OrphanActivate(n) ==
  /\ orphan[n].pc = "activate"
  /\ Reconciled(n, orphan[n].st)
  /\ foreign' = [foreign EXCEPT ![n] = TRUE]
  /\ orphan' = [orphan EXCEPT ![n].pc = "good"]
  /\ UNCHANGED <<publishVars, reported, agent, activeGen, lastGood, restarts>>

OrphanActivateFails(n) ==
  /\ orphan[n].pc = "activate" /\ Spend("faults", MaxFaults)
  /\ PartlyReconciled(n, orphan[n].st)
  /\ foreign' = [foreign EXCEPT ![n] = TRUE]
  /\ orphan' = [orphan EXCEPT ![n] = NoCall]
  /\ ControllerIdle
  /\ UNCHANGED <<reported, agent, activeGen, lastGood, restarts>>

OrphanSetLastGood(n) ==
  /\ orphan[n].pc = "good"
  /\ lastGood' = [lastGood EXCEPT ![n] = orphan[n].st]
  /\ orphan' = [orphan EXCEPT ![n] = NoCall]
  /\ UNCHANGED <<publishVars, reported, agent, activeGen, dev, restarts, foreign>>

\* The devices live in the process.  An agent waiting for an activation gets an
\* error and returns.
NetdRestart(n) ==
  /\ restarts["netd"] < MaxNetdRestarts
  /\ restarts' = [restarts EXCEPT !["netd"] = @ + 1]
  /\ dev' = [dev EXCEPT ![n] = {}]
  /\ lastGood' = [lastGood EXCEPT ![n] = NULL]
  /\ orphan' = [orphan EXCEPT ![n] = NoCall]
  /\ IF agent[n].pc \in {"activate", "good"} THEN Rest(n) ELSE UNCHANGED agent
  /\ UNCHANGED <<publishVars, reported, activeGen, foreign>>

-----------------------------------------------------------------------------

Tick(n) ==
  \/ Heartbeat(n) \/ Pull(n) \/ Activate(n) \/ SetLastGood(n) \/ Verify(n) \/ Rollback(n)

Failure(n) ==
  \/ HeartbeatLost(n) \/ PullFails(n) \/ ActivateFails(n) \/ VerifyFails(n)
  \/ OrphanActivateFails(n)

Restart(n) == AgentRestart(n) \/ NetdRestart(n)

OrphanStep(n) == OrphanActivate(n) \/ OrphanSetLastGood(n)

NodeNext == \E n \in Online : Tick(n) \/ Failure(n) \/ Restart(n) \/ OrphanStep(n)

Next ==
  \/ PublishNext /\ UNCHANGED nodeVars
  \/ NodeNext

Spec == Init /\ [][Next]_vars

\* Request goroutines and netd's calls run to their end; the agent's loop ticks
\* for ever.
Fairness ==
  /\ \A p \in Slots : WF_vars(Progress(p) /\ UNCHANGED nodeVars)
  /\ \A n \in Online : WF_vars(Tick(n)) /\ WF_vars(OrphanStep(n))

FairSpec == Spec /\ Fairness

-----------------------------------------------------------------------------
(* Properties.                                                             *)

\* A node that reports the generation it is served has exactly the devices of
\* the served links, also when an activation failed after that: repeating an
\* activation does not tear anything down.  Excluded are overlapping
\* publications (two configurations under one number) and nodes that one of
\* them goes on serving after their deletion, the number 1, a restart of netd
\* that the next tick has not repaired, and devices changed last for a state
\* that the agent does not hold.
ReportedIsApplied ==
  \A n \in Online \cap alive :
    /\ desired[n] # NULL /\ activeGen[n] = desired[n].gen /\ activeGen[n] > 1
    /\ overlap = "none" /\ lastGood[n] # NULL /\ ~foreign[n]
    => dev[n] = desired[n].links

\* Whatever failed or was restarted on the way, in the end every reachable node
\* that is served a configuration runs it and is known to run it; and that
\* configuration is the topology in the database if all changes of it were
\* published, one at a time.
Converges ==
  \A n \in Online :
    <>[](n \in alive /\ desired[n] # NULL =>
           /\ dev[n] = desired[n].links
           /\ reported[n] = desired[n].gen
           /\ overlap = "none" /\ ~unpublished => dev[n] = LinksOf(n))

=============================================================================
