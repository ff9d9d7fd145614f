------------------------------- MODULE Rep65 -------------------------------
(***************************************************************************)
(* Experiment 65: a root works alone and admits a connector that is only   *)
(* created once demand for it was recorded; in the control arm no demand   *)
(* comes and no connector either.  The controller has no Ray and no        *)
(* finally clause: every process also ends by a deadline of its own.       *)
(*                                                                         *)
(* The connector is process "a" of the island, the arms take the place of  *)
(* the repetitions: the first is the demand arm, the second the control.   *)
(***************************************************************************)
EXTENDS Rep

DemandArm == arm = Reps[1]

-----------------------------------------------------------------------------
(* The processes.                                                          *)

SameProcesses == UNCHANGED <<place, cluster, stale, finalMembers>>

\* The root boots alone and proves that it can work alone.
RootLocalPhase ==
    /\ root = "serving" /\ "local" \notin files
    /\ files' = files \cup {"local"}
    /\ SameProcesses /\ UNCHANGED <<root, act, faults, log>>

\* Available-wait: the locality that was not there before is the one admitted.
RootAdmits ==
    /\ root = "serving" /\ "local" \in files /\ DemandArm
    /\ act["a"] = "joined" \/ "a" \in stale
    /\ "admission" \notin files
    /\ files' = files \cup {"admission"}
    /\ SameProcesses /\ UNCHANGED <<root, act, faults, log>>

\* One bounded dispatch; its outcome is recorded, and then the work is done.
RootDispatches ==
    /\ root = "serving" /\ "admission" \in files /\ "done" \notin files
    /\ \E ok \in BOOLEAN :
         /\ Outcome(ok, act["a"] = "joined")
         /\ files' = files \cup {"done", IF ok THEN "served" ELSE "unserved"}
         /\ log' = IF ok THEN log \cup {<<arm, "run", "worked">>} ELSE log
    /\ SameProcesses /\ UNCHANGED <<root, act>>

\* The admitted locality is gone again, or leave-timeout passes.
RootSeesLeave ==
    /\ root = "serving" /\ "done" \in files
    /\ \/ /\ act["a"] # "joined" /\ "a" \notin stale
          /\ files' = files \cup {"leave_seen", "final"} /\ finalMembers' = 1
          /\ log' = log \cup {<<arm, "root", "alone">>} /\ UNCHANGED faults
       \/ /\ act["a"] = "joined" \/ "a" \in stale
          /\ IF "a" \in stale THEN UNCHANGED faults ELSE Fault
          /\ files' = files \cup {"final"} /\ finalMembers' = 2 /\ UNCHANGED log
    /\ root' = "leaving"
    /\ UNCHANGED <<place, cluster, act, stale>>

AfterDemand == {"await_served", "await_conn", "await_root", "ended"}

\* The wait for an admission, or for the end of the control arm, ends; early
\* only by a fault while the controller may still act.
RootWaitEnds ==
    /\ root = "serving" /\ "local" \in files /\ "admission" \notin files
    /\ \/ ~DemandArm /\ "finish" \in files /\ UNCHANGED faults
       \/ /\ ~("finish" \in files)
          /\ IF act["a"] \in {"none", "dead", "left"} /\ (pc \in AfterDemand \/ exc)
             THEN UNCHANGED faults ELSE Fault
    /\ root' = "leaving"
    /\ files' = files \cup {"final"} /\ finalMembers' = Members
    /\ log' = IF Members = 1 THEN log \cup {<<arm, "root", "alone">>} ELSE log
    /\ UNCHANGED <<place, cluster, act, stale>>

\* The connector joins a serving root; without one it fails.
ConnectorJoins ==
    /\ act["a"] = "up"
    /\ IF RootServes
       THEN act' = [act EXCEPT !["a"] = "joined"] /\ files' = files \cup {"joined"}
       ELSE act' = [act EXCEPT !["a"] = "dead"] /\ UNCHANGED files
    /\ SameProcesses /\ UNCHANGED <<root, faults, log>>

\* It leaves on root.done; its deadman fires only when the root is silent.
ConnectorLeaves ==
    /\ act["a"] = "joined"
    /\ \/ "done" \in files /\ RootServes
          /\ files' = files \cup {"disconnected"}
          /\ log' = log \cup {<<arm, "a", "left">>}
       \/ root \in {"stalled", "leaving", "exited", "dead"}
          /\ files' = files \cup {"deadman"} /\ UNCHANGED log
    /\ act' = [act EXCEPT !["a"] = "left"]
    /\ SameProcesses /\ UNCHANGED <<root, faults>>

ConnectorExits ==
    /\ act["a"] = "left"
    /\ act' = [act EXCEPT !["a"] = "dead"]
    /\ files' = files \cup {"conn_exit0"}
    /\ SameProcesses /\ UNCHANGED <<root, faults, log>>

Processes ==
    \/ RootBoot \/ RootLocalPhase \/ RootAdmits \/ RootDispatches \/ RootSeesLeave
    \/ RootWaitEnds \/ RootExit(arm) \/ RootResume
    \/ ConnectorJoins \/ ConnectorLeaves \/ ConnectorExits \/ ActorGone("a")

-----------------------------------------------------------------------------
(* The verdicts, from the marker files.                                    *)

Marker(f) == f \in files
CleanRoot == Has(arm, "root", "exit_path", "finalized_clean")

eval_demand_gates ==
    [local_progress_before_demand |-> Ok(arm, "root", "local") /\ Marker("demand"),
     discovery_without_count_gate |-> Marker("admission") /\ Marker("joined"),
     remote_oracle_on_connector |-> Marker("served"),
     connector_left_gracefully |-> Marker("disconnected") /\ Ok(arm, "a", "exited"),
     root_operational_after_leave |-> Marker("leave_seen") /\ Marker("final"),
     clean_exits |-> CleanRoot /\ Ok(arm, "a", "exited") /\ Marker("conn_exit0"),
     no_orphans |-> ~RootAlive]

eval_no_demand_gates ==
    [local_progress_alone |-> Marker("local"),
     zero_connectors_ever |-> Marker("finish") /\ finalMembers = 1,
     root_finalized_clean_alone |-> CleanRoot /\ Marker("final"),
     no_orphans |-> ~RootAlive]

\* Placement, subnet and allocation; the other node's sweep must have run.
eval_crossnode_demand_gates == eval_demand_gates @@ [remote_orphan_check_ran |-> Ok(arm, "run", "swept")]
eval_crossnode_no_demand_gates == eval_no_demand_gates @@ [remote_orphan_check_ran |-> Ok(arm, "run", "swept")]

Gates(g) == IF \A f \in DOMAIN g : g[f] THEN "pass" ELSE "gates_failed"
ArmClass ==
    Gates(CASE DemandArm /\ place = "local" -> eval_demand_gates
            [] DemandArm /\ place = "cross" -> eval_crossnode_demand_gates
            [] ~DemandArm /\ place = "local" -> eval_no_demand_gates
            [] ~DemandArm /\ place = "cross" -> eval_crossnode_no_demand_gates)

-----------------------------------------------------------------------------
(* The controller.                                                         *)

\* An exception leaves the program, whatever it launched.
Abort == exc' = TRUE /\ pc' = "phase_end"

Launch ==
    /\ At("launch")
    /\ \/ NewIsland(arm) /\ Goto("ready") /\ UNCHANGED <<faults, exc>>
       \/ Fault /\ Abort /\ UNCHANGED <<root, act, stale, files, finalMembers, log>>
    /\ UNCHANGED <<cluster, rec>> /\ Same

WaitReady ==
    /\ At("ready")
    /\ \E ok \in BOOLEAN : /\ WaitForFile("ready", ok) /\ Put("root", "ready", ok)
                           /\ Goto(IF ok THEN "local" ELSE "event")
    /\ SameIsland /\ UNCHANGED exc /\ Same

WaitLocal ==
    /\ At("local")
    /\ \E ok \in BOOLEAN : WaitForFile("local", ok) /\ Put("root", "local", ok)
    /\ Goto("event")
    /\ SameIsland /\ UNCHANGED exc /\ Same

\* After the dwell: demand is recorded, and only then the connector created,
\* provided the local phase was seen to end.
Demand ==
    /\ At("event") /\ DemandArm
    /\ files' = files \cup {"demand"}
    /\ IF Ok(arm, "root", "local")
       THEN \/ act' = [act EXCEPT !["a"] = "up"] /\ Goto("await_served") /\ UNCHANGED <<faults, exc>>
            \/ Fault /\ Abort /\ UNCHANGED act
       ELSE Goto("await_root") /\ UNCHANGED <<act, faults, exc>>
    /\ UNCHANGED <<cluster, root, stale, finalMembers, log, rec>> /\ Same

\* The dispatch has failed, or the connector is gone before it was admitted.
NothingComes == "unserved" \in files \/ ("admission" \notin files /\ act["a"] \in {"dead", "left"})

AwaitServed ==
    /\ At("await_served")
    /\ \/ \E ok \in BOOLEAN : WaitForFile("served", ok)
       \/ "served" \notin files /\ NothingComes /\ UNCHANGED faults
    /\ Goto("await_conn")
    /\ SameIsland /\ UNCHANGED <<rec, exc>> /\ Same

AwaitConnector ==
    /\ At("await_conn")
    /\ \/ act["a"] = "dead" /\ Put("a", "exited", TRUE) /\ UNCHANGED <<act, stale, faults>>
       \/ act["a"] # "dead" /\ Fault /\ Killed({"a"}) /\ Put("a", "exited", FALSE)
    /\ Goto("await_root")
    /\ UNCHANGED <<cluster, root, files, finalMembers, log, exc>> /\ Same

NoDemand ==
    /\ At("event") /\ ~DemandArm
    /\ files' = files \cup {"finish"}
    /\ Goto("await_root")
    /\ UNCHANGED <<cluster, root, act, stale, finalMembers, faults, log, rec, exc>> /\ Same

AwaitRoot ==
    /\ At("await_root")
    /\ \E path \in ExitPaths, ran \in BOOLEAN :
         /\ WaitRoot(path) /\ (~ran => place = "cross" /\ faults' = MaxFaults[program])
         /\ rec' = (<<arm, "root", "exit_path">> :> path) @@ (<<arm, "run", "swept">> :> ran) @@ rec
    /\ Goto("verdict")
    /\ UNCHANGED <<cluster, act, stale, files, finalMembers, log, exc>> /\ Same

RepSteps == Launch \/ WaitReady \/ WaitLocal \/ AwaitRoot \/ RepVerdict(ArmClass)

run_demand_rep == place = "local" /\ DemandArm /\ (RepSteps \/ Demand \/ AwaitServed \/ AwaitConnector)
run_no_demand_rep == place = "local" /\ ~DemandArm /\ (RepSteps \/ NoDemand)
run_crossnode_demand_rep ==
    place = "cross" /\ DemandArm /\ (RepSteps \/ Demand \/ AwaitServed \/ AwaitConnector)
run_crossnode_no_demand_rep == place = "cross" /\ ~DemandArm /\ (RepSteps \/ NoDemand)

\* The program ends in the exception, or writes its aggregate.
Phase ==
    /\ \/ At("preflight") /\ ( \/ Goto("launch") /\ SameRun
                               \/ Finish("skip", "none")
                               \/ place = "cross" /\ Finish("fail_preflight", "none") )
       \/ At("phase_end") /\ (IF exc THEN Finish("crash", "none")
                              ELSE Finish(IF AllPassed THEN "pass" ELSE "fail", "none"))
    /\ SameIsland /\ UNCHANGED <<faults, arm, sm, rec, exc, obs>>
main == place = "local" /\ Phase
run_crossnode_phase == place = "cross" /\ Phase

Driver ==
    \/ run_demand_rep \/ run_no_demand_rep \/ main
    \/ run_crossnode_demand_rep \/ run_crossnode_no_demand_rep \/ run_crossnode_phase

Init == RepInit("exp65")
=============================================================================
