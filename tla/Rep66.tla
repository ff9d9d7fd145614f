------------------------------- MODULE Rep66 -------------------------------
(***************************************************************************)
(* Experiment 66: one Ray actor hosts an HPX locality and a standalone     *)
(* prober process, the island's other connector, dispatches at it.  The    *)
(* prober leaves of its own accord when it sees root.done, while the root  *)
(* waits for it to be gone.                                                *)
(***************************************************************************)
EXTENDS Rep

Prober == "b"

-----------------------------------------------------------------------------
(* The prober process.                                                     *)

ProberSame == UNCHANGED <<place, cluster, root, finalMembers, faults>>

\* hpx::start in connect mode; without a root it fails and the process ends.
ProberJoin ==
    /\ act[Prober] = "up"
    /\ \/ /\ RootServes
          /\ act' = [act EXCEPT ![Prober] = "joined"]
          /\ files' = files \cup {"prober_joined"}
       \/ /\ ~RootAlive
          /\ act' = [act EXCEPT ![Prober] = "dead"] /\ UNCHANGED files
    /\ ProberSame /\ UNCHANGED <<stale, log>>

\* run_phase: good when the actor's locality answers with the right value.
ProberProbe ==
    /\ act[Prober] = "joined" /\ "probe_go" \in files
    /\ files \cap {"probe_good", "probe_bad"} = {}
    /\ files' = files \cup {IF act["a"] = "joined" THEN "probe_good" ELSE "probe_bad"}
    /\ log' = IF act["a"] = "joined" THEN log \cup {<<arm, "run", "worked">>} ELSE log
    /\ ProberSame /\ UNCHANGED <<act, stale>>

\* root.done releases the prober; a root that stopped beating lets it go too.
ProberLeave ==
    /\ act[Prober] = "joined"
    /\ \/ "done" \in files /\ files' = files \cup {"prober_left"}
       \/ "done" \notin files /\ ~RootAlive /\ files' = files \cup {"prober_deadman"}
    /\ act' = [act EXCEPT ![Prober] = "left"]
    /\ log' = IF "done" \in files THEN log \cup {<<arm, Prober, "left">>} ELSE log
    /\ ProberSame /\ UNCHANGED stale

ProberExit ==
    /\ act[Prober] = "left"
    /\ act' = [act EXCEPT ![Prober] = "dead"]
    /\ ProberSame /\ UNCHANGED <<files, stale, log>>

Processes ==
    \/ RootBoot \/ RootLeave(arm) \/ RootExit(arm) \/ RootResume \/ ActorGone("a") \/ ActorGone(Prober)
    \/ act[Prober] # "joined" /\ RootLeaveTimeout
    \/ ProberJoin \/ ProberProbe \/ ProberLeave \/ ProberExit

\* The root gives up on a prober that is about to leave.
LeaveTooSlow == act[Prober] = "joined" /\ RootGivesUp /\ Fault

-----------------------------------------------------------------------------
(* The runner.                                                             *)

HpxActor(k, method, ok) == ActorMethod(k, method, ok)

ProberAlive == Prober \in Running
WaitForProber(f, ok) ==
    /\ ok <=> f \in files
    /\ Outcome(ok, f \in files \/ (ProberAlive /\ RootAlive))

eval_slice_a ==
    /\ Ok(arm, "a", "identity") /\ Ok(arm, "a", "start") /\ Ok(arm, "a", "child")
    /\ Ok(arm, "run", "prober_joined") /\ Ok(arm, "run", "probe")
    /\ Ok(arm, "a", "health") /\ Ok(arm, "a", "stopped")
    /\ Ok(arm, "root", "ready") /\ Ok(arm, "run", "prober_left")
    /\ Has(arm, "root", "final_membership", 1)
    /\ Has(arm, "root", "exit_path", "finalized_clean")
    /\ Ok(arm, "run", "destroyed") /\ Ok(arm, "a", "recreate") /\ Ok(arm, "run", "no_orphans")

\* Progress while the actor's Python thread is idle.
eval_slice_b == Ok(arm, "run", "probe")

TightBudget == TRUE     \* default: two Ray CPUs, two HPX threads
classify_slice_c(overlap, progressed) ==
    CASE ~overlap -> "invalid_diagnostic"
      [] overlap /\ progressed -> "progressed_under_actor_saturation"
      [] overlap /\ ~progressed /\ TightBudget -> "ray_hpx_thread_budget_conflict_suspected"
      [] OTHER -> "gil_monopolization_suspected"

rep_verdict == IF eval_slice_a /\ eval_slice_b THEN "pass" ELSE "fail"

Join ==
    \/ At("actor_a") /\ RepActor("a", "start_a")
    \/ At("start_a") /\ RepStart("a", HpxActor, "child_a")
    \/ At("child_a") /\ RepChild("a", HpxActor, "prober")

\* The prober is launched and awaited, and triggered once the actor's
\* locality is known.
LaunchProber ==
    \/ /\ At("prober")
       /\ act' = [act EXCEPT ![Prober] = "up"]
       /\ Goto("prober_up")
       /\ UNCHANGED <<cluster, root, stale, files, finalMembers, faults, log, rec, exc>> /\ Same
    \/ /\ At("prober_up")
       /\ \E ok \in BOOLEAN : WaitForProber("prober_joined", ok) /\ Put("run", "prober_joined", ok)
       /\ files' = IF Ok(arm, "a", "start") THEN files \cup {"probe_go"} ELSE files
       /\ Goto("probe")
       /\ UNCHANGED <<cluster, root, act, stale, finalMembers, log, exc>> /\ Same

IdleProbe ==
    /\ At("probe")
    /\ \E ok, in \in BOOLEAN :
         /\ in <=> files \cap {"probe_good", "probe_bad"} # {}
         /\ IF Ok(arm, "a", "start") THEN Outcome(in, in \/ (ProberAlive /\ RootAlive)) ELSE UNCHANGED faults
         /\ ok <=> "probe_good" \in files
         /\ Put("run", "probe", ok)
    /\ Goto("health")
    /\ SameIsland /\ UNCHANGED exc /\ Same

HealthAndStop ==
    \/ At("health") /\ RepHealth("a", HpxActor, "saturate")
    \/ RepSaturate(Ok(arm, "a", "start"), classify_slice_c)
    \/ At("stop_a") /\ RepStop("a", HpxActor, "destroy")
    \/ /\ At("destroy")
       /\ Killed({"a"}) /\ Goto("destroyed")
       /\ UNCHANGED <<cluster, root, files, finalMembers, faults, log, rec, exc>> /\ Same

Destroyed(local) ==
    /\ At("destroyed")
    /\ \E ok \in BOOLEAN :
         /\ IF local THEN WaitPidGone({"a"}, ok) ELSE Outcome(ok, TRUE)
         /\ Put("run", "destroyed", ok)
    /\ Goto("recreate")
    /\ SameIsland /\ UNCHANGED exc /\ Same

\* A fresh actor answers a ping; root.done releases prober and root.
Recreate ==
    /\ At("recreate")
    /\ act' = [act EXCEPT !["a"] = IF @ = "dying" THEN "renewed" ELSE "up"]
    /\ \E ok \in BOOLEAN : Outcome(ok, TRUE) /\ Put("a", "recreate", ok)
    /\ files' = files \cup {"done"}
    /\ Goto("await_prober")
    /\ UNCHANGED <<cluster, root, stale, finalMembers, log, exc>> /\ Same

\* prober.disconnected with reason root_completion_signal.
AwaitProber ==
    /\ At("await_prober")
    /\ \E ok \in BOOLEAN :
         /\ ok => "prober_left" \in files
         /\ Outcome(ok, "prober_left" \in files \/ act[Prober] = "joined")
         /\ Put("run", "prober_left", ok)
    /\ Goto("await_final")
    /\ SameIsland /\ UNCHANGED exc /\ Same

\* The prober is joined first, killed at the deadline; its exit is not gated.
JoinProber ==
    /\ At("join_prober")
    /\ \/ ~ProberAlive /\ UNCHANGED <<act, stale, faults>>
       \/ ProberAlive /\ Fault /\ Killed({Prober})
    /\ Goto("await_exit")
    /\ UNCHANGED <<cluster, root, files, finalMembers, log, rec, exc>> /\ Same

\* The new actor is killed and looked for, then the peers, prober included.
\* Across nodes a local look that could not be made counts as no orphan.
Retire(local) ==
    \/ /\ At("retire")
       /\ Killed({"a"}) /\ Goto("gone")
       /\ UNCHANGED <<cluster, root, files, finalMembers, faults, log, rec, exc>> /\ Same
    \/ /\ At("gone")
       /\ \E ok \in BOOLEAN :
            /\ IF local THEN WaitPidGone({k \in {"a"} : Ok(arm, k, "recreate")}, ok) ELSE Outcome(ok, TRUE)
            /\ rec' = (<<arm, "run", "no_orphans">> :>
                         (/\ ok /\ ~RootAlive /\ ~ProberAlive
                          /\ local \/ Ok(arm, "run", "destroyed")))
                      @@ (<<arm, "run", "swept">> :> (ok \/ local)) @@ rec
       /\ Goto("finally")
       /\ SameIsland /\ UNCHANGED exc /\ Same

RepSteps(local, verdict) ==
    \/ RepLaunch \/ ReadyStep \/ Join \/ LaunchProber \/ IdleProbe \/ HealthAndStop
    \/ Destroyed(local) \/ Recreate \/ AwaitProber \/ AwaitFinalStep("join_prober") \/ JoinProber
    \/ AwaitExitStep("retire") \/ Retire(local) \/ RepFinally \/ RepVerdict(verdict)

run_rep == place = "local" /\ RepSteps(TRUE, rep_verdict)
run_local_phase == place = "local" /\ (PreflightStep \/ LocalEnd)

\* The hard placement of the actor and the remote sweep, not where the
\* re-created actor landed.
eval_crossnode_slice_a == eval_slice_a /\ Ok(arm, "a", "identity") /\ Ok(arm, "run", "swept")

run_crossnode_rep ==
    /\ place = "cross"
    /\ RepSteps(FALSE, IF eval_crossnode_slice_a /\ eval_slice_b THEN "pass" ELSE "fail")

crossnode_cluster == place = "cross" /\ (PreflightStep \/ HeadStep \/ WorkerStep)
crossnode_end == CrossEnd

Driver == run_rep \/ run_local_phase \/ run_crossnode_rep \/ crossnode_cluster \/ crossnode_end

Init == RepInit("exp66")
=============================================================================
