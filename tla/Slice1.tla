------------------------------- MODULE Slice1 -------------------------------
(***************************************************************************)
(* Experiment 70, slice 1: restart of an actor-hosted island.  In "epoch0" *)
(* one actor's worker is killed, the island is classified as failed from   *)
(* observations alone and discarded whole; "epoch1" is a fresh island that *)
(* does the same work and is shut down gracefully.                         *)
(***************************************************************************)
EXTENDS Supervisor

Victim == "b"
Survivor == "a"

Epochs == {"epoch0", "epoch1"}

\* _phase: the run's log of phases, in order.
Phases == IF <<"run", "run", "phases">> \in DOMAIN rec THEN rec[<<"run", "run", "phases">>] ELSE <<>>
_phase(r, e) == (<<"run", "run", "phases">> :> Append(Phases, <<arm, e>>)) @@ r
PhaseIf(r, cond, e) == IF cond THEN _phase(r, e) ELSE r

E0_ORDER == <<"root_ready", "actors_joined", "workload_ok", "injected", "classified_failed",
              "survivor_killed", "root_killed", "pids_gone">>
E1_ORDER == <<"root_ready", "actors_joined", "workload_ok", "graceful_stop", "root_finalized",
              "actors_destroyed", "final_orphan_sweep">>

\* Every phase is logged at most once.
subsequence_in_order(epoch, order) ==
    LET mine == SelectSeq(Phases, LAMBDA p : p[1] = epoch)
    IN  [i \in DOMAIN mine |-> mine[i][2]] = order

-----------------------------------------------------------------------------
(* Classification and gates.                                               *)

\* The victim's pid as the extension, the worker and Ray report it.
select_victim == Ok("epoch0", Victim, "identity")

\* Observations only: never the injection record.
classify_island_failed ==
    /\ Ok("epoch0", Victim, "pid_gone")
    /\ Ok("epoch0", Victim, "raised")
    /\ ~Ok("epoch0", Victim, "stopped")

categorize_membership_probe(answered, members) ==
    IF ~answered THEN "query_failed"
    ELSE IF members = 2 THEN "shrank" ELSE IF members = 3 THEN "stale" ELSE "other"

\* start_hpx of the second connector reports a membership of 3.
eval_epoch_join(e) ==
    Ok(e, "root", "ready") /\ \A k \in Conns : Ok(e, k, "identity") /\ Ok(e, k, "start")

eval_epoch_inprocess(e) == \A k \in Conns : Ok(e, k, "identity") /\ Ok(e, k, "start")

eval_workload(e) == Ok(e, "run", "work")

eval_injection == select_victim /\ Ok("epoch0", Victim, "signalled")

eval_post_loss ==
    /\ Ok("epoch0", Victim, "pid_gone") /\ Ok("epoch0", Victim, "raised")
    /\ \E c \in {"query_failed", "shrank", "stale", "other"} : Has("epoch0", Survivor, "membership", c)
    /\ <<"epoch0", "root", "probed">> \in DOMAIN rec

eval_epoch0_teardown ==
    /\ Ok("epoch0", "run", "pids_gone")
    /\ \E fs \in SUBSET {"ready"} : Has("epoch0", "root", "files_at_discard", fs)

\* Ports, directories, pids and actor ids of the epochs are disjoint by construction.
eval_epoch_isolation ==
    \A e \in Epochs : Ok(e, "root", "ready") /\ \A k \in Conns : Ok(e, k, "identity")

eval_epoch1_shutdown ==
    /\ \A k \in Conns : Ok("epoch1", k, "stopped")
    /\ Has("epoch1", "root", "exit_path", "finalized_clean")
    /\ Has("epoch1", "root", "final_membership", 1)
    /\ Ok("epoch1", "run", "pids_gone")

\* evaluate_owned_processes, over the processes registered so far.
evaluate_owned_processes == NobodyLeft

\* Root and both actors of every epoch that was begun.
records_cover_epochs ==
    \A e \in Epochs : e = "epoch0" \/ arm = "epoch1" =>
        Ok(e, "root", "ready") /\ \A k \in Conns : Ok(e, k, "identity")

eval_final == evaluate_owned_processes /\ records_cover_epochs

eval_cluster_attestation == place = "cross" => Ok("epoch0", "run", "attested")

eval_crossnode_placement(e) ==
    place = "cross" => Ok(e, "root", "ready") /\ \A k \in Conns : Ok(e, k, "identity")

evaluate_run ==
    << <<"invalid_instrumentation", select_victim>>,
       <<"crossnode_attestation_failed", eval_cluster_attestation>>,
       <<"epoch0_join_failed", eval_epoch_join("epoch0")>>,
       <<"epoch0_inprocess_proof_failed", eval_epoch_inprocess("epoch0")>>,
       <<"crossnode_placement_failed", eval_crossnode_placement("epoch0")>>,
       <<"epoch0_workload_failed", eval_workload("epoch0")>>,
       <<"injection_not_observed", eval_injection>>,
       <<"island_failure_not_classified", classify_island_failed>>,
       <<"post_loss_observation_incomplete", eval_post_loss>>,
       <<"epoch0_teardown_incomplete", eval_epoch0_teardown>>,
       <<"epoch_isolation_violated", eval_epoch_isolation>>,
       <<"epoch1_join_failed", eval_epoch_join("epoch1") /\ eval_epoch_inprocess("epoch1")>>,
       <<"crossnode_placement_failed", eval_crossnode_placement("epoch1")>>,
       <<"epoch1_workload_failed", eval_workload("epoch1")>>,
       <<"epoch1_shutdown_failed", eval_epoch1_shutdown>> >>

failure_class ==
    FirstFailed(evaluate_run
                \o << <<"orphan_detected", eval_final>>,
                      <<"invalid_ordering", /\ subsequence_in_order("epoch0", E0_ORDER)
                                            /\ subsequence_in_order("epoch1", E1_ORDER)>> >>)

\* The controller's exception is reported but does not enter the verdict.
rollup == [overall |-> IF failure_class = "pass" THEN "pass" ELSE "fail", class |-> failure_class]

-----------------------------------------------------------------------------
(* The live driver.                                                        *)

Preflight == PreflightStep
ClusterHead == HeadStep
ClusterWorker == WorkerStep
LaunchRoot == LaunchStep

\* bring_up_epoch gives up on a root that is not ready, or is gone already.
AwaitReady ==
    /\ At("ready")
    /\ \E ok \in BOOLEAN :
         /\ WaitForFile("ready", ok)
         /\ rec' = PhaseIf((<<arm, "root", "ready">> :> ok) @@ rec, ok /\ RootAlive, "root_ready")
         /\ OrRaise(ok /\ RootAlive, "actor_a")
    /\ SameIsland /\ UNCHANGED <<arm, sm, obs>> /\ SameRun

JoinActor == \E k \in Conns : Joining(k)

BringUpGates ==
    /\ At("join")
    /\ LET ok == eval_epoch_join(arm) /\ eval_epoch_inprocess(arm)
       IN  rec' = PhaseIf(rec, ok, "actors_joined") /\ OrRaise(ok, "work")
    /\ SameIsland /\ UNCHANGED <<faults, arm, sm, obs>> /\ SameRun

run_workload ==
    /\ At("work")
    /\ \E ok \in BOOLEAN :
         /\ TopKCase(ok)
         /\ rec' = PhaseIf((<<arm, "run", "work">> :> ok) @@ rec, ok, "workload_ok")
         /\ log' = IF ok THEN log \cup {<<arm, "run", "worked">>} ELSE log
         /\ OrRaise(ok, IF arm = "epoch0" THEN "inject" ELSE "stop_a")
    /\ UNCHANGED <<cluster, root, act, stale, files, finalMembers, arm, sm, obs>> /\ SameRun

\* The kill is sent when the victim is this epoch's; a process that is gone
\* cannot be signalled.
inject_victim_loss ==
    /\ At("inject")
    /\ LET sent == select_victim /\ Victim \in Running
       IN  /\ IF sent THEN Killed({Victim}) ELSE UNCHANGED <<act, stale>>
           /\ rec' = PhaseIf((<<arm, Victim, "signalled">> :> sent) @@ rec, sent, "injected")
           /\ log' = IF sent THEN log \cup {<<arm, Victim, "killed">>} ELSE log
           /\ OrRaise(sent, "victim_gone")
    /\ UNCHANGED <<cluster, root, files, finalMembers, faults, arm, sm, obs>> /\ SameRun

\* Bounded probes of the victim, of the survivor and of the root's witness.
observe_post_loss ==
    \/ /\ At("victim_gone")
       /\ \E gone \in BOOLEAN : WaitPidGone({Victim}, gone) /\ Put(Victim, "pid_gone", gone)
       /\ Goto("victim_ping")
       /\ SameIsland /\ UNCHANGED <<arm, sm, exc, obs>> /\ SameRun
    \/ /\ At("victim_ping")
       /\ \E answered \in BOOLEAN : RayGet(Victim, answered) /\ Put(Victim, "raised", ~answered)
       /\ Goto("survivor_probe")
       /\ SameIsland /\ UNCHANGED <<arm, sm, exc, obs>> /\ SameRun
    \/ /\ At("survivor_probe")
       /\ \E ok \in BOOLEAN :
            /\ Health(Survivor, ok)
            /\ rec' = (<<arm, Survivor, "membership">> :> categorize_membership_probe(ok, Members))
                      @@ (<<arm, "root", "probed">> :> RootAlive) @@ rec
       /\ Goto("classify")
       /\ SameIsland /\ UNCHANGED <<arm, sm, exc, obs>> /\ SameRun

ClassifyIsland ==
    /\ At("classify")
    /\ rec' = PhaseIf(rec, classify_island_failed, "classified_failed")
    /\ OrRaise(classify_island_failed, "discard")
    /\ SameIsland /\ UNCHANGED <<faults, arm, sm, obs>> /\ SameRun

\* The poisoned island is discarded whole: both actors, then the root.  What
\* comes of it does not decide whether epoch1 starts.
DiscardIsland ==
    /\ At("discard")
    /\ Killed(Conns) /\ KilledRoot
    /\ rec' = _phase((<<arm, "root", "files_at_discard">> :> files) @@ rec, "survivor_killed")
    /\ Goto("root_gone")
    /\ UNCHANGED <<cluster, files, finalMembers, faults, log, arm, sm, exc, obs>> /\ SameRun

teardown_epoch0 ==
    /\ At("root_gone")
    /\ \E gone \in BOOLEAN :
         /\ WaitPidGone(Conns, gone)
         /\ rec' = (<<arm, "run", "pids_gone">> :> gone)
                   @@ (<<"run", "run", "phases">> :>
                        Phases \o << <<arm, "root_killed">> >>
                               \o (IF gone THEN << <<arm, "pids_gone">> >> ELSE <<>>)) @@ rec
    /\ arm' = "epoch1" /\ Goto("launch")
    /\ SameIsland /\ UNCHANGED <<sm, exc, obs>> /\ SameRun

StopConnectors ==
    \/ At("stop_a") /\ StopStep("a", FALSE, "stop_b")
    \/ At("stop_b") /\ StopStep("b", TRUE, "await_final")

AwaitFinal == AwaitFinalStep("await_exit")
AwaitExit == AwaitExitStep("epoch1_gone")

KillEpoch1Actors ==
    /\ At("epoch1_gone")
    /\ Killed(Conns)
    /\ LET stopped == \A k \in Conns : Ok(arm, k, "stopped")
           final == Has(arm, "root", "exit_path", "finalized_clean")
                    /\ Has(arm, "root", "final_membership", 1)
       IN  rec' = (<<"run", "run", "phases">> :>
                     Phases \o (IF stopped THEN << <<arm, "graceful_stop">> >> ELSE <<>>)
                            \o (IF final THEN << <<arm, "root_finalized">> >> ELSE <<>>)) @@ rec
    /\ Goto("shutdown")
    /\ UNCHANGED <<cluster, root, files, finalMembers, faults, log, arm, sm, exc, obs>> /\ SameRun

shutdown_epoch1 ==
    /\ At("shutdown")
    /\ \E gone \in BOOLEAN :
         /\ WaitPidGone(Conns, gone)
         /\ rec' = PhaseIf((<<arm, "run", "pids_gone">> :> gone) @@ rec, gone, "actors_destroyed")
    /\ Goto("verdict")
    /\ SameIsland /\ UNCHANGED <<arm, sm, exc, obs>> /\ SameRun

\* run_two_epochs raises when the graceful shutdown fell short.
EndOfEpochs ==
    /\ At("verdict")
    /\ OrRaise(eval_epoch1_shutdown, "finalize")
    /\ SameIsland /\ UNCHANGED <<faults, arm, sm, rec, obs>> /\ SameRun

finalize_run ==
    /\ At("finalize")
    /\ Killed(Conns) /\ KilledRoot
    /\ rec' = (<<"run", "run", "phases">> :> Append(Phases, <<"epoch1", "final_orphan_sweep">>)) @@ rec
    /\ Goto("sweep")
    /\ UNCHANGED <<cluster, files, finalMembers, faults, log, arm, sm, exc, obs>> /\ SameRun

write_outputs == SweepStep(rollup)

bring_up_epoch == LaunchRoot \/ AwaitReady \/ JoinActor \/ BringUpGates

run_two_epochs ==
    \/ bring_up_epoch \/ run_workload \/ inject_victim_loss \/ observe_post_loss \/ ClassifyIsland
    \/ DiscardIsland \/ teardown_epoch0
    \/ StopConnectors \/ AwaitFinal \/ AwaitExit \/ KillEpoch1Actors \/ shutdown_epoch1 \/ EndOfEpochs

live_run == place = "local" /\ (Preflight \/ run_two_epochs \/ finalize_run \/ write_outputs)

crossnode_live_run ==
    /\ place = "cross"
    /\ Preflight \/ ClusterHead \/ ClusterWorker \/ run_two_epochs \/ finalize_run \/ write_outputs

Driver == live_run \/ crossnode_live_run

Init == IslandInit /\ SupervisorInit("slice1", "epoch0", "none")
=============================================================================
