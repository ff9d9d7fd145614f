------------------------------- MODULE Slice2 -------------------------------
(***************************************************************************)
(* Experiment 70, slice 2: explicit completion.  One island stays          *)
(* available across an idle interval, accepts later work, and its          *)
(* connectors leave only after the supervisor published the completion of  *)
(* this epoch.                                                             *)
(***************************************************************************)
EXTENDS Supervisor

STATES == <<"STARTING", "READY", "WORK_1_VERIFIED", "IDLE", "WORK_2_VERIFIED",
            "COMPLETION_PUBLISHED", "CONNECTORS_LEAVING", "ROOT_ALONE", "FINALIZED">>

advance(to, l) == Advance(STATES, to, l)

\* The fence: application work is dispatched in READY and IDLE only.
dispatch_guard == sm \in {"READY", "IDLE"}

\* CompletionContract.try_publish, every attempt recorded.
Attempts == IF <<arm, "contract", "attempts">> \in DOMAIN rec
            THEN rec[<<arm, "contract", "attempts">>] ELSE <<>>
try_publish(verified) ==
    LET already == \E i \in DOMAIN Attempts : Attempts[i].accepted
    IN  [state |-> sm, verified |-> verified, already |-> already,
         accepted |-> verified /\ ~already /\ sm = "WORK_2_VERIFIED"]

\* observe_completion: a marker of another epoch never satisfies it.
observe_completion(marker) == marker = "this_epoch"
Marker == IF "completion" \in files THEN "this_epoch" ELSE "none"

-----------------------------------------------------------------------------
(* Gate evaluators.                                                        *)

eval_startup ==
    /\ Ok(arm, "root", "ready")
    /\ \A k \in Conns : Ok(arm, k, "identity") /\ Ok(arm, k, "start") /\ Has(arm, k, "join", 3)

eval_inprocess == \A k \in Conns : Ok(arm, k, "identity") /\ Ok(arm, k, "start")

eval_work(w) == Ok(arm, "run", w)

eval_idle == Ok(arm, "run", "pre_health") /\ Has(arm, "run", "post_membership", 3)

eval_work2_distinguishable == Has(arm, "run", "work2_state", "IDLE")

eval_completion ==
    LET accepted == SelectSeq(Attempts, LAMBDA t : t.accepted)
        dup == SelectSeq(Attempts, LAMBDA t : t.already)
    IN  /\ Len(accepted) = 1 /\ dup # <<>>
        /\ \A i \in DOMAIN accepted : accepted[i].state = "WORK_2_VERIFIED" /\ accepted[i].verified
        /\ \A i \in DOMAIN Attempts : ~Attempts[i].verified => ~Attempts[i].accepted
        /\ \A i \in DOMAIN dup : ~dup[i].accepted

eval_fence == Has(arm, "run", "fence", "COMPLETION_PUBLISHED")

eval_observation == \A k \in Conns : Ok(arm, k, "observed")

\* Each connector was stopped gracefully, after it observed the publication.
eval_departure == \A k \in Conns : Ok(arm, k, "stopped") /\ <<arm, k, "observed">> \in DOMAIN rec

eval_root_alone == Has(arm, "root", "final_membership", 1)

eval_finalize == Has(arm, "root", "exit_path", "finalized_clean") /\ Ok(arm, "run", "actor_pids_gone")

eval_epoch_scope == Marker = "this_epoch" /\ Has(arm, "run", "stale_observed", FALSE)

eval_ordering == sm = "FINALIZED"

\* evaluate_owned_processes and records_cover_island.
eval_final == /\ NobodyLeft
              /\ Ok(arm, "root", "ready") /\ \A k \in Conns : Ok(arm, k, "identity")

eval_placement ==
    place = "cross" => Ok(arm, "run", "attested") /\ \A k \in Conns : Ok(arm, k, "identity")

Gates ==
    << <<"crossnode_placement_failed", eval_placement>>,
       <<"startup_failed", eval_startup>>,
       <<"inprocess_proof_failed", eval_inprocess>>,
       <<"work1_failed", eval_work("work1")>>,
       <<"idle_availability_failed", eval_idle>>,
       <<"work2_failed", eval_work("work2") /\ eval_work2_distinguishable>>,
       <<"completion_contract_violated", eval_completion>>,
       <<"post_completion_fence_breached", eval_fence>>,
       <<"completion_observation_incomplete", eval_observation>>,
       <<"departure_failed", eval_departure>>,
       <<"root_alone_not_observed", eval_root_alone>>,
       <<"finalize_failed", eval_finalize>>,
       <<"epoch_scope_violated", eval_epoch_scope>>,
       <<"invalid_ordering", eval_ordering>>,
       <<"orphan_detected", eval_final>> >>

\* The controller's exception is reported but does not enter the verdict.
rollup ==
    LET c == FirstFailed(Gates)
    IN  [overall |-> IF c = "pass" THEN "pass" ELSE "fail", class |-> c]

-----------------------------------------------------------------------------
(* The live driver.                                                        *)

Preflight == PreflightStep
ClusterHead == HeadStep
ClusterWorker == WorkerStep
LaunchRoot == LaunchStep
AwaitReady == ReadyStep
JoinActor == \E k \in Conns : Joining(k)
JoinHealth == JoinHealthStep

BringUpGates ==
    /\ At("gates")
    /\ IF eval_startup /\ eval_inprocess
       THEN advance("READY", "work1") ELSE Raise /\ UNCHANGED sm
    /\ SameIsland /\ UNCHANGED <<faults, arm, rec, obs>> /\ SameRun

\* One top-k case, dispatched under the guard and verified.
_run_case(w, to, next) ==
    /\ At(w) /\ dispatch_guard
    /\ \E ok \in BOOLEAN :
         /\ TopKCase(ok)
         /\ rec' = (<<arm, "run", w>> :> ok) @@ (<<arm, "run", "work2_state">> :> sm) @@ rec
         /\ log' = IF ok THEN log \cup {<<arm, "run", w>>} ELSE log
         /\ IF ok THEN advance(to, next) ELSE Raise /\ UNCHANGED sm
    /\ UNCHANGED <<cluster, root, act, stale, files, finalMembers, arm, obs>> /\ SameRun

RunWork1 == _run_case("work1", "WORK_1_VERIFIED", "pre_idle")

\* The premature publication is refused; both connectors answer before the
\* idle interval, in which nothing is sent.
EnterIdle ==
    /\ At("pre_idle")
    /\ \E ok \in BOOLEAN :
         /\ Outcome(ok, \A k \in Conns : act[k] = "joined" /\ RootServes)
         /\ rec' = (<<arm, "contract", "attempts">> :> <<try_publish(FALSE)>>)
                   @@ (<<arm, "run", "pre_health">> :> ok) @@ rec
    /\ Goto("post_idle")
    /\ SameIsland /\ UNCHANGED <<arm, sm, exc, obs>> /\ SameRun

LeaveIdle ==
    /\ At("post_idle")
    /\ \E ok \in BOOLEAN :
         /\ Outcome(ok, \A k \in Conns : act[k] = "joined" /\ RootServes)
         /\ IF ok THEN Put("run", "post_membership", Members) ELSE UNCHANGED rec
    /\ advance("IDLE", "work2")
    /\ SameIsland /\ UNCHANGED <<arm, obs>> /\ SameRun

RunWork2 == _run_case("work2", "WORK_2_VERIFIED", "publish")

\* Faulty variant: an accepted publication whose marker is never written.
PublishUnwritten ==
    /\ At("publish")
    /\ LET att == try_publish(TRUE)
       IN  /\ rec' = (<<arm, "run", "stale_observed">> :> observe_completion("prior_epoch"))
                     @@ (<<arm, "contract", "attempts">> :> Append(Attempts, att)) @@ rec
           /\ IF att.accepted THEN advance("COMPLETION_PUBLISHED", "fence") ELSE Raise /\ UNCHANGED sm
    /\ UNCHANGED <<cluster, root, act, stale, files, finalMembers, faults, log, arm, obs>> /\ SameRun

\* The control observation of a prior epoch's marker, then the publication.
PublishCompletion ==
    /\ At("publish")
    /\ LET att == try_publish(TRUE)
       IN  /\ rec' = (<<arm, "run", "stale_observed">> :> observe_completion("prior_epoch"))
                     @@ (<<arm, "contract", "attempts">> :> Append(Attempts, att)) @@ rec
           /\ files' = IF att.accepted THEN files \cup {"completion"} ELSE files
           /\ IF att.accepted THEN advance("COMPLETION_PUBLISHED", "fence") ELSE Raise /\ UNCHANGED sm
    /\ UNCHANGED <<cluster, root, act, stale, finalMembers, faults, log, arm, obs>> /\ SameRun

\* The duplicate publication and the post-completion dispatch, both refused.
ProbeFence ==
    /\ At("fence")
    /\ rec' = (<<arm, "contract", "attempts">> :> Append(Attempts, try_publish(TRUE)))
              @@ (<<arm, "run", "fence">> :> IF dispatch_guard THEN "dispatched" ELSE sm) @@ rec
    /\ Goto("observe")
    /\ SameIsland /\ UNCHANGED <<faults, arm, sm, exc, obs>> /\ SameRun

\* Each connector observes the marker within its bound.
ObserveCompletion ==
    /\ At("observe")
    /\ \E ok \in BOOLEAN :
         /\ Outcome(ok, observe_completion(Marker))
         /\ rec' = [x \in {<<arm, k, "observed">> : k \in Conns} |-> ok] @@ rec
    /\ advance("CONNECTORS_LEAVING", "stop_a")
    /\ SameIsland /\ UNCHANGED <<arm, obs>> /\ SameRun

StopConnectors ==
    \/ At("stop_a") /\ StopStep("a", FALSE, "stop_b")
    \/ At("stop_b") /\ StopStep("b", TRUE, "await_final")

AwaitFinal == AwaitFinalStep("root_alone")

\* ROOT_ALONE is entered only on root.final's leave_observed.
RecordRootAlone ==
    /\ At("root_alone")
    /\ IF eval_root_alone THEN advance("ROOT_ALONE", "await_exit") ELSE Goto("await_exit") /\ UNCHANGED <<sm, exc>>
    /\ SameIsland /\ UNCHANGED <<faults, arm, rec, obs>> /\ SameRun

AwaitExit == AwaitExitStep("discard")
DiscardActors == DiscardStep("gone")

ConfirmGone ==
    /\ At("gone")
    /\ \E ok \in BOOLEAN :
         /\ WaitPidGone(Conns, ok) /\ Put("run", "actor_pids_gone", ok)
         /\ IF ok /\ Has(arm, "root", "exit_path", "finalized_clean")
            THEN advance("FINALIZED", "finalize") ELSE Goto("finalize") /\ UNCHANGED <<sm, exc>>
    /\ SameIsland /\ UNCHANGED <<arm, obs>> /\ SameRun

Finalize == FinalizeStep
Sweep == SweepStep(rollup)

_island_lifecycle ==
    \/ LaunchRoot \/ AwaitReady \/ JoinActor \/ JoinHealth \/ BringUpGates \/ RunWork1 \/ EnterIdle
    \/ LeaveIdle \/ RunWork2 \/ PublishCompletion \/ ProbeFence \/ ObserveCompletion \/ StopConnectors
    \/ AwaitFinal \/ AwaitExit \/ RecordRootAlone \/ DiscardActors \/ ConfirmGone

live_local_run == place = "local" /\ (Preflight \/ _island_lifecycle \/ Finalize \/ Sweep)

crossnode_live_run ==
    /\ place = "cross"
    /\ Preflight \/ ClusterHead \/ ClusterWorker \/ _island_lifecycle \/ Finalize \/ Sweep

Driver == live_local_run \/ crossnode_live_run

Init == IslandInit /\ SupervisorInit("slice2", "island", "STARTING")
=============================================================================
