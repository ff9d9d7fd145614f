------------------------------- MODULE Slice4 -------------------------------
(***************************************************************************)
(* Experiment 70, slice 4: a root that completes explicitly against a root *)
(* that is lost.  Two arms run one after the other, each on an island of   *)
(* its own: "normal" publishes an epoch-scoped completion witness, "loss"  *)
(* kills the root and must end in bounded suspicion.  One classifier,      *)
(* blind to the injection, names the event in both.                        *)
(*                                                                         *)
(* Time is counted in refresh periods of root.alive: one poll of the       *)
(* observer stands for the polls within one period.                        *)
(***************************************************************************)
EXTENDS Supervisor

CONSTANTS SuspicionBound, ObserveBound, ShortBound

STATES == <<"STARTING", "READY", "WORK_VERIFIED", "RESULT_VERIFIED", "ROOT_EVENT_CLASSIFIED",
            "CONNECTORS_OBSERVED", "ISLAND_DISPOSED", "FINALIZED">>

\* advance: only to the successor; anything else raises InvalidTransition.
advance(to, l) == Advance(STATES, to, l)

\* dispatch_guard: application work is dispatched only in READY.
dispatch_guard == sm = "READY"

-----------------------------------------------------------------------------
(* The classifier and the observer that feeds it.                          *)

\* Faulty variant: an observation that ends without an event is a loss.
DeadlineIsLoss(ev) ==
    IF ev.read_error THEN "observation_error"
    ELSE IF ev.present /\ ev.match THEN "explicit_completion"
    ELSE IF ev.silence >= ev.bound \/ ev.deadline THEN "suspected_root_loss"
    ELSE "pending"

classify_root_event(ev) ==
    IF ev.read_error THEN "observation_error"
    ELSE IF ev.present /\ ev.match THEN "explicit_completion"
    ELSE IF ev.silence >= ev.bound THEN "suspected_root_loss"
    ELSE IF ev.deadline THEN "observation_timeout"
    ELSE "pending"

\* Entry of observe_root_event for an epoch and a root identity, each this
\* arm's or not; "to" names the marker that takes the result.
Observe(to, epoch, identity, limit) ==
    /\ obs' = [to |-> to, epoch |-> epoch, identity |-> identity, limit |-> limit,
               silence |-> 0, elapsed |-> 0]
    /\ Goto("observing")

\* The evidence of one poll.  A serving root has rewritten root.alive since
\* the previous poll.
collect_root_evidence(read_error) ==
    [present |-> "completion" \in files,
     match |-> "completion" \in files /\ obs.epoch /\ obs.identity,
     silence |-> IF root = "serving" THEN 0 ELSE obs.silence,
     bound |-> SuspicionBound,
     deadline |-> obs.elapsed >= obs.limit,
     read_error |-> read_error]

\* Where _run_arm goes on after each of its observations.
AfterObservation ==
    [wrong_epoch |-> "wrong_root",
     wrong_root |-> IF arm = "normal" THEN "observe" ELSE "classified",
     probe |-> "inject",
     event |-> IF arm = "normal" THEN "classified" ELSE "wrong_epoch",
     conn_a |-> "conn_b",
     conn_b |-> "observed"]

\* One poll.  The witness is unreadable only while no token was ever read.
observe_root_event ==
    /\ At("observing")
    /\ \E err \in {FALSE, obs.elapsed = 0} :
         LET ev == collect_root_evidence(err)
             res == classify_root_event(ev)
         IN  /\ Outcome(~err, TRUE)
             /\ IF res = "pending"
                THEN /\ obs' = [obs EXCEPT !.silence = ev.silence + 1, !.elapsed = @ + 1]
                     /\ UNCHANGED <<pc, rec, log>>
                ELSE /\ obs' = NoObs
                     /\ Put("observer", obs.to, res)
                     /\ Goto(AfterObservation[obs.to])
                     /\ log' = IF res # "suspected_root_loss" THEN log
                               ELSE log \cup {<<arm, "root", IF RootAlive THEN "suspected_alive"
                                                             ELSE "suspected_gone">>}
    /\ UNCHANGED <<cluster, root, act, stale, files, finalMembers, arm, sm, exc>>
    /\ SameRun

\* RootEventContract.try_publish_completion: its answer.
try_publish_completion(verified) ==
    IF ~verified THEN "not verified"
    ELSE IF sm # "RESULT_VERIFIED" THEN "wrong state"
    ELSE IF Has(arm, "contract", "publication", "accepted") THEN "already published"
    ELSE "accepted"

-----------------------------------------------------------------------------
(* Gate evaluators, over the markers of arm r.                             *)

Event(r, e) == Has(r, "observer", "event", e)
Expected(r) == IF r = "normal" THEN "explicit_completion" ELSE "suspected_root_loss"

eval_startup(r) ==
    /\ Ok(r, "root", "ready")
    /\ \A k \in Conns : Ok(r, k, "identity") /\ Ok(r, k, "start") /\ Has(r, k, "join", 3)

eval_inprocess(r) == \A k \in Conns : Ok(r, k, "identity") /\ Ok(r, k, "start")

eval_work(r) == Ok(r, "run", "work")

eval_result_verification(r) == Has(r, "run", "verified_in", "WORK_VERIFIED")

eval_root_injection_preconditions(r) == Ok(r, "run", "preconditions")

eval_root_event(r) == Event(r, Expected(r))

eval_blindness(r) == \E e \in {"explicit_completion", "suspected_root_loss", "observation_error",
                               "observation_timeout"} : Event(r, e)

eval_monotonic_record(r) ==
    /\ eval_blindness(r)
    /\ r = "loss" => ~Has(r, "observer", "probe", "suspected_root_loss")

eval_event_contract(r) ==
    /\ Has(r, "contract", "premature", "not verified")
    /\ \A w \in {"wrong_epoch", "wrong_root"} :
         \E e \in {"suspected_root_loss", "observation_error", "observation_timeout"} :
            Has(r, "observer", w, e)
    /\ IF r = "normal"
       THEN /\ Has(r, "contract", "publication", "accepted")
            /\ Has(r, "contract", "duplicate", "already published")
       ELSE ~Has(r, "contract", "publication", "accepted")

eval_epoch_scope(r) == Has(r, "observer", "stale", "suspected_root_loss")

eval_connector_observation(r) ==
    \A w \in {"conn_a", "conn_b"} : Has(r, "observer", w, Expected(r))

eval_actor_observations(r) == r = "loss" => \A k \in Conns : Ok(r, k, "observed")

eval_no_post_event_dispatch(r) == Has(r, "run", "post_event_dispatch", FALSE)

eval_disposal(r) ==
    /\ Ok(r, "run", "actor_pids_gone")
    /\ IF r = "normal"
       THEN /\ \A k \in Conns : Ok(r, k, "stopped")
            /\ Has(r, "root", "final_membership", 1)
            /\ Has(r, "root", "exit_path", "finalized_clean")
       ELSE /\ Has(r, "root", "files_at_discard", {"ready"})
            /\ Ok(r, "root", "process_gone")

eval_ordering(r) == Ok(r, "run", "finalized")

\* Both arms ran; ports, directories, actors and pids are fresh by construction.
eval_arm_isolation ==
    /\ Ok("normal", "root", "ready") /\ Ok("loss", "root", "ready")
    /\ \E k \in Conns : Ok("normal", k, "identity")

eval_classifier_equivalence ==
    Event("normal", "explicit_completion") /\ Event("loss", "suspected_root_loss")

\* records_cover_island: every process of both arms was registered as owned.
records_cover_island ==
    \A r \in {"normal", "loss"} :
        Ok(r, "root", "ready") /\ \A k \in Conns : Ok(r, k, "identity")

\* evaluate_owned_processes: no registered process still runs.
eval_final == NobodyLeft /\ records_cover_island

eval_placement == place = "cross" => Ok("normal", "run", "attested") /\ Ok("loss", "run", "endpoints")

ArmGates(r) ==
    << <<"startup_failed", eval_startup(r)>>,
       <<"inprocess_proof_failed", eval_inprocess(r)>>,
       <<"work_failed", eval_work(r)>>,
       <<"result_verification_failed", eval_result_verification(r)>>,
       <<"root_injection_precondition_failed", eval_root_injection_preconditions("loss")>>,
       <<"classifier_blindness_violated", eval_blindness(r)>>,
       <<"root_event_misclassified", eval_root_event(r) /\ eval_monotonic_record(r)>>,
       <<"event_contract_violated", eval_event_contract(r)>>,
       <<"epoch_scope_violated", eval_epoch_scope(r)>>,
       <<"connector_observation_incomplete", eval_connector_observation(r)>>,
       <<"actor_observation_unbounded", eval_actor_observations(r)>>,
       <<"post_event_dispatch_detected", eval_no_post_event_dispatch("loss")>>,
       <<"disposal_failed", eval_disposal(r)>>,
       <<"invalid_ordering", eval_ordering(r)>> >>

Gates ==
    << <<"crossnode_placement_failed", eval_placement>> >>
    \o ArmGates("normal") \o ArmGates("loss")
    \o << <<"arm_isolation_violated", eval_arm_isolation>>,
          <<"root_event_misclassified", eval_classifier_equivalence>>,
          <<"cleanup_incomplete", eval_final>> >>

\* passed: no failed gate and no controller exception.
rollup ==
    LET c == FirstFailed(Gates)
        named == IF exc /\ c = "pass" THEN "invalid_instrumentation" ELSE c
    IN  [overall |-> IF c = "pass" /\ ~exc THEN "pass" ELSE "fail", class |-> named]
-----------------------------------------------------------------------------
(* The live driver.                                                        *)

Preflight == PreflightStep
ClusterHead == HeadStep
ClusterWorker == WorkerStep
LaunchRoot == LaunchStep
AwaitReady == ReadyStep
JoinActor == \E k \in Conns : Joining(k)

\* Both actors report the membership they see; the bring-up gates decide.
JoinHealth == JoinHealthStep

BringUpGates ==
    /\ At("gates")
    /\ IF eval_startup(arm) /\ eval_inprocess(arm)
       THEN advance("READY", "work") ELSE Raise /\ UNCHANGED sm
    /\ SameIsland /\ UNCHANGED <<faults, arm, rec, obs>> /\ SameRun

\* The workload is dispatched under the guard and verified; the premature
\* publication that follows must be refused.
RunWork ==
    /\ At("work")
    /\ dispatch_guard
    /\ \E ok \in BOOLEAN :
         /\ TopKCase(ok)
         /\ rec' = (<<arm, "run", "work">> :> ok)
                   @@ (<<arm, "contract", "premature">> :> try_publish_completion(FALSE)) @@ rec
         /\ log' = IF ok THEN log \cup {<<arm, "run", "worked">>} ELSE log
         /\ IF ok THEN advance("WORK_VERIFIED", "verify") ELSE Raise /\ UNCHANGED sm
    /\ UNCHANGED <<cluster, root, act, stale, files, finalMembers, arm, obs>> /\ SameRun

\* The result digest is recorded, and the control observation of a directory
\* that holds only a prior epoch's completion and a witness nobody refreshes.
VerifyResult ==
    /\ At("verify")
    /\ rec' = (<<arm, "run", "verified_in">> :> sm)
              @@ (<<arm, "observer", "stale">> :>
                    classify_root_event([read_error |-> FALSE, present |-> TRUE, match |-> FALSE,
                                         silence |-> 1, bound |-> 1, deadline |-> FALSE])) @@ rec
    /\ advance("RESULT_VERIFIED", IF arm = "normal" THEN "publish" ELSE "precond")
    /\ SameIsland /\ UNCHANGED <<faults, arm, obs>> /\ SameRun

PublishCompletion ==
    /\ At("publish")
    /\ LET answer == try_publish_completion(TRUE)
       IN  /\ Put("contract", "publication", answer)
           /\ files' = IF answer = "accepted" THEN files \cup {"completion"} ELSE files
           /\ OrRaise(answer = "accepted", "duplicate")
    /\ UNCHANGED <<cluster, root, act, stale, finalMembers, faults, log, arm, sm, obs>>
    /\ SameRun

PublishDuplicate ==
    /\ At("duplicate")
    /\ Put("contract", "duplicate", try_publish_completion(TRUE))
    /\ Goto("wrong_epoch")
    /\ SameIsland /\ UNCHANGED <<faults, arm, sm, exc, obs>> /\ SameRun

\* Every observation _run_arm starts, with the epoch, identity and bound it asks for.
StartObservation ==
    /\ \/ At("wrong_epoch") /\ Observe("wrong_epoch", FALSE, TRUE, ShortBound)
       \/ At("wrong_root") /\ Observe("wrong_root", TRUE, FALSE, ShortBound)
       \/ At("probe") /\ Observe("probe", TRUE, TRUE, ShortBound)
       \/ At("observe") /\ Observe("event", TRUE, TRUE, ObserveBound)
       \/ At("conn_a") /\ Observe("conn_a", TRUE, TRUE, ObserveBound)
       \/ At("conn_b") /\ Observe("conn_b", TRUE, TRUE, ObserveBound)
    /\ SameIsland /\ UNCHANGED <<faults, arm, sm, rec, exc>> /\ SameRun

\* The root to be killed is this arm's, alive, and nothing was published.  The
\* command line tells a live root from a zombie; ps itself may fail.
InjectionPreconditions ==
    /\ At("precond")
    /\ \E seen \in BOOLEAN :
         /\ Outcome(seen, TRUE)
         /\ LET ok == seen /\ RootAlive /\ Running = Conns /\ eval_work(arm)
                       /\ files \cap {"completion", "done"} = {}
            IN  Put("run", "preconditions", ok) /\ OrRaise(ok, "probe")
    /\ SameIsland /\ UNCHANGED <<arm, sm, obs>> /\ SameRun

\* SIGKILL, unless the probe already suspects a root that was never touched.
InjectRootLoss ==
    /\ At("inject")
    /\ IF Has(arm, "observer", "probe", "suspected_root_loss")
       THEN Raise /\ UNCHANGED root
       ELSE KilledRoot /\ Goto("observe") /\ UNCHANGED exc
    /\ UNCHANGED <<cluster, act, stale, files, finalMembers, faults, log, arm, sm, rec, obs>>
    /\ SameRun

RecordEvent ==
    /\ At("classified")
    /\ advance("ROOT_EVENT_CLASSIFIED", "conn_a")
    /\ SameIsland /\ UNCHANGED <<faults, arm, rec, obs>> /\ SameRun

RecordConnectors ==
    /\ At("observed")
    /\ advance("CONNECTORS_OBSERVED", IF arm = "normal" THEN "stop_a" ELSE "ask_actors")
    /\ SameIsland /\ UNCHANGED <<faults, arm, rec, obs>> /\ SameRun

\* Graceful disposal: stop both connectors, then root.done.
StopConnectors ==
    \/ At("stop_a") /\ StopStep("a", FALSE, "stop_b")
    \/ At("stop_b") /\ StopStep("b", TRUE, "await_final")

AwaitFinal == AwaitFinalStep("await_exit")
AwaitExit == AwaitExitStep("discard")

\* Poisoned island: bounded health calls whose outcome is only recorded, the
\* refused dispatch, then the root's process group is killed.
AskActors ==
    /\ At("ask_actors")
    /\ rec' = [x \in {<<arm, k, "observed">> : k \in Conns} |-> TRUE]
              @@ (<<arm, "run", "post_event_dispatch">> :> dispatch_guard)
              @@ (<<arm, "root", "files_at_discard">> :> files)
              @@ (<<arm, "root", "process_gone">> :> TRUE) @@ rec
    /\ KilledRoot
    /\ Goto("discard")
    /\ UNCHANGED <<cluster, act, stale, files, finalMembers, faults, log, arm, sm, exc, obs>>
    /\ SameRun

DiscardActors == DiscardStep("gone")

ConfirmGone ==
    /\ At("gone")
    /\ \E ok \in BOOLEAN : WaitPidGone(Conns, ok) /\ Put("run", "actor_pids_gone", ok)
    /\ advance("ISLAND_DISPOSED", "arm_done")
    /\ SameIsland /\ UNCHANGED <<arm, obs>> /\ SameRun

\* The arm ends; the second one starts, or the run is finalised.  Only then
\* are the cross-node endpoints recorded.
FinishArm ==
    /\ At("arm_done")
    /\ rec' = (<<arm, "run", "finalized">> :> (sm = "ISLAND_DISPOSED"))
              @@ (IF arm = "loss" THEN (<<arm, "run", "endpoints">> :> TRUE) ELSE rec) @@ rec
    /\ IF arm = "normal" THEN arm' = "loss" /\ sm' = "STARTING" /\ Goto("launch") /\ UNCHANGED exc
       ELSE advance("FINALIZED", "finalize") /\ UNCHANGED arm
    /\ SameIsland /\ UNCHANGED <<faults, obs>> /\ SameRun

\* _finalize_and_write: everything that was ever launched is killed, the owned
\* processes are looked for, and the verdict follows from the markers.
Finalize == FinalizeStep
Sweep == SweepStep(rollup)

_run_arm ==
    \/ LaunchRoot \/ AwaitReady \/ JoinActor \/ JoinHealth \/ BringUpGates \/ RunWork
    \/ VerifyResult \/ PublishCompletion \/ PublishDuplicate \/ StartObservation
    \/ observe_root_event \/ InjectionPreconditions \/ InjectRootLoss \/ RecordEvent
    \/ RecordConnectors \/ StopConnectors \/ AwaitFinal \/ AwaitExit \/ AskActors
    \/ DiscardActors \/ ConfirmGone \/ FinishArm

live_local_run == place = "local" /\ (Preflight \/ _run_arm \/ Finalize \/ Sweep)

crossnode_live_run ==
    /\ place = "cross"
    /\ Preflight \/ ClusterHead \/ ClusterWorker \/ _run_arm \/ Finalize \/ Sweep

Driver == live_local_run \/ crossnode_live_run

Init == IslandInit /\ SupervisorInit("slice4", "normal", "STARTING")
=============================================================================
