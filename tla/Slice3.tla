------------------------------- MODULE Slice3 -------------------------------
(***************************************************************************)
(* Experiment 70, slice 3: a connector that leaves against a connector     *)
(* that is lost.  In the "graceful" arm connector b stops its HPX runtime  *)
(* and its host lives on; in the "loss" arm b's host is killed.  One       *)
(* classifier, blind to the injection, labels the departure, and a         *)
(* contract publishes one terminal event that the survivor a observes.     *)
(***************************************************************************)
EXTENDS Supervisor

STATES == <<"STARTING", "READY", "WORK_VERIFIED", "DEPARTED", "EVIDENCE_COLLECTED",
            "EVENT_PUBLISHED", "EVENT_OBSERVED", "TORN_DOWN", "FINALIZED">>

DEPARTING == "b"
SURVIVOR == "a"

advance(to, l) == Advance(STATES, to, l)
dispatch_guard == sm = "READY"

-----------------------------------------------------------------------------
(* Classifier, event document and publication contract.                    *)

\* Faulty variant: a call that raised is enough for a loss.
LostWhenRaised(ev) == IF ev.raised THEN "unexpected_loss"
                      ELSE IF ev.clean THEN "graceful_departure" ELSE "indeterminate"

classify_departure(ev) ==
    LET graceful == ev.clean /\ ~ev.raised
        lost == ev.pid_gone /\ ~ev.clean /\ ev.raised
    IN  IF graceful /\ ~lost THEN "graceful_departure"
        ELSE IF lost /\ ~graceful THEN "unexpected_loss"
        ELSE "indeterminate"

\* The evidence names nothing but observations of the departed connector.
collect_departure_evidence ==
    [pid_gone |-> Ok(arm, DEPARTING, "pid_gone"),
     clean |-> arm = "graceful" /\ Ok(arm, DEPARTING, "stopped"),
     raised |-> Ok(arm, DEPARTING, "raised")]

Events(r) == IF <<r, "run", "events">> \in DOMAIN rec THEN rec[<<r, "run", "events">>] ELSE <<>>

\* publish_event: read, append, replace.
publish_event(epoch, connector, kind, label) ==
    Append(Events(arm), [epoch |-> epoch, connector |-> connector, kind |-> kind, label |-> label])

\* observe_events: where the events of the kind that carry this epoch are.
observe_events(events, epoch, kind) ==
    {i \in DOMAIN events : events[i].kind = kind /\ events[i].epoch = epoch}

Terminals(r) == observe_events(Events(r), r, "DEPARTED")

\* try_publish_terminal: the contract's answer.
try_publish_terminal(connector) ==
    IF sm # "EVIDENCE_COLLECTED" THEN "wrong state"
    ELSE IF connector # DEPARTING THEN "not departed"
    ELSE IF Terminals(arm) # {} THEN "already published"
    ELSE "accepted"

-----------------------------------------------------------------------------
(* Gate evaluators, over the markers of arm r.                             *)

Expected(r) == IF r = "graceful" THEN "graceful_departure" ELSE "unexpected_loss"
Label(r, l) == Has(r, "run", "classification", l)

eval_startup(r) ==
    /\ Ok(r, "root", "ready")
    /\ \A k \in Conns : Ok(r, k, "identity") /\ Ok(r, k, "start") /\ Has(r, k, "join", 3)

eval_inprocess(r) == \A k \in Conns : Ok(r, k, "identity") /\ Ok(r, k, "start")

eval_work(r) == Ok(r, "run", "work")

\* Faulty variant: a departure is judged by its process in both arms.
DepartedByPid(r) == Has(r, "run", "departed_in", "WORK_VERIFIED") /\ Ok(r, DEPARTING, "pid_gone")

eval_departure(r) ==
    /\ Has(r, "run", "departed_in", "WORK_VERIFIED")
    /\ IF r = "graceful"
       THEN Ok(r, DEPARTING, "stopped") /\ Has(r, DEPARTING, "pid_gone", FALSE)
       ELSE Ok(r, DEPARTING, "signalled") /\ Ok(r, DEPARTING, "pid_gone")

eval_evidence_blindness(r) == <<r, DEPARTING, "raised">> \in DOMAIN rec

eval_classification(r) == Label(r, Expected(r))

eval_event_contract(r) ==
    /\ Has(r, "contract", "premature", "wrong state")
    /\ Has(r, "contract", "publication", "accepted")
    /\ Has(r, "contract", "duplicate", "already published")
    /\ Has(r, "contract", "non_departed", "not departed")

\* The terminal event came within the bound after the departure (15 s).
eval_publication_bound(r) == Ok(r, "run", "prompt")

eval_observation(r) == Has(r, SURVIVOR, "observed", Expected(r))

eval_epoch_scope(r) == Has(r, "run", "stale_observed", FALSE)

\* Faulty variant: how the root ended is not asked for.
TeardownByPids(r) == Ok(r, "run", "actor_pids_gone")

eval_teardown(r) ==
    /\ Ok(r, "run", "actor_pids_gone")
    /\ r = "graceful" => /\ Has(r, "root", "exit_path", "finalized_clean")
                         /\ Has(r, "root", "final_membership", 1)
    /\ r = "loss" => Ok(r, "root", "process_gone")

eval_ordering(r) == Ok(r, "run", "finalized")

eval_arm_isolation ==
    /\ Ok("graceful", "root", "ready") /\ Ok("loss", "root", "ready")
    /\ \E k \in Conns : Ok("graceful", k, "identity")

eval_classifier_discriminates == \A r \in {"graceful", "loss"} : Label(r, Expected(r))

records_cover_island ==
    \A r \in {"graceful", "loss"} :
        Ok(r, "root", "ready") /\ \A k \in Conns : Ok(r, k, "identity")

eval_final == NobodyLeft /\ records_cover_island

eval_placement ==
    place = "cross" => Ok("graceful", "run", "attested") /\ Ok("loss", "run", "endpoints")

ArmGates(r) ==
    << <<"startup_failed", eval_startup(r)>>,
       <<"inprocess_proof_failed", eval_inprocess(r)>>,
       <<"work_failed", eval_work(r)>>,
       <<"departure_failed", eval_departure(r)>>,
       <<"classifier_blindness_violated", eval_evidence_blindness(r)>>,
       <<"misclassified", eval_classification(r)>>,
       <<"event_contract_violated", eval_event_contract(r)>>,
       <<"publication_unbounded", eval_publication_bound(r)>>,
       <<"event_observation_incomplete", eval_observation(r)>>,
       <<"epoch_scope_violated", eval_epoch_scope(r)>>,
       <<"teardown_failed", eval_teardown(r)>>,
       <<"invalid_ordering", eval_ordering(r)>> >>

Gates ==
    << <<"crossnode_placement_failed", eval_placement>> >>
    \o ArmGates("graceful") \o ArmGates("loss")
    \o << <<"arm_isolation_violated", eval_arm_isolation>>,
          <<"misclassified", eval_classifier_discriminates>>,
          <<"cleanup_incomplete", eval_final>> >>

rollup ==
    LET c == FirstFailed(Gates)
    IN  [overall |-> IF c = "pass" /\ ~exc THEN "pass" ELSE "fail",
         class |-> IF exc /\ c = "pass" THEN "invalid_instrumentation" ELSE c]

-----------------------------------------------------------------------------
(* The live driver.                                                        *)

Preflight == PreflightStep
ClusterHead == HeadStep
ClusterWorker == WorkerStep
LaunchRoot == LaunchStep
AwaitReady == ReadyStep
JoinActor == \E k \in Conns : Joining(k)
JoinHealth == JoinHealthStep

\* A JOINED event was published for each connector, whether it joined or not.
BringUpGates ==
    /\ At("gates")
    /\ rec' = (<<arm, "run", "events">> :>
                 << [epoch |-> arm, connector |-> "a", kind |-> "JOINED", label |-> "none"],
                    [epoch |-> arm, connector |-> "b", kind |-> "JOINED", label |-> "none"] >>) @@ rec
    /\ IF eval_startup(arm) /\ eval_inprocess(arm)
       THEN advance("READY", "work") ELSE Raise /\ UNCHANGED sm
    /\ SameIsland /\ UNCHANGED <<faults, arm, obs>> /\ SameRun

RunWork ==
    /\ At("work")
    /\ dispatch_guard
    /\ \E ok \in BOOLEAN :
         /\ TopKCase(ok)
         /\ Put("run", "work", ok)
         /\ log' = IF ok THEN log \cup {<<arm, "run", "worked">>} ELSE log
         /\ IF ok THEN advance("WORK_VERIFIED", "depart") ELSE Raise /\ UNCHANGED sm
    /\ UNCHANGED <<cluster, root, act, stale, files, finalMembers, arm, obs>> /\ SameRun

\* The premature publication is refused; then b leaves, or its host is killed.
\* Killing a host that is already gone raises.
Depart ==
    /\ At("depart")
    /\ \/ /\ arm = "graceful"
          /\ \E ok \in BOOLEAN :
               /\ StopHpx(DEPARTING, ok, arm)
               /\ rec' = (<<arm, "contract", "premature">> :> try_publish_terminal(DEPARTING))
                         @@ (<<arm, "run", "departed_in">> :> sm)
                         @@ (<<arm, DEPARTING, "stopped">> :> ok) @@ rec
          /\ Goto("departed")
          /\ UNCHANGED <<stale, exc>>
       \/ /\ arm = "loss"
          /\ Killed({DEPARTING})
          /\ rec' = (<<arm, "contract", "premature">> :> try_publish_terminal(DEPARTING))
                    @@ (<<arm, "run", "departed_in">> :> sm)
                    @@ (<<arm, DEPARTING, "signalled">> :> (DEPARTING \in Running)) @@ rec
          /\ OrRaise(DEPARTING \in Running, "departed")
          /\ UNCHANGED <<faults, log>>
    /\ UNCHANGED <<cluster, root, files, finalMembers, arm, sm, obs>> /\ SameRun

\* After a graceful stop the host is expected to live: a short look is enough.
ConfirmDeparted ==
    /\ At("departed")
    /\ \E gone \in BOOLEAN :
         /\ IF arm = "loss" THEN WaitPidGone({DEPARTING}, gone)
            ELSE gone = (act[DEPARTING] \in {"none", "dead"}) /\ UNCHANGED faults
         /\ Put(DEPARTING, "pid_gone", gone)
    /\ advance("DEPARTED", "evidence")
    /\ SameIsland /\ UNCHANGED <<arm, obs>> /\ SameRun

\* A call the host answers, whatever it answers, did not raise.
CollectEvidence ==
    /\ At("evidence")
    /\ \E answered \in BOOLEAN : RayGet(DEPARTING, answered) /\ Put(DEPARTING, "raised", ~answered)
    /\ advance("EVIDENCE_COLLECTED", "publish")
    /\ SameIsland /\ UNCHANGED <<arm, obs>> /\ SameRun

PublishTerminal ==
    /\ At("publish")
    /\ LET label == classify_departure(collect_departure_evidence)
           answer == try_publish_terminal(DEPARTING)
       IN  /\ rec' = (<<arm, "run", "classification">> :> label)
                     @@ (<<arm, "contract", "publication">> :> answer)
                     @@ (IF answer = "accepted"
                         THEN (<<arm, "run", "events">> :> publish_event(arm, DEPARTING, "DEPARTED", label))
                         ELSE rec) @@ rec
           /\ OrRaise(answer = "accepted", "duplicate")
    /\ SameIsland /\ UNCHANGED <<faults, arm, sm, obs>> /\ SameRun

\* A second terminal event, and one for the survivor, are attempted while the
\* state still allows publication.  Then the delay from the departure to the
\* event is recorded: the looks at the departed process (30 or 3 s), at its
\* host (20 s) and at the survivor (20 s) may each succeed within their own
\* deadline and together take longer than the 15 s allowed.
PublishRefused ==
    /\ At("duplicate")
    /\ \E prompt \in BOOLEAN :
         rec' = (<<arm, "contract", "duplicate">> :> try_publish_terminal(DEPARTING))
                @@ (<<arm, "contract", "non_departed">> :> try_publish_terminal(SURVIVOR))
                @@ (<<arm, "run", "prompt">> :> prompt) @@ rec
    /\ advance("EVENT_PUBLISHED", "observe")
    /\ SameIsland /\ UNCHANGED <<faults, arm, obs>> /\ SameRun

\* The survivor reads the event document; a directory holding a prior epoch's
\* terminal event must satisfy nobody.
ObserveTerminal ==
    /\ At("observe")
    /\ LET seen == Terminals(arm)
           old == observe_events(<<[epoch |-> "prior", connector |-> DEPARTING, kind |-> "DEPARTED",
                                    label |-> "unexpected_loss"]>>, arm, "DEPARTED")
       IN  IF seen # {}
           THEN /\ rec' = (<<arm, SURVIVOR, "observed">> :> Events(arm)[First(seen)].label)
                          @@ (<<arm, "run", "stale_observed">> :> (old # {})) @@ rec
                /\ advance("EVENT_OBSERVED", IF arm = "graceful" THEN "stop_a" ELSE "poisoned")
           ELSE Raise /\ UNCHANGED <<rec, sm>>
    /\ SameIsland /\ UNCHANGED <<faults, arm, obs>> /\ SameRun

StopSurvivor == At("stop_a") /\ StopStep(SURVIVOR, TRUE, "await_final")
AwaitFinal == AwaitFinalStep("await_exit")
AwaitExit == AwaitExitStep("discard")

\* No graceful shutdown of a poisoned island: its root is killed.
KillPoisonedRoot ==
    /\ At("poisoned")
    /\ KilledRoot
    /\ Put("root", "process_gone", TRUE)
    /\ Goto("discard")
    /\ UNCHANGED <<cluster, act, stale, files, finalMembers, faults, log, arm, sm, exc, obs>> /\ SameRun

DiscardActors == DiscardStep("gone")

ConfirmGone ==
    /\ At("gone")
    /\ \E ok \in BOOLEAN : WaitPidGone(Conns, ok) /\ Put("run", "actor_pids_gone", ok)
    /\ advance("TORN_DOWN", "arm_done")
    /\ SameIsland /\ UNCHANGED <<arm, obs>> /\ SameRun

FinishArm ==
    /\ At("arm_done")
    /\ rec' = (<<arm, "run", "finalized">> :> (sm = "TORN_DOWN"))
              @@ (IF arm = "loss" THEN (<<arm, "run", "endpoints">> :> TRUE) ELSE rec) @@ rec
    /\ IF arm = "graceful" THEN arm' = "loss" /\ sm' = "STARTING" /\ Goto("launch") /\ UNCHANGED exc
       ELSE advance("FINALIZED", "finalize") /\ UNCHANGED arm
    /\ SameIsland /\ UNCHANGED <<faults, obs>> /\ SameRun

Finalize == FinalizeStep
Sweep == SweepStep(rollup)

_run_arm ==
    \/ LaunchRoot \/ AwaitReady \/ JoinActor \/ JoinHealth \/ BringUpGates \/ RunWork \/ Depart
    \/ ConfirmDeparted \/ CollectEvidence \/ PublishTerminal \/ PublishRefused
    \/ ObserveTerminal \/ StopSurvivor \/ AwaitFinal \/ AwaitExit \/ KillPoisonedRoot
    \/ DiscardActors \/ ConfirmGone \/ FinishArm

live_local_run == place = "local" /\ (Preflight \/ _run_arm \/ Finalize \/ Sweep)

crossnode_live_run ==
    /\ place = "cross"
    /\ Preflight \/ ClusterHead \/ ClusterWorker \/ _run_arm \/ Finalize \/ Sweep

-----------------------------------------------------------------------------
(* Slice 3b: the lost connector is classified and fenced by the runtime's  *)
(* own supervision, disconnected by force, and replaced.  The replacement  *)
(* c takes the place of b.                                                 *)

\* What root_supervised.cpp writes after root.started, in its order, and the
\* form a file has when what it reports went wrong.
RootMarkers == <<"root_joined", "verified", "fencing", "force", "effect", "replace", "result">>
Bad == [verified |-> "verified_bad", fencing |-> "unfenced", force |-> "force_bad", result |-> "result_bad"]

Joined3b == \A k \in Conns : act[k] = "joined"

NextMarker(m) ==
    \E i \in DOMAIN RootMarkers :
        /\ m = RootMarkers[i] /\ m \notin files
        /\ i > 1 => RootMarkers[i - 1] \in files

\* What the root waits for before it writes m.
Awaited(m) ==
    /\ m = "root_joined" => "roles" \in files /\ Joined3b
    /\ m = "fencing" => "b" \in stale
    /\ m = "result" => "roles_c" \in files /\ act["b"] = "joined"

\* Work needs both connectors; without it, or without a fence, the root ends.
RootSupervised ==
    /\ root = "serving"
    /\ \E m \in DOMAIN Bad \cup {"root_joined", "effect", "replace"}, ok \in BOOLEAN :
         /\ NextMarker(m) /\ Awaited(m)
         /\ Outcome(ok, m = "verified" => Joined3b)
         /\ ~ok => m \in DOMAIN Bad
         /\ files' = files \cup {m} \cup (IF ok THEN {} ELSE {Bad[m]})
         /\ root' = IF ~ok /\ m \in {"verified", "fencing"} THEN "dead"
                    ELSE IF m = "result" THEN "leaving" ELSE root
         /\ stale' = IF ok /\ m = "force" THEN stale \ {"b"} ELSE stale
         /\ log' = IF ok THEN log \cup {<<arm, "root", m>>} ELSE log
    /\ UNCHANGED <<place, cluster, act, finalMembers>>

\* The connectors, or the replacement, never appear: the root finishes with an
\* error; while they still may, only by a fault.
RootFinishes ==
    /\ root = "serving"
    /\ \/ NextMarker("root_joined") /\ Outcome(FALSE, "roles" \notin files \/ Joined3b)
       \/ NextMarker("result") /\ Outcome(FALSE, "roles_c" \notin files \/ act["b"] = "joined")
    /\ root' = "dead"
    /\ UNCHANGED <<place, cluster, act, stale, files, finalMembers, log>>

RootNative == RootSupervised \/ RootFinishes

eval_gates ==
    << <<"eligibility_not_proven", Ok(arm, "root", "root_joined")>>,
       <<"work_failed", Ok(arm, "root", "verified")>>,
       <<"crash_injection_invalid", <<arm, "b", "killed">> \in DOMAIN rec>>,
       <<"classification_not_observed", Ok(arm, "root", "fencing") /\ <<arm, "root", "result">> \in DOMAIN rec>>,
       <<"force_disconnect_not_invoked", Ok(arm, "root", "force")>>,
       <<"force_disconnect_effect_not_observed", Ok(arm, "root", "effect")>>,
       <<"replacement_failed", Ok(arm, "root", "result")>> >>

failure_class_for == FirstFailed(eval_gates)

rollup3b ==
    [overall |-> IF failure_class_for = "pass" /\ ~exc THEN "pass" ELSE "fail",
     class |-> IF exc /\ failure_class_for = "pass" THEN "invalid_instrumentation" ELSE failure_class_for]

preflight ==
    /\ At("preflight")
    /\ (Goto("launch") /\ SameRun) \/ Finish("fail_preflight", "none")
    /\ SameIsland /\ UNCHANGED <<faults, arm, sm, rec, exc, obs>>

\* A marker that does not come, or comes too late, ends the run; one that
\* reports trouble does not.
_require_marker(m, next) ==
    /\ At(m)
    /\ \E ok \in BOOLEAN :
         /\ WaitForFile(m, ok)
         /\ IF ok THEN Put("root", m, m \in DOMAIN Bad => Bad[m] \notin files) ELSE UNCHANGED rec
         /\ OrRaise(ok, next)
    /\ SameIsland /\ UNCHANGED <<arm, sm, obs>> /\ SameRun

\* start_hpx and supervision_init of a connector; a failure raises.
start_hpx(k, l, next) ==
    /\ At(l)
    /\ \E ok \in BOOLEAN : StartHpx(k, ok) /\ OrRaise(ok, next)
    /\ UNCHANGED <<cluster, root, stale, files, finalMembers, log, arm, sm, rec, obs>> /\ SameRun

supervision_init(k, l, roles, next) ==
    /\ At(l)
    /\ \E ok \in BOOLEAN :
         /\ Health(k, ok)
         /\ files' = IF ok THEN files \cup roles ELSE files
         /\ OrRaise(ok, next)
    /\ UNCHANGED <<cluster, root, act, stale, finalMembers, log, arm, sm, rec, obs>> /\ SameRun

\* The pid the extension reports is cross-checked, then b's host is killed.
KillB ==
    \/ /\ At("kill")
       /\ IF Ok(arm, "b", "identity") THEN Killed({"b"}) ELSE UNCHANGED <<act, stale>>
       /\ OrRaise(Ok(arm, "b", "identity") /\ "b" \in Running, "killed")
       /\ UNCHANGED <<cluster, root, files, finalMembers, faults, log, arm, sm, rec, obs>> /\ SameRun
    \/ /\ At("killed")
       /\ \E ok \in BOOLEAN : WaitPidGone({"b"}, ok) /\ Put("b", "killed", TRUE) /\ OrRaise(ok, "fencing")
       /\ SameIsland /\ UNCHANGED <<arm, sm, obs>> /\ SameRun

\* root.started; later, a asked for what it still sees: neither is gated.
Ungated ==
    \/ /\ At("ready")
       /\ \E ok \in BOOLEAN : WaitForFile("ready", ok) /\ OrRaise(ok, "actor_a")
       /\ SameIsland /\ UNCHANGED <<arm, sm, rec, obs>> /\ SameRun
    \/ /\ At("discover") \/ At("probe")
       /\ \E ok \in BOOLEAN : Health("a", ok)
       /\ Goto(IF pc = "discover" THEN "root_joined" ELSE "replace")
       /\ SameIsland /\ UNCHANGED <<arm, sm, rec, exc, obs>> /\ SameRun

run_slice3b ==
    \/ preflight \/ LaunchStep \/ Ungated \/ KillB
    \/ At("actor_a") /\ ActorStep("a", "start_a")
    \/ start_hpx("a", "start_a", "init_a")
    \/ supervision_init("a", "init_a", {}, "actor_b")
    \/ At("actor_b") /\ ActorStep("b", "start_b")
    \/ start_hpx("b", "start_b", "init_b")
    \/ supervision_init("b", "init_b", {"roles"}, "discover")
    \/ _require_marker("root_joined", "verified")
    \/ _require_marker("verified", "kill")
    \/ _require_marker("fencing", "force")
    \/ _require_marker("force", "effect")
    \/ _require_marker("effect", "probe")
    \/ _require_marker("replace", "actor_c")
    \/ At("actor_c") /\ ActorStep("b", "start_c")
    \/ start_hpx("b", "start_c", "init_c")
    \/ supervision_init("b", "init_c", {"roles_c"}, "result")
    \/ _require_marker("result", "await_exit")
    \/ AwaitExitStep("finalize")
    \/ FinalizeStep \/ SweepStep(rollup3b)

Driver ==
    \/ program = "slice3" /\ (live_local_run \/ crossnode_live_run)
    \/ program = "slice3b" /\ run_slice3b

Init ==
    /\ IslandInit
    /\ \/ SupervisorInit("slice3", "graceful", "STARTING")
       \/ SupervisorInit("slice3b", "native", "STARTING") /\ place = "local"
=============================================================================
