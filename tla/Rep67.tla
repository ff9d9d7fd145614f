------------------------------- MODULE Rep67 -------------------------------
(***************************************************************************)
(* Experiment 67: two Ray actors in one shared HPX island dispatch an HPX  *)
(* action at each other.                                                   *)
(***************************************************************************)
EXTENDS Rep

HpxActor(k, method, ok) == ActorMethod(k, method, ok)

\* The two dispatches: one is not ready, or is but came back from elsewhere,
\* or with a wrong value.
Dispatches == {"ok", "ab", "ba", "witness", "oracle"}

RootFinal == <<arm, "root", "final_membership">> \in DOMAIN rec
Worked(but) == <<arm, "run", "work">> \in DOMAIN rec /\ rec[<<arm, "run", "work">>] \notin but

eval_slice_a ==
    [evidence_complete |-> /\ \A k \in Conns : Ok(arm, k, "identity") /\ Ok(arm, k, "start")
                           /\ Ok(arm, "root", "ready") /\ RootFinal /\ Worked({}),
     started |-> [k \in Conns |-> Ok(arm, k, "start")],
     no_hpx_child |-> \A k \in Conns : Ok(arm, k, "child"),
     shared_island_membership |-> \E k \in Conns : Has(arm, k, "members", 3),
     distinct |-> \A k \in Conns : Ok(arm, k, "identity")]

eval_slice_b ==
    [ab_ready |-> Worked({"ab"}), ba_ready |-> Worked({"ba"}),
     witness |-> Worked({"ab", "ba", "witness"}),
     oracle |-> Worked({"ab", "ba", "oracle"})]

eval_slice_c == Worked({"ab", "ba", "witness", "oracle"})

eval_slice_d ==
    [graceful_leave |-> \A k \in Conns : Ok(arm, k, "stopped"),
     root_finalized_clean |-> /\ Has(arm, "root", "exit_path", "finalized_clean")
                              /\ Has(arm, "root", "final_membership", 1),
     recreation |-> \A k \in Conns : Ok(arm, k, "recreate"),
     no_orphans |-> Ok(arm, "run", "no_orphans")]

\* A stall is never blamed on the GIL before the thread budget is ruled out.
TightBudget == TRUE     \* default: ray_cpus <= hpx_threads
classify_saturation(overlap, progressed) ==
    CASE ~overlap -> "invalid_diagnostic"
      [] overlap /\ progressed -> "progressed_under_dest_saturation"
      [] overlap /\ ~progressed /\ TightBudget -> "ray_hpx_thread_budget_conflict_suspected"
      [] OTHER -> "gil_monopolization_suspected"

failure_class ==
    LET ga == eval_slice_a gb == eval_slice_b gd == eval_slice_d
    IN  FirstFailed(<< <<"invalid_instrumentation", ga.evidence_complete>>,
                       <<"actor_a_hpx_start_failed", ga.started["a"]>>,
                       <<"actor_b_hpx_start_failed", ga.started["b"]>>,
                       <<"hpx_child_process_detected", ga.no_hpx_child>>,
                       <<"shared_island_join_failed", ga.shared_island_membership>>,
                       <<"locality_identity_invalid", ga.distinct>>,
                       <<"actor_to_actor_dispatch_failed", gb.ab_ready /\ gb.ba_ready>>,
                       <<"destination_witness_failed", gb.witness>>,
                       <<"oracle_failed", gb.oracle>>,
                       <<"idle_progress_failed", eval_slice_c>>,
                       <<"graceful_leave_failed", gd.graceful_leave>>,
                       <<"root_finalize_failed", gd.root_finalized_clean>>,
                       <<"actor_recreation_failed", gd.recreation>>,
                       <<"orphan_detected", gd.no_orphans>> >>)

run_rep ==
    /\ place = "local"
    /\ \/ RepLaunch \/ ReadyStep \/ RepJoin(HpxActor) \/ RepWork(Dispatches)
       \/ RepHealths(HpxActor) \/ RepSaturate(Started, classify_saturation)
       \/ RepStops(HpxActor) \/ DiscardStep("destroyed") \/ RepDestroyed(TRUE)
       \/ RepRecreate \/ AwaitFinalStep("await_exit") \/ AwaitExitStep("retire")
       \/ RepRetire(TRUE) \/ RepFinally \/ RepVerdict(failure_class)

run_local_phase == place = "local" /\ (PreflightStep \/ LocalEnd)

-----------------------------------------------------------------------------
(* Across three nodes.                                                     *)

\* The local gates without the common hostname, with the hard placement of
\* both actors and the sweep of every node.
eval_crossnode_slice_a ==
    [local |-> eval_slice_a,
     placed |-> [k \in Conns |-> Ok(arm, k, "identity")],
     remote_orphan_check_ran |-> Ok(arm, "run", "swept")]

\* The hosts the actions ran on are the peers' nodes.
eval_crossnode_slice_b == eval_slice_b

\* The re-created actors are on the nodes of the first ones.
eval_crossnode_slice_d == eval_slice_d

failure_class_crossnode ==
    LET gx == eval_crossnode_slice_a ga == gx.local
        gb == eval_crossnode_slice_b gd == eval_crossnode_slice_d
    IN  FirstFailed(<< <<"invalid_instrumentation", ga.evidence_complete>>,
                       <<"actor_a_placement_invalid", gx.placed["a"]>>,
                       <<"actor_b_placement_invalid", gx.placed["b"]>>,
                       <<"actor_a_hpx_start_failed", ga.started["a"]>>,
                       <<"actor_b_hpx_start_failed", ga.started["b"]>>,
                       <<"hpx_child_process_detected", ga.no_hpx_child>>,
                       <<"shared_island_join_failed", ga.shared_island_membership>>,
                       <<"a_to_b_dispatch_failed", gb.ab_ready>>,
                       <<"b_to_a_dispatch_failed", gb.ba_ready>>,
                       <<"destination_witness_failed", gb.witness>>,
                       <<"oracle_failed", gb.oracle>>,
                       <<"idle_progress_failed", eval_slice_c>>,
                       <<"graceful_leave_failed", gd.graceful_leave>>,
                       <<"root_finalize_failed", gd.root_finalized_clean>>,
                       <<"actor_recreation_failed", gd.recreation>>,
                       <<"orphan_detected", gd.no_orphans>>,
                       <<"invalid_instrumentation", gx.remote_orphan_check_ran>> >>)

run_crossnode_rep_work ==
    /\ place = "cross"
    /\ \/ RepLaunch \/ ReadyStep \/ RepJoin(HpxActor) \/ RepWork(Dispatches)
       \/ RepHealths(HpxActor) \/ RepSaturate(Started, classify_saturation)

run_crossnode_rep_end ==
    /\ place = "cross"
    /\ \/ RepStops(HpxActor) \/ DiscardStep("destroyed") \/ RepDestroyed(FALSE)
       \/ RepRecreate \/ AwaitFinalStep("await_exit") \/ AwaitExitStep("retire")
       \/ RepRetire(FALSE) \/ RepFinally \/ RepVerdict(failure_class_crossnode)

crossnode_cluster == place = "cross" /\ (PreflightStep \/ HeadStep \/ WorkerStep)
crossnode_end == CrossEnd

Driver ==
    \/ run_rep \/ run_local_phase
    \/ run_crossnode_rep_work \/ run_crossnode_rep_end \/ crossnode_cluster \/ crossnode_end

Init == RepInit("exp67")
=============================================================================
