------------------------------- MODULE Rep68 -------------------------------
(***************************************************************************)
(* Experiment 68: a vocabulary-sharded top-k between two actor-hosted      *)
(* localities, coordinated by each of them in turn.                        *)
(***************************************************************************)
EXTENDS Rep

HpxActor(k, method, ok) == ActorMethod(k, method, ok)

\* Every case makes all four calls; a result is kept as the first wrong one.
CaseResults == {"ok", "a_local", "b_local", "a_coord", "b_coord", "bits"}

RootFinal == <<arm, "root", "final_membership">> \in DOMAIN rec
Case(but) == <<arm, "run", "work">> \in DOMAIN rec => rec[<<arm, "run", "work">>] \notin but

\* The gates of a case; no case at all leaves nothing to fail here.
eval_case ==
    [local_topk |-> [k \in Conns |-> Case({IF k = "a" THEN "a_local" ELSE "b_local"})],
     fetch |-> [k \in Conns |-> Case({IF k = "a" THEN "a_coord" ELSE "b_coord"})],
     float32_bits_exact |-> Case({"bits"})]

eval_slice_a ==
    [evidence_complete |-> /\ \A k \in Conns : Ok(arm, k, "identity") /\ Ok(arm, k, "start")
                           /\ Ok(arm, "root", "ready") /\ RootFinal
                           /\ <<arm, "run", "work">> \in DOMAIN rec,
     started |-> Started,
     no_hpx_child |-> \A k \in Conns : Ok(arm, k, "child"),
     identity |-> \A k \in Conns : Ok(arm, k, "identity"),
     shared_island_membership |-> \E k \in Conns : Has(arm, k, "members", 3)]

eval_slice_f ==
    [graceful_leave |-> \A k \in Conns : Ok(arm, k, "stopped"),
     root_finalized_clean |-> /\ Has(arm, "root", "exit_path", "finalized_clean")
                              /\ Has(arm, "root", "final_membership", 1),
     recreation |-> \A k \in Conns : Ok(arm, k, "recreate"),
     no_orphans |-> Ok(arm, "run", "no_orphans")]

CaseGates(c, bits) ==
    << <<"local_topk_a_failed", c.local_topk["a"]>>, <<"local_topk_b_failed", c.local_topk["b"]>>,
       <<"a_fetch_b_failed", c.fetch["a"]>>, <<"b_fetch_a_failed", c.fetch["b"]>>,
       <<bits, c.float32_bits_exact>> >>

LifecycleGates(gf) ==
    << <<"actor_recreation_failed", gf.recreation>>, <<"orphan_detected", gf.no_orphans>>,
       <<"lifecycle_failed", gf.graceful_leave /\ gf.root_finalized_clean>> >>

failure_class ==
    LET ga == eval_slice_a
    IN  FirstFailed(<< <<"invalid_instrumentation", ga.evidence_complete>>,
                       <<"lifecycle_failed", ga.started /\ ga.no_hpx_child>>,
                       <<"invalid_instrumentation", ga.identity /\ ga.shared_island_membership>> >>
                    \o CaseGates(eval_case, "float32_bit_mismatch") \o LifecycleGates(eval_slice_f))

\* busy_spin of one side while the other coordinates: reported, not classified.
saturation(overlap, progressed) == IF overlap /\ progressed THEN "progressed" ELSE "not_observed"

run_rep ==
    /\ place = "local"
    /\ \/ RepLaunch \/ ReadyStep \/ RepJoin(HpxActor) \/ RepWork(CaseResults)
       \/ RepHealths(HpxActor) \/ RepSaturate(Started, saturation)
       \/ RepStops(HpxActor) \/ DiscardStep("destroyed") \/ RepDestroyed(TRUE)
       \/ RepRecreate \/ AwaitFinalStep("await_exit") \/ AwaitExitStep("retire")
       \/ RepRetire(TRUE) \/ RepFinally \/ RepVerdict(failure_class)

run_local_phase == place = "local" /\ (PreflightStep \/ LocalEnd)

-----------------------------------------------------------------------------
(* Across three nodes.                                                     *)

eval_crossnode_slice_a ==
    [local |-> eval_slice_a,
     placed |-> \A k \in Conns : Ok(arm, k, "identity"),
     remote_orphan_check_ran |-> Ok(arm, "run", "swept")]

\* Also: the candidates each side received are bit for bit its peer's.
eval_case_crossnode == eval_case
eval_crossnode_slice_f == eval_slice_f

failure_class_crossnode ==
    LET gx == eval_crossnode_slice_a ga == gx.local
    IN  FirstFailed(<< <<"invalid_instrumentation", ga.evidence_complete>>,
                       <<"actor_placement_invalid", gx.placed>>,
                       <<"lifecycle_failed", ga.started /\ ga.no_hpx_child>>,
                       <<"shared_island_join_failed", ga.shared_island_membership>>,
                       <<"invalid_instrumentation", ga.identity>> >>
                    \o CaseGates(eval_case_crossnode, "cross_node_float32_bit_mismatch")
                    \o LifecycleGates(eval_crossnode_slice_f)
                    \o << <<"invalid_instrumentation", gx.remote_orphan_check_ran>> >>)

run_crossnode_rep_work ==
    /\ place = "cross"
    /\ \/ RepLaunch \/ ReadyStep \/ RepJoin(HpxActor) \/ RepWork(CaseResults)
       \/ RepHealths(HpxActor) \/ RepSaturate(Started, saturation)

run_crossnode_rep_end ==
    /\ place = "cross"
    /\ \/ RepStops(HpxActor) \/ DiscardStep("destroyed") \/ RepDestroyed(FALSE)
       \/ RepRecreate \/ AwaitFinalStep("await_exit") \/ AwaitExitStep("retire")
       \/ RepRetire(FALSE) \/ RepFinally \/ RepVerdict(failure_class_crossnode)

crossnode_cluster == place = "cross" /\ (PreflightStep \/ HeadStep \/ WorkerStep)
crossnode_end == CrossEnd

Driver ==
    \/ run_rep \/ run_local_phase
    \/ run_crossnode_rep_work \/ run_crossnode_rep_end \/ crossnode_cluster \/ crossnode_end

Init == RepInit("exp68")
=============================================================================
