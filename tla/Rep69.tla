------------------------------- MODULE Rep69 -------------------------------
(***************************************************************************)
(* Experiment 69: the same top-k request through a Ray-mediated and an     *)
(* HPX-mediated path.  Three programs share the repetition: "exp69" times  *)
(* pairs of requests one at a time, "exp69_tput" drives closed-loop        *)
(* batches across three nodes and "exp69_s3" batches per resource band.    *)
(* What happens inside a batch is module Throughput; here a batch has one  *)
(* of its results.                                                         *)
(***************************************************************************)
EXTENDS Rep

HpxActor(k, method, ok) == ActorMethod(k, method, ok)

RootFinal == <<arm, "root", "final_membership">> \in DOMAIN rec
Known == Started /\ \A k \in Conns : Ok(arm, k, "identity")

\* One more piece of the gating work.  Its calls either return a result, kept
\* under key and deciding what is next, or raise out of the repetition.
Piece(here, key, next, raises) ==
    /\ At(here)
    /\ \/ \E r \in DOMAIN next :
            /\ Outcome(r = "ok", Joined)
            /\ Put("run", key, r)
            /\ Goto(next[r]) /\ UNCHANGED exc
            /\ log' = IF r = "ok" /\ next[r] = "stop_a" THEN log \cup {<<arm, "run", "worked">>} ELSE log
       \/ /\ raises /\ Outcome(FALSE, Joined) /\ Raise /\ UNCHANGED <<rec, log>>
    /\ UNCHANGED <<cluster, root, act, stale, files, finalMembers>> /\ Same

\* set_peer of both actors, only when both localities and both identities are
\* known; then the latency program calibrates its timer and makes warm calls,
\* the others freeze the peers.
Prepare ==
    \/ /\ Known /\ program = "exp69"
       /\ Piece("work", "warm", [r \in {"ok", "failed"} |-> "pregate"], FALSE)
    \/ /\ At("work") /\ ~(Known /\ program = "exp69")
       /\ Goto(IF Known THEN "pregate" ELSE "stop_a")
       /\ SameIsland /\ UNCHANGED <<faults, rec, exc>> /\ Same

\* Every correctness case through both arms in both directions; ray.get is
\* not wrapped, so a lost call leaves the repetition.
run_pregate(next) ==
    Piece("pregate", "pregate",
          [r \in {"ok", "failed"} |->
              IF r = "ok" /\ (program = "exp69" => Has(arm, "run", "warm", "ok"))
              THEN next ELSE "stop_a"], TRUE)

-----------------------------------------------------------------------------
(* Timed pairs.                                                            *)

\* The first flag of the block ends it; reading the counters may raise.
Flags == {"oracle_mismatch_in_timed_sample", "timeout", "ray_peer_used_by_hpx_arm",
          "membership_changed_during_measurement"}
run_timed_case(here, next) ==
    Piece(here, here, [r \in {"ok"} \cup Flags |-> IF r = "ok" THEN next ELSE "stop_a"], TRUE)

\* The B-coordinated control runs only after a clean A band.
Timed ==
    \/ run_timed_case("timed_a", "timed_b")
    \/ run_timed_case("timed_b", "stop_a")

TimedKeys == {"timed_a", "timed_b"}
TimedRan(key) == <<arm, "run", key>> \in DOMAIN rec

eval_rep_gates ==
    [fixed_hpx_commit |-> (\A k \in Conns : Ok(arm, k, "identity")) /\ Ok(arm, "root", "ready"),
     joined |-> /\ Started /\ \A k \in Conns : Ok(arm, k, "child")
                /\ \E k \in Conns : Has(arm, k, "members", 3),
     pregate_seven_cases_pass |-> Has(arm, "run", "pregate", "ok"),
     timed_blocks_complete |-> \A key \in TimedKeys : TimedRan(key),
     all_timed_samples_valid |-> /\ \E key \in TimedKeys : TimedRan(key)
                                 /\ \A key \in TimedKeys : TimedRan(key) => Has(arm, "run", key, "ok"),
     graceful_leave_clean_stop |-> \A k \in Conns : Ok(arm, k, "stopped"),
     root_finalized_clean |-> /\ Has(arm, "root", "exit_path", "finalized_clean")
                              /\ Has(arm, "root", "final_membership", 1),
     actors_destroyed |-> Ok(arm, "run", "destroyed"),
     actors_recreated |-> \A k \in Conns : Ok(arm, k, "recreate"),
     no_orphans |-> Ok(arm, "run", "no_orphans"),
     evidence_complete |-> /\ \A k \in Conns : Ok(arm, k, "identity") /\ Ok(arm, k, "start")
                           /\ Ok(arm, "root", "ready") /\ RootFinal
                           /\ TimedRan("pregate") /\ TimedRan("timed_a")]

\* Flags raised by the timed blocks and the ones failed gates map to.
collect_rep_flags(g) ==
    ({rec[x] : x \in {<<arm, "run", key>> : key \in {t \in TimedKeys : TimedRan(t)}}} \cap Flags)
    \cup (IF g.fixed_hpx_commit THEN {} ELSE {"hpx_identity_mismatch"})
    \cup (IF g.evidence_complete /\ g.timed_blocks_complete THEN {} ELSE {"invalid_instrumentation"})
    \cup (IF g.all_timed_samples_valid THEN {} ELSE {"insufficient_valid_samples"})
    \cup (IF g.actors_recreated THEN {} ELSE {"actor_recreation_failed"})
    \cup (IF g.no_orphans THEN {} ELSE {"orphan_detected"})
    \cup (IF g.joined /\ g.graceful_leave_clean_stop /\ g.root_finalized_clean /\ g.actors_destroyed
          THEN {} ELSE {"lifecycle_failed"})

CLASS_PRIORITY ==
    <<"hpx_identity_mismatch", "invalid_instrumentation", "actor_placement_invalid",
      "ray_peer_used_by_hpx_arm", "oracle_mismatch_in_timed_sample", "timeout",
      "membership_changed_during_measurement", "insufficient_valid_samples",
      "actor_recreation_failed", "orphan_detected", "lifecycle_failed">>

classify_rep(g, flags) ==
    IF (\A f \in DOMAIN g : g[f]) /\ flags = {} THEN "pass"
    ELSE LET hit == {i \in DOMAIN CLASS_PRIORITY : CLASS_PRIORITY[i] \in flags}
         IN  IF hit = {} THEN "invalid_instrumentation" ELSE CLASS_PRIORITY[First(hit)]

RepClass == LET g == eval_rep_gates IN classify_rep(g, collect_rep_flags(g))

run_rep_work ==
    /\ place = "local"
    /\ RepLaunch \/ ReadyStep \/ RepJoin(HpxActor) \/ Prepare \/ run_pregate("timed_a") \/ Timed

RepEnd(local) ==
    \/ RepStops(HpxActor) \/ DiscardStep("destroyed") \/ RepDestroyed(local)
    \/ RepRecreate \/ AwaitFinalStep("await_exit") \/ AwaitExitStep("retire")
    \/ RepRetire(local) \/ RepFinally

run_rep_end == place = "local" /\ (RepEnd(TRUE) \/ RepVerdict(RepClass))

run_phase == place = "local" /\ (PreflightStep \/ LocalEnd)

\* Placement replaces the common host name; the sweep of every node must run.
eval_rep_gates_crossnode == eval_rep_gates @@ [remote_orphan_check_ran |-> Ok(arm, "run", "swept")]
collect_rep_flags_crossnode(g) ==
    collect_rep_flags(g)
    \cup (IF g.remote_orphan_check_ran THEN {} ELSE {"invalid_instrumentation"})

RepClassCrossnode ==
    LET g == eval_rep_gates_crossnode IN classify_rep(g, collect_rep_flags_crossnode(g))

run_crossnode_rep_work ==
    /\ place = "cross"
    /\ RepLaunch \/ ReadyStep \/ RepJoin(HpxActor) \/ Prepare \/ run_pregate("timed_a") \/ Timed
run_crossnode_rep_end == place = "cross" /\ (RepEnd(FALSE) \/ RepVerdict(RepClassCrossnode))

crossnode_cluster == place = "cross" /\ (PreflightStep \/ HeadStep \/ WorkerStep)
crossnode_end == CrossEnd

Latency ==
    /\ program = "exp69"
    /\ \/ run_rep_work \/ run_rep_end \/ run_phase
       \/ run_crossnode_rep_work \/ run_crossnode_rep_end \/ crossnode_cluster \/ crossnode_end

-----------------------------------------------------------------------------
(* Batches.                                                                *)

\* The two islands of a throughput repetition, or two bands of the matrix:
\* C = 2, whose soak proves nothing about the peers, and C = 4, whose does.
Capable(r) == r = Reps[2]

\* The soak of both arms, then, if both passed, a batch per arm.
SoakResults == {"ok", "concurrency_soak_failed", "active_call_counter_leak"}
Soaks == Piece("soak", "soak",
               [r \in SoakResults \cup (IF Capable(arm) THEN {"hpx_peer_concurrency_capability_not_proven"} ELSE {}) |->
                   IF r = "ok" THEN "batches" ELSE "stop_a"], FALSE)
BatchResults == {"ok", "warmup", "timeout", "throughput_batch_invalidated_by_invalid_result"}
Batches == Piece("batches", "batches", [r \in BatchResults |-> "stop_a"], FALSE)

\* No batch at all is a failure.
SoakOk == Has(arm, "run", "soak", "ok")
BatchesOk == Has(arm, "run", "batches", "ok")

\* Ray placed both actors, HPX made them localities, and the island ended as
\* it should.  The first actors' identity is part of the placement.
eval_throughput_island_gates ==
    [fixed_hpx_commit |-> (\A k \in Conns : Ok(arm, k, "identity")) /\ Ok(arm, "root", "ready"),
     joined |-> Started /\ \A k \in Conns : Ok(arm, k, "child"),
     hard_placed |-> \A k \in Conns : Ok(arm, k, "identity"),
     pregate_seven_cases_pass |-> Has(arm, "run", "pregate", "ok"),
     graceful_leave_clean_stop |-> \A k \in Conns : Ok(arm, k, "stopped"),
     root_finalized_clean |-> /\ Has(arm, "root", "exit_path", "finalized_clean")
                              /\ Has(arm, "root", "final_membership", 1),
     actors_recreated_on_node |-> \A k \in Conns : Ok(arm, k, "recreate"),
     no_orphans |-> Ok(arm, "run", "no_orphans"),
     remote_orphan_check_ran |-> Ok(arm, "run", "swept"),
     soaks_passed |-> SoakOk, all_batches_passed |-> BatchesOk]

\* The class of a throughput island: a soak's, a batch's, then the gates'.
IslandClass(g) ==
    IF \A f \in DOMAIN g : g[f] THEN "pass"
    ELSE IF TimedRan("soak") /\ ~SoakOk THEN rec[<<arm, "run", "soak">>]
    ELSE IF TimedRan("batches") /\ ~BatchesOk
    THEN IF Has(arm, "run", "batches", "warmup") THEN "timeout" ELSE rec[<<arm, "run", "batches">>]
    ELSE FirstFailed(<< <<"hpx_identity_mismatch", g.fixed_hpx_commit>>,
                        <<"actor_placement_invalid", g.hard_placed>>,
                        <<"orphan_detected", g.no_orphans>>,
                        <<"invalid_instrumentation", FALSE>> >>)

BatchWork ==
    \/ RepLaunch \/ ReadyStep \/ RepJoin(HpxActor) \/ Prepare \/ run_pregate("soak")
    \/ Soaks \/ Batches

run_throughput_rep_work == BatchWork
run_throughput_rep_end == RepEnd(FALSE) \/ RepVerdict(IslandClass(eval_throughput_island_gates))

\* Batches stand only with the capability that the soak of the C = 4 island of
\* their own repetition proved.  A batch that failed in its warm-up has no
\* gate table to classify again: the program dies of the missing key.
apply_capability_linkage ==
    [crash |-> \E i \in DOMAIN Reps : Has(Reps[i], "run", "batches", "warmup"),
     available |-> \E i \in DOMAIN Reps :
                       Capable(Reps[i]) /\ Has(Reps[i], "run", "soak", "ok")]

throughput_cluster == place = "cross" /\ (PreflightStep \/ HeadStep \/ WorkerStep)
throughput_end ==
    \/ ~apply_capability_linkage.crash /\ apply_capability_linkage.available /\ CrossEnd
    \/ /\ At("phase_end") \/ (At("verdict") /\ exc)
       /\ apply_capability_linkage.crash \/ ~apply_capability_linkage.available
       /\ \E clean \in BOOLEAN :
            /\ Outcome(clean, TRUE)
            /\ IF apply_capability_linkage.crash THEN Finish("crash", "none")
               ELSE Finish("fail", IF exc THEN "exception"
                                   ELSE IF AllPassed THEN "peer_concurrency_capability_not_available"
                                   ELSE "none")
       /\ cluster' = IF cluster = "none" THEN "none" ELSE "down"
       /\ UNCHANGED <<root, act, stale, files, finalMembers, log, arm, sm, rec, exc, obs>>

Throughput ==
    /\ program = "exp69_tput"
    /\ run_throughput_rep_work \/ run_throughput_rep_end \/ throughput_cluster \/ throughput_end

\* Slice 3: the same island per band, locally or across nodes; a band's own
\* soak is its capability record.
eval_slice3_local_gates ==
    [f \in DOMAIN eval_throughput_island_gates \ {"hard_placed", "remote_orphan_check_ran"} |->
        eval_throughput_island_gates[f]]

Slice3Class(g) == IF \A f \in DOMAIN g : g[f] THEN "pass" ELSE "rep_failed"

run_slice3_local_rep ==
    /\ place = "local"
    /\ BatchWork \/ RepEnd(TRUE) \/ RepVerdict(Slice3Class(eval_slice3_local_gates))

\* ray.init and the actor class are made outside any try; a missing peer binary
\* ends the program at once.
run_slice3_local_phase == place = "local" /\ (PreflightStep \/ LocalEnd)

run_slice3_crossnode_rep_work == place = "cross" /\ BatchWork
run_slice3_crossnode_rep_end ==
    place = "cross" /\ (RepEnd(FALSE) \/ RepVerdict(Slice3Class(eval_throughput_island_gates)))

slice3_crossnode_cluster == place = "cross" /\ (PreflightStep \/ HeadStep \/ WorkerStep)

\* The matrix is complete, and every band passed.
slice3_crossnode_end == CrossEnd

Slice3 ==
    /\ program = "exp69_s3"
    /\ \/ run_slice3_local_rep \/ run_slice3_local_phase
       \/ run_slice3_crossnode_rep_work \/ run_slice3_crossnode_rep_end
       \/ slice3_crossnode_cluster \/ slice3_crossnode_end

Driver == Latency \/ Throughput \/ Slice3

Init ==
    \/ RepInit("exp69") \/ RepInit("exp69_s3")
    \/ RepInit("exp69_tput") /\ place = "cross"
=============================================================================
