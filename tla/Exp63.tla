------------------------------- MODULE Exp63 -------------------------------
(***************************************************************************)
(* The arms of experiment 63: reductions over two remote localities, to    *)
(* find out whether HPX-native composition makes progress.  The progress   *)
(* arms time a composition like experiment 62; the hardened arms (A1       *)
(* diagnostic, native composition, tree of partials) touch a heartbeat     *)
(* before every call, stop at the first anomaly and end the connectors     *)
(* with a completion marker.                                               *)
(***************************************************************************)
EXTENDS Arm

CONSTANT N      \* leaves of one call

RootLoc == "root"
Prewarm63 == 1
Progress63 == {"progress_poll63", "progress_native63"}
Diag63 == {"a1_diag63", "a1_silent63"}
Hardened63 == Diag63 \cup {"native63", "native_poll63", "tree63"}
Arms63 == Progress63 \cup Hardened63

\* The composition each arm asks for (the sweep adds thread and yield knobs).
CompositionOf ==
    CASE arm \in {"progress_poll63", "native_poll63"} -> "root_flat_gather_poll"
      [] arm = "tree63" -> "tree_of_partials"
      [] OTHER -> "when_all_then_reduce"
_COMPOSITION_DEFAULTS ==
    [m \in {"root_flat_gather_poll", "when_all_then_reduce", "dataflow_reduce", "tree_of_partials"} |->
       [hpx_native |-> m # "root_flat_gather_poll", polled |-> m = "root_flat_gather_poll"]]
_is_native_mode(mode) == mode \in DOMAIN _COMPOSITION_DEFAULTS /\ _COMPOSITION_DEFAULTS[mode].hpx_native

composition_provenance(native, polled, validated, mode) ==
    native = ~polled /\ (validated => mode = "root_flat_gather_poll")
composition_provenance_for(mode) ==
    LET d == _COMPOSITION_DEFAULTS[mode]
    IN  composition_provenance(d.hpx_native, d.polled, mode = "root_flat_gather_poll", mode)

\* Which progress question a configuration asks.
_progress_mode_for(config) ==
    CASE ~_is_native_mode(config.composition) -> "yield_poll_control"
      [] _is_native_mode(config.composition) /\ config.transport = "mpi" -> "mpi_parcelport"
      [] _is_native_mode(config.composition) /\ config.transport # "mpi" /\ config.yielder -> "background_yielder"
      [] OTHER -> IF config.threads >= 8 THEN "increase_hpx_threads" ELSE "passive_wait_baseline"

\* A0 to A5 in the order of the sweep, then the two deferred ones.
progress_config_matrix(include_phase_b) ==
    LET c(id, comp, thr, y, tr) == [id |-> id, composition |-> comp, threads |-> thr, yielder |-> y, transport |-> tr]
        a == << c("A0", "root_flat_gather_poll", 4, FALSE, "tcp"), c("A1", "when_all_then_reduce", 4, FALSE, "tcp"),
                c("A2", "when_all_then_reduce", 8, FALSE, "tcp"), c("A3", "when_all_then_reduce", 4, TRUE, "tcp"),
                c("A4", "when_all_then_reduce", 8, TRUE, "tcp"), c("A5", "dataflow_reduce", 8, TRUE, "tcp") >>
        b == << c("B0", "when_all_then_reduce", 8, FALSE, "tcp"), c("B1", "when_all_then_reduce", 8, FALSE, "mpi") >>
    IN  IF include_phase_b THEN a \o b ELSE a

-----------------------------------------------------------------------------
(* What a call returns.                                                    *)

Outcomes63 == {"ok", "wrong", "late", "misplaced", "lopsided", "raised"}

\* Contiguous blocks of leaves, the first n % r of them one longer.
_partition_blocks(n, r) ==
    [j \in 1..r |->
       LET before == {i \in 1..(j - 1) : i <= n % r}
       IN  [begin |-> (j - 1) * (n \div r) + Cardinality(before),
            count |-> (n \div r) + (IF j <= n % r THEN 1 ELSE 0)]]

\* One partial per remote locality; misplaced: one ran at the root,
\* lopsided: one block was reduced twice and the last not at all.
Partials(out) ==
    LET blocks == _partition_blocks(N, Len(Remotes))
        fair == [j \in DOMAIN blocks |-> blocks[j] @@ [loc |-> Remotes[j]]]
    IN  CASE out = "misplaced" -> [fair EXCEPT ![1].loc = RootLoc]
          [] out = "lopsided" -> [fair EXCEPT ![Len(fair)] = fair[1]]
          [] OTHER -> fair

\* The leaves' localities, folded per locality for the witness.
contribution_witness(out) ==
    IF out = "none" THEN [per |-> <<>>, leaves |-> 0]
    ELSE LET ps == Partials(out)
             locs == {ps[j].loc : j \in DOMAIN ps}
         IN  [per |-> [l \in locs |-> {j \in DOMAIN ps : ps[j].loc = l}], leaves |-> N]

distribution_gate(witness, declared) ==
    LET covered == DOMAIN witness.per \ {RootLoc}
    IN  /\ Cardinality(covered) >= 2 /\ declared # {} /\ declared \subseteq covered
        /\ witness.leaves = N /\ RootLoc \notin DOMAIN witness.per

Declared == IF "joined" \in seen THEN Hosts ELSE {}
Launched == {r \in Hosts : client[r] # "none"}

-----------------------------------------------------------------------------
(* The progress arms.                                                      *)

Timed63 == SubSeq(calls, Prewarm63 + 1, Len(calls))
Kept63 == SelectSeq(Timed63, LAMBDA c : c # "raised")
Last63 == IF Kept63 = <<>> THEN "none" ELSE Kept63[Len(Kept63)]

\* A native composition whose first timed call timed out has stalled: the
\* other calls are not made.  Prewarm results are dropped.
_drive_progress_config ==
    /\ At("call") /\ arm \in Progress63
    /\ \E out \in Outcomes63 :
         /\ Answer(out)
         /\ LET n == Len(calls) + 1
                stalled == n = Prewarm63 + 1 /\ _is_native_mode(CompositionOf) /\ out = "late"
            IN  IF out = "raised" THEN err' = TRUE /\ Goto("finally")
                ELSE /\ UNCHANGED err
                     /\ IF n = Prewarm63 + K \/ stalled THEN Goto("finally") ELSE UNCHANGED pc

\* served is the driver's own marker, graceful the connector's record.
LifecycleOk ==
    /\ Launched # {}
    /\ \A r \in Launched : {<<r, "joined1">>, <<r, "served1">>, <<r, "disconnected1">>} \subseteq files
    /\ \A r \in Launched : conn[r] = "served"

TimedOut63 == Last63 \in {"late", "none"}
\* Within the dispatch timeout, which an error and a timed-out call exceed.
progress_diagnosis ==
    /\ ~err /\ ~TimedOut63 /\ \A i \in DOMAIN Timed63 : Timed63[i] # "late"
    /\ Last63 # "wrong"

build_progress_config_artifact ==
    LET native == _is_native_mode(CompositionOf)
        oracle == Last63 \notin {"none", "wrong", "late"}
        correct == oracle /\ distribution_gate(contribution_witness(Last63), Declared) /\ LifecycleOk
        woke == native /\ ~TimedOut63 /\ oracle
        capable == native /\ progress_diagnosis /\ woke /\ correct /\ composition_provenance_for(CompositionOf)
        outcome == IF ~native THEN IF correct THEN "control_pass" ELSE "fail"
                   ELSE IF capable THEN "native_progress_pass"
                   ELSE IF ~woke \/ err \/ TimedOut63 THEN "native_stalled" ELSE "fail"
    IN  <<[overall |-> IF outcome \in {"control_pass", "native_progress_pass"} THEN "pass" ELSE "fail",
           outcome |-> outcome]>>

-----------------------------------------------------------------------------
(* The hardened arms.                                                      *)

\* The heartbeat comes first, so that the deadman counts from the call; a
\* call that is not ready, threw or timed out is recorded and ends the loop.
HardenedCalls ==
    /\ At("call") /\ arm \in Hardened63
    /\ \E out \in Outcomes63 :
         /\ Answer(out)
         /\ UNCHANGED err
         /\ LET n == Len(calls) + 1
                anomaly == n > Prewarm63 /\ out \in {"late", "raised"}
            IN  IF n = Prewarm63 + K \/ anomaly THEN Goto("finally") ELSE UNCHANGED pc

\* An anomaly is the last call.  Leaves that were not ready at a timeout are
\* abandoned; which ones were is the call's own account.
Anomaly == Timed63 # <<>> /\ Timed63[Len(Timed63)] \in {"late", "raised"}
diagnostic_instrumentation ==
    [wait |-> IF Anomaly THEN Timed63[Len(Timed63)] ELSE "ready",
     unsafe |-> Anomaly /\ Timed63[Len(Timed63)] = "late",
     stage |-> IF err THEN "python" ELSE "none"]

classify_connector_shutdown(r) ==
    CASE <<r, "disconnected1">> \notin files -> "unknown"
      [] <<r, "unclean">> \in files -> "error"
      [] conn[r] = "timeout" -> "serve_timeout_expired"
      [] OTHER -> "root_completion_signal"

\* A call that failed before its dispatch while a connector had already
\* ended by itself: the parcel would have come after the shutdown.
late_parcel_after_shutdown_detected ==
    /\ Anomaly /\ Timed63[Len(Timed63)] = "raised"
    /\ \E r \in Launched : conn[r] = "timeout"

ConnectorsDone ==
    /\ Launched # {}
    /\ \A r \in Launched : {<<r, "joined1">>, <<r, "disconnected1">>} \subseteq files /\ conn[r] = "served"
    /\ \A r \in Launched : classify_connector_shutdown(r) = "root_completion_signal"

AllReady == ~err /\ K > 0 /\ Len(Timed63) = K /\ \A i \in 1..Len(Timed63) : Timed63[i] \notin {"late", "raised"}

_drive_a1_diag ==
    <<[overall |-> IF Anomaly \/ err THEN "anomaly" ELSE "clean",
       diagnostic |-> diagnostic_instrumentation, late_parcel |-> late_parcel_after_shutdown_detected]>>

\* Every call is checked, not only the last.
native_composition_validation_gate ==
    /\ AllReady
    /\ \A i \in 1..Len(Timed63) :
         /\ Timed63[i] # "wrong"
         /\ RootLoc \notin DOMAIN contribution_witness(Timed63[i]).per
         /\ Cardinality(Declared) >= 2 /\ Declared \subseteq DOMAIN contribution_witness(Timed63[i]).per
    /\ ConnectorsDone /\ ~late_parcel_after_shutdown_detected

_drive_native_composition ==
    LET ok == native_composition_validation_gate
    IN  <<[overall |-> IF ok THEN "pass" ELSE "fail",
           validated |-> ok /\ _is_native_mode(CompositionOf)]>>

Covered(ps) == [i \in 0..(N - 1) |-> Cardinality({j \in DOMAIN ps : ps[j].begin <= i /\ i < ps[j].begin + ps[j].count})]
tree_of_partials_validation_gate ==
    /\ AllReady
    /\ \A i \in 1..Len(Timed63) :
         LET ps == Partials(Timed63[i])
         IN  /\ \A j \in DOMAIN ps : ps[j].loc # RootLoc /\ ps[j].count >= 1
             /\ Len(ps) = Cardinality(Declared) /\ Cardinality(Declared) >= 2
             /\ {ps[j].loc : j \in DOMAIN ps} = Declared
             /\ \A k \in 0..(N - 1) : Covered(ps)[k] = 1
             /\ Timed63[i] # "wrong"
    /\ ConnectorsDone /\ ~late_parcel_after_shutdown_detected

_drive_tree_of_partials ==
    <<[overall |-> IF tree_of_partials_validation_gate THEN "pass" ELSE "fail",
       validated |-> tree_of_partials_validation_gate /\ _is_native_mode("tree_of_partials")]>>

\* _write_completion, unless the arm runs without the completion signal.
Markers63 ==
    CASE arm \in Progress63 -> {"served1"}
      [] arm = "a1_silent63" -> {}
      [] OTHER -> {"root.done", "served1"}

_progress_preconditions == Precondition(<<>>)

\* Each driver, as the steps of its body.
ProgressConfig63 ==
    /\ arm \in Progress63
    /\ \/ _progress_preconditions \/ StartRoot \/ Launch \/ Await \/ _drive_progress_config
       \/ Finally(Markers63) \/ Reap \/ StopRoot \/ Write(build_progress_config_artifact)
A1Diag63 ==
    /\ arm \in Diag63
    /\ \/ _progress_preconditions \/ StartRoot \/ Launch \/ Await \/ HardenedCalls
       \/ Finally(Markers63) \/ Reap \/ StopRoot \/ Write(_drive_a1_diag)
NativeComposition63 ==
    /\ arm \in {"native63", "native_poll63"}
    /\ \/ _progress_preconditions \/ StartRoot \/ Launch \/ Await \/ HardenedCalls
       \/ Finally(Markers63) \/ Reap \/ StopRoot \/ Write(_drive_native_composition)
TreeOfPartials63 ==
    /\ arm = "tree63"
    /\ \/ _progress_preconditions \/ StartRoot \/ Launch \/ Await \/ HardenedCalls
       \/ Finally(Markers63) \/ Reap \/ StopRoot \/ Write(_drive_tree_of_partials)

Hpx63 == ProgressConfig63 \/ A1Diag63 \/ NativeComposition63 \/ TreeOfPartials63

=============================================================================
