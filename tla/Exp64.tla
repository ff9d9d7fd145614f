------------------------------- MODULE Exp64 -------------------------------
(***************************************************************************)
(* The arms of experiment 64: every leaf of a call sends a payload back to *)
(* the caller, for a ladder of payload sizes.  The poll arm is experiment  *)
(* 62's gather; the native arms add a heartbeat, a completion marker and a *)
(* choice of how the root waits; the Ray arm starts its own cluster.  One  *)
(* artifact is written per cell (a wait mode and a size) that was run.     *)
(***************************************************************************)
EXTENDS Arm

CONSTANT N      \* leaves of one call

RootLoc == "root"
Prewarm64 == 1
Ladder == <<0, 262144>>

Poll64 == {"payload_poll64"}
Native64 == {"payload_native64", "payload_spin64", "payload_control64"}
Ray64Arms == {"ray_payload64"}
Arms64 == Poll64 \cup Native64 \cup Ray64Arms

NATIVE_READINESS_MODES == {"when_all_then_reduce", "dataflow_reduce"}
DIAGNOSTIC_READINESS_MODES == {"when_all_then_reduce_yield"}
POSITIVE_CONTROL_MODES == {"sequential_leaf_wait"}
LOCAL_CONTROL_MODES == {"local_when_all_then_reduce_wait_for"}
POLLING_MODES == {"root_flat_gather_poll"} \cup DIAGNOSTIC_READINESS_MODES
NATIVE_COMPOSITION_MODES == NATIVE_READINESS_MODES \cup DIAGNOSTIC_READINESS_MODES \cup LOCAL_CONTROL_MODES

\* The wait modes an arm goes through; spin64 is started with idle backoff
\* off, the control arm runs the local control.
Modes == CASE arm = "payload_native64" -> <<"root_flat_gather_poll", "when_all_then_reduce">>
           [] arm = "payload_spin64" -> <<"dataflow_reduce">>
           [] arm = "payload_control64" -> <<"local_when_all_then_reduce_wait_for">>
           [] OTHER -> <<"root_flat_gather_poll">>
\* The ladder is a parameter: the two-mode arm runs its first size only.
Sizes == IF arm = "payload_native64" THEN SubSeq(Ladder, 1, 1) ELSE Ladder
Cells == [c \in 1..(Len(Modes) * Len(Sizes)) |->
            [mode |-> Modes[((c - 1) \div Len(Sizes)) + 1], size |-> Sizes[((c - 1) % Len(Sizes)) + 1]]]

-----------------------------------------------------------------------------
(* What a call returns.  "slow" is ready later than promptness allows,     *)
(* "deferred" ready only when the dispatch timeout is nearly up, "late"    *)
(* not ready at all; "mislabelled" waited in another way than asked.       *)

HpxOutcomes64 == {"ok", "wrong", "late", "misplaced", "lopsided", "raised"}
NativeOutcomes64 == HpxOutcomes64 \cup {"slow", "deferred", "mislabelled"}

\* Where the leaves ran: around the remotes, or all here in the local control.
Leaves64(mode, out) ==
    [i \in 1..N |->
       LET fair == IF mode \in LOCAL_CONTROL_MODES THEN RootLoc ELSE Remotes[((i - 1) % Len(Remotes)) + 1]
       IN  CASE out = "misplaced" /\ i = 1 -> IF fair = RootLoc THEN Remotes[1] ELSE RootLoc
             [] out = "lopsided" -> Remotes[1]
             [] OTHER -> fair]
On(leaves, loc) == Cardinality({i \in DOMAIN leaves : leaves[i] = loc})

\* The scalar oracle, the byte lengths and the digest are right unless the
\* answer is wrong; no leaf may have timed out.
compute_payload_gates(mode, out) ==
    LET leaves == Leaves64(mode, out)
    IN  /\ Len(leaves) = N /\ out \notin {"wrong", "late"}
        /\ IF mode \in LOCAL_CONTROL_MODES THEN On(leaves, RootLoc) = N
           ELSE On(leaves, RootLoc) = 0 /\ \A j \in DOMAIN Remotes : On(leaves, Remotes[j]) > 0

\* The answer names the mode it used, polled or not as that mode does, and
\* its wait came back ready.
compute_native_readiness_gates(out) == out \notin {"mislabelled", "late"}

\* The sorted counts per remote are the round robin's: N % r of them one more.
Balanced(leaves) ==
    LET r == Len(Remotes)
        more == {j \in 1..r : On(leaves, Remotes[j]) = (N \div r) + 1}
        less == {j \in 1..r : On(leaves, Remotes[j]) = N \div r}
    IN  more \cup less = 1..r /\ Cardinality(more) = N % r
_hpx_balanced(mode, out) == Balanced(Leaves64(mode, out))

\* The Ray coordinator pins every leaf hard, and checks the balance too.
compute_ray_payload_gates(out) ==
    LET leaves == Leaves64("root_flat_gather_poll", out)
    IN  /\ Len(leaves) = N /\ out # "wrong"
        /\ On(leaves, RootLoc) = 0
        /\ \A j \in DOMAIN Remotes : On(leaves, Remotes[j]) >= 1
        /\ Balanced(leaves)

gates_pass(mode, out) ==
    CASE arm \in Ray64Arms -> compute_ray_payload_gates(out)
      [] arm \in Poll64 -> compute_payload_gates(mode, out)
      [] OTHER -> compute_payload_gates(mode, out) /\ compute_native_readiness_gates(out)

-----------------------------------------------------------------------------
(* The sweep over the cells.  calls holds records: the cell, the call's    *)
(* number in it, its outcome, and whether the cell's measured calls so far *)
(* passed their gates.                                                     *)

PerCell == Prewarm64 + K

\* A failing size ends its mode: no larger size is sent.  0: the sweep is over.
CellAfter(last) ==
    IF last.n < PerCell THEN last.cell
    ELSE LET later == {d \in DOMAIN Cells : d > last.cell /\ (last.pass \/ Cells[d].mode # Cells[last.cell].mode)}
         IN  IF later = {} THEN 0 ELSE CHOOSE d \in later : \A e \in later : d <= e
Latest == IF calls = <<>> THEN [cell |-> 1, n |-> 0, out |-> "ok", pass |-> TRUE] ELSE calls[Len(calls)]
NextCell == CellAfter(Latest)
Record(out) ==
    LET c == NextCell
        same == Latest.cell = c
        n == IF same THEN Latest.n + 1 ELSE 1
    IN  [cell |-> c, n |-> n, out |-> out,
         pass |-> (same => Latest.pass) /\ (n > Prewarm64 => gates_pass(Cells[c].mode, out))]

\* The outcomes of a cell's calls, and of its measured ones.
InCell(c) == {i \in DOMAIN calls : calls[i].cell = c}
OutsOf(c) == {calls[i].out : i \in {j \in InCell(c) : calls[j].n > Prewarm64}}
all_calls_pass(c) ==
    /\ OutsOf(c) # {}
    /\ \A out \in OutsOf(c) : gates_pass(Cells[c].mode, out)

\* _size_calls: the warm-up results are dropped, the measured ones gated; an
\* exception drops the whole cell.
_size_calls ==
    /\ At("call") /\ arm \in Poll64
    /\ \E out \in HpxOutcomes64 :
         /\ AnswerFrom(Targets, out, Record(out))
         /\ IF out = "raised" THEN err' = TRUE /\ Goto("finally")
            ELSE /\ UNCHANGED err
                 /\ IF CellAfter(Record(out)) = 0 THEN Goto("finally") ELSE UNCHANGED pc

\* The same with a heartbeat before every call, warm-ups included.
_size_calls_native ==
    /\ At("call") /\ arm \in Native64
    /\ \E out \in NativeOutcomes64 :
         /\ AnswerFrom(IF Cells[NextCell].mode \in LOCAL_CONTROL_MODES THEN {} ELSE Targets, out, Record(out))
         /\ IF out = "raised" THEN err' = TRUE /\ Goto("finally")
            ELSE /\ UNCHANGED err
                 /\ IF CellAfter(Record(out)) = 0 THEN Goto("finally") ELSE UNCHANGED pc

\* Cells whose calls were all made; the others leave no artifact.
per_cell == {c \in DOMAIN Cells :
               /\ Cardinality(InCell(c)) = PerCell
               /\ \A i \in InCell(c) : calls[i].out # "raised"}
InOrder(S, f(_)) == LET ord == SelectSeq([c \in 1..Len(Cells) |-> c], LAMBDA c : c \in S)
                    IN  [i \in DOMAIN ord |-> f(ord[i])]

-----------------------------------------------------------------------------
(* The verdicts of the HPX arms.                                           *)

Launched64 == {r \in Hosts : client[r] # "none"}
\* Without an attested CPU set the gate fails, as it does with one core.
cpuset_not_collapsed == Launched64 # {} /\ \A r \in Launched64 : "cpuset" \in attest[r]
nodelay_verified == Launched64 # {} /\ \A r \in Launched64 : "nodelay" \in attest[r]

\* served is the driver's own file, graceful the connector's record.
connector_lifecycle_ok ==
    /\ Launched64 # {}
    /\ \A r \in Launched64 : {<<r, "joined1">>, <<r, "served1">>, <<r, "disconnected1">>} \subseteq files
    /\ \A r \in Launched64 : conn[r] = "served"

\* The hardened connector says itself that it served, cleanly, until the
\* completion marker.
_hardened_connectors ==
    [lifecycle |-> /\ Launched64 # {}
                   /\ \A r \in Launched64 : {<<r, "joined1">>, <<r, "disconnected1">>} \subseteq files
                   /\ \A r \in Launched64 : conn[r] = "served" /\ <<r, "unclean">> \notin files,
     completion |-> /\ Launched64 # {}
                    /\ \A r \in Launched64 : conn[r] = "served" /\ <<r, "unclean">> \notin files]

PollArtifact(c) ==
    [overall |-> IF ~err /\ all_calls_pass(c) /\ connector_lifecycle_ok
                      /\ cpuset_not_collapsed /\ nodelay_verified THEN "pass" ELSE "fail",
     mode |-> Cells[c].mode, size |-> Cells[c].size,
     teardown_clean |-> connector_lifecycle_ok /\ ~err,
     balanced |-> \A out \in OutsOf(c) : _hpx_balanced(Cells[c].mode, out)]
_drive_payload_remote_smoke == InOrder(per_cell, PollArtifact)

_mode_subject_to_deadline_margin(mode) ==
    mode \in NATIVE_READINESS_MODES \cup DIAGNOSTIC_READINESS_MODES \cup POSITIVE_CONTROL_MODES \cup LOCAL_CONTROL_MODES
_mode_subject_to_promptness(mode) == _mode_subject_to_deadline_margin(mode)
compute_native_deadline_margin_gate(mode, outs) ==
    _mode_subject_to_deadline_margin(mode) => outs # {} /\ outs \cap {"deferred", "late"} = {}
compute_native_promptness_gate(mode, outs) ==
    _mode_subject_to_promptness(mode) => outs # {} /\ outs \cap {"slow", "deferred", "late"} = {}

\* cfg is hpx.max_idle_backoff_time as the runtime reports it.
compute_idle_backoff_disclosure(cfg) ==
    LET mode == CASE cfg = "0" -> "disabled" [] cfg = "unknown" -> "unknown" [] OTHER -> "recorded_only"
    IN  [idle_backoff_mode |-> mode,
         runtime_progress_driver |-> IF mode = "disabled" THEN "idle_backoff_disabled" ELSE "none"]
HpxConfig == CASE arm = "payload_spin64" -> "0" [] arm = "payload_control64" -> "unknown" [] OTHER -> "1000"

\* The claim that a native wait needs no polling.
compute_poll_half_retirement(mode, overall_pass, polled, prompt, disclosure) ==
    /\ mode \in NATIVE_READINESS_MODES /\ overall_pass /\ ~polled /\ prompt
    /\ disclosure.idle_backoff_mode # "unknown" /\ disclosure.runtime_progress_driver # "none"

_native_wait_variant(mode) ==
    CASE mode \in DIAGNOSTIC_READINESS_MODES -> "yield_poll"
      [] mode \in POSITIVE_CONTROL_MODES -> "sequential_leaf_wait_for"
      [] mode \in LOCAL_CONTROL_MODES -> "local_wait_for"
      [] mode \in NATIVE_READINESS_MODES -> "wait_for"
      [] OTHER -> "n/a"
_readiness_provenance(mode) ==
    [variant |-> _native_wait_variant(mode), polled |-> mode \in POLLING_MODES,
     native |-> mode \in NATIVE_READINESS_MODES]

NativeArtifact(c) ==
    LET mode == Cells[c].mode
        outs == OutsOf(c)
        pass == /\ ~err /\ all_calls_pass(c) /\ _hardened_connectors.lifecycle
                /\ cpuset_not_collapsed /\ nodelay_verified
                /\ \A out \in outs : compute_native_readiness_gates(out)
                /\ compute_native_deadline_margin_gate(mode, outs)
                /\ _hardened_connectors.completion
    IN  [overall |-> IF pass THEN "pass" ELSE "fail", mode |-> mode, size |-> Cells[c].size,
         provenance |-> _readiness_provenance(mode),
         retired |-> compute_poll_half_retirement(mode, pass, mode \notin NATIVE_READINESS_MODES,
                       compute_native_promptness_gate(mode, outs), compute_idle_backoff_disclosure(HpxConfig)),
         balanced |-> \A out \in outs : _hpx_balanced(mode, out)]
_drive_payload_native_smoke == InOrder(per_cell, NativeArtifact)

-----------------------------------------------------------------------------
(* Where a passive wait lost its time, from the call's time stamps in      *)
(* units of the promptness floor; 0 is a stamp that was not taken.         *)

compute_progress_discriminator(mode, ds, ce, cc, wr, rtt, deferred) ==
    LET taken == SelectSeq(<<ds, ce, cc, wr>>, LAMBDA t : t > 0)
        ok == ds > 0 /\ wr > 0 /\ ds <= wr /\ \A i \in 1..(Len(taken) - 1) : taken[i] <= taken[i + 1]
    IN  CASE mode \notin NATIVE_COMPOSITION_MODES -> "n/a"
          [] mode \in NATIVE_COMPOSITION_MODES /\ ~ok -> "instrumentation_invalid"
          [] OTHER -> IF ce = 0 \/ cc = 0 THEN "continuation_uncaptured"
                      ELSE IF rtt < 1 THEN "none"
                      ELSE IF ce - ds >= deferred THEN "continuation_at_timeout"
                      ELSE IF ce - ds < 1 /\ wr - cc >= deferred THEN "waiter_resume_at_timeout"
                      ELSE "ambiguous"

aggregate_progress_probe(sigs) ==
    CASE sigs = {} -> "n/a"
      [] Cardinality(sigs) = 1 -> CHOOSE s \in sigs : TRUE
      [] OTHER -> "mixed"

interpret_local_vs_remote_resume(here, there) ==
    CASE here = "waiter_resume_at_timeout" /\ there = "waiter_resume_at_timeout" -> "pure_hpx_scheduler_resume"
      [] here = "none" /\ there = "waiter_resume_at_timeout" -> "remote_parcel_or_crosspool_resume"
      [] here = "none" /\ there = "none" -> "no_resume_defect_observed"
      [] OTHER -> "ambiguous"

\* m: thread count to signature
interpret_threadcount_resume(m) ==
    LET multi == {t \in DOMAIN m : t > 1}
        stalls(S) == \A t \in S : m[t] = "waiter_resume_at_timeout"
    IN  CASE DOMAIN m = {} -> "ambiguous"
          [] DOMAIN m # {} /\ 1 \in DOMAIN m /\ m[1] = "none" /\ multi # {} /\ stalls(multi) -> "wake_sleeping_worker"
          [] DOMAIN m # {} /\ stalls(DOMAIN m) -> "resume_broken_all_threadcounts"
          [] DOMAIN m # {} /\ (\A t \in DOMAIN m : m[t] = "none") -> "no_resume_defect_observed"
          [] OTHER -> "ambiguous"

classify_untimed_wait(resumed, hung, prompt) ==
    CASE hung -> "untimed_hung_ready_resume_lost"
      [] ~hung /\ resumed -> IF prompt THEN "untimed_resumed_prompt" ELSE "untimed_resumed_slow"
      [] OTHER -> "ambiguous"

-----------------------------------------------------------------------------
(* The Ray arm.                                                            *)

\* A GetTimeoutError ends the sweep with what the size has so far; any other
\* exception leaves the try without an artifact for that size.
RaySubmit ==
    /\ At("call") /\ arm \in Ray64Arms
    /\ \E out \in HpxOutcomes64 :
         /\ RayAnswerAs(out, Record(out))
         /\ IF out = "raised" THEN err' = TRUE /\ Goto("finally")
            ELSE /\ UNCHANGED err
                 /\ IF out = "late" \/ CellAfter(Record(out)) = 0
                    THEN Goto("finally") ELSE UNCHANGED pc

RayTimedOut(c) == \E i \in InCell(c) : calls[i].out = "late"
RayCells == per_cell \cup {c \in DOMAIN Cells : RayTimedOut(c)}
RayOuts(c) == OutsOf(c) \ {"late"}
RayArtifact(c) ==
    LET calls_pass == RayOuts(c) # {} /\ \A out \in RayOuts(c) : compute_ray_payload_gates(out)
    IN  [overall |-> IF ~err /\ calls_pass /\ ~RayTimedOut(c) /\ "no_orphans" \in seen THEN "pass" ELSE "fail",
         mode |-> "ray", size |-> Cells[c].size, no_orphans |-> "no_orphans" \in seen]
run_ray_payload_smoke == InOrder(RayCells, RayArtifact)

RayPrecondition64 ==
    /\ At("pre") /\ arm \in Ray64Arms
    /\ \/ Proceed("ray") /\ NoFault
       \/ Proceed("done") /\ NoFault
       \/ Fault /\ Raise("unresolved")
    /\ SameHpx /\ SameArm /\ SameLog

-----------------------------------------------------------------------------

Markers64 == IF arm \in Native64 THEN {"root.done", "served1"} ELSE {"served1"}
_payload_preconditions == Precondition(<<>>)

\* Each driver, as the steps of its body.
RemoteSmoke64 ==
    /\ arm \in Poll64
    /\ \/ _payload_preconditions \/ StartRoot \/ Launch \/ Await \/ _size_calls
       \/ Finally(Markers64) \/ Reap \/ StopRoot \/ Write(_drive_payload_remote_smoke)
NativeSmoke64 ==
    /\ arm \in Native64
    /\ \/ _payload_preconditions \/ StartRoot \/ Launch \/ Await \/ _size_calls_native
       \/ Finally(Markers64) \/ Reap \/ StopRoot \/ Write(_drive_payload_native_smoke)

Hpx64 == RemoteSmoke64 \/ NativeSmoke64
Ray64 ==
    /\ arm \in Ray64Arms
    /\ \/ RayPrecondition64 \/ RayStart \/ RaySubmit \/ RayFinally \/ Write(run_ray_payload_smoke)

=============================================================================
