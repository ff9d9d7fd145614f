------------------------------- MODULE Exp62 -------------------------------
(***************************************************************************)
(* The arms of experiment 62: a call fans N leaves out over the remote     *)
(* localities and folds their values.  Each HPX arm writes one artifact;   *)
(* a Ray arm writes one per island of its single invocation.  Manifests    *)
(* and bands are Evidence's matter.                                        *)
(***************************************************************************)
EXTENDS Arm

CONSTANTS N,        \* leaves of one call
          Islands   \* islands of one Ray invocation

RootLoc == "root"
Prewarm62 == 1
LocalSmokes62 == {"hpx_local62", "ray_local62"}
HpxArms62 == {"hpx_local62", "remote_smoke62", "fanout62", "mr_smoke62", "mr_fanout62"}
RayArms62 == {"ray_local62", "ray_fanout62", "ray_mr_fanout62"}
MultiRemote62 == {"mr_smoke62", "mr_fanout62", "ray_mr_fanout62"}

placement_is_distributed(mode) == mode \in {"all-remote", "round-robin"}
PlacementMode == IF arm \in LocalSmokes62 THEN "single-locality" ELSE "all-remote"

-----------------------------------------------------------------------------
(* What a call returns: where each leaf ran, whether the fold is right,    *)
(* and how many leaves timed out.                                          *)

\* targets is the sequence of localities the mode allows
build_leaf_assignments(n, localities, mode, root_locality) ==
    LET remote == SelectSeq(localities, LAMBDA loc : loc # root_locality)
        targets == CASE mode = "single-locality" -> <<root_locality>>
                     [] mode = "all-remote" -> remote
                     [] OTHER -> localities
    IN  [i \in 1..n |-> targets[((i - 1) % Len(targets)) + 1]]

Localities == <<RootLoc>> \o (IF arm \in MultiRemote62 THEN Remotes ELSE SubSeq(Remotes, 1, 1))

Outcomes62 == {"ok", "wrong", "late", "misplaced", "lopsided", "raised"}
LeafRecords(out) ==
    LET fair == build_leaf_assignments(N, Localities, PlacementMode, RootLoc)
    IN  CASE out = "misplaced" -> [fair EXCEPT ![1] = IF PlacementMode = "all-remote" THEN RootLoc ELSE Remotes[1]]
          [] out = "lopsided" -> [i \in 1..N |-> Localities[Len(Localities)]]
          [] OTHER -> fair

\* The witness of a result: the localities its leaves ran on, and how many.
tally_witness(records) == {records[i] : i \in DOMAIN records}
leaves_local(records) == Cardinality({i \in DOMAIN records : records[i] = RootLoc})
leaves_remote(records) == Cardinality({i \in DOMAIN records : records[i] # RootLoc})

evaluate_distribution_gate(mode, records, n) ==
    CASE mode = "single-locality" -> Cardinality(tally_witness(records)) = 1 /\ leaves_local(records) = n
      [] mode = "all-remote" -> leaves_local(records) = 0 /\ leaves_remote(records) = n
      [] mode = "round-robin" -> Cardinality(tally_witness(records)) >= 2
      [] OTHER -> FALSE

\* Threads are known for the localities the driver expected leaves on.
evaluate_threads_cover_fanout(records, known) ==
    tally_witness(records) # {} /\ tally_witness(records) \subseteq known

\* No attestation counts as a good one.
_connector_cpuset_ok(r) == attest[r] = {} \/ "cpuset" \in attest[r]
tcp_nodelay_verified(r) == "nodelay" \in attest[r]
\* The file must say that it served; whether the teardown was clean is not asked.
graceful_disconnect(r) == <<r, "disconnected1">> \in files /\ conn[r] = "served"

multi_remote_gates(records, remote_locs) ==
    LET launched == {r \in Hosts : client[r] # "none"}
        ge2 == Cardinality(remote_locs) >= 2 /\ Cardinality(launched) >= 2
    IN  /\ ge2
        /\ remote_locs \subseteq tally_witness(records)
        /\ \A r \in launched : _connector_cpuset_ok(r) /\ tcp_nodelay_verified(r)
        /\ \A r \in launched : {<<r, "joined1">>, <<r, "served1">>} \subseteq files /\ graceful_disconnect(r)

\* A native composition does not poll, a polled one is not native.
composition_provenance(p) == p.on_hpx_thread /\ p.native = ~p.polled
Provenance(answered) == [on_hpx_thread |-> answered, native |-> FALSE, polled |-> answered]

-----------------------------------------------------------------------------
(* The calls.  Only the last result is kept; a timed-out leaf makes the    *)
(* call, and so the whole loop, last longer than the dispatch timeout.     *)

\* the result of the last timed call, if one returned
Answered == SelectSeq(SubSeq(calls, Prewarm62 + 1, Len(calls)), LAMBDA c : c # "raised")
Timed62 == SubSeq(calls, Prewarm62 + 1, Len(calls))
Last == IF Answered = <<>> THEN "none" ELSE Answered[Len(Answered)]
Elapsed == \A i \in DOMAIN Timed62 : Timed62[i] \notin {"late", "raised"}
LeavesTimedOut == Last \in {"late", "none"}

fanout_calls ==
    /\ At("call")
    /\ \E out \in Outcomes62 :
         /\ out = "lopsided" => arm \in MultiRemote62
         /\ Answer(out)
         /\ IF out = "raised" THEN err' = TRUE /\ Goto("finally")
            ELSE /\ UNCHANGED err
                 /\ IF Len(calls) + 1 = Prewarm62 + K THEN Goto("finally") ELSE UNCHANGED pc

\* The gates of every artifact; known = the localities with a thread count,
\* bounded = the arm has a dispatch timeout the elapsed time is held against.
RecordsOf(last) == IF last = "none" THEN <<>> ELSE LeafRecords(last)
build_arm_artifact(last, error, known, bounded, joined) ==
    LET records == RecordsOf(last)
    IN  [leaves |-> Len(records) = N,
         distribution |-> evaluate_distribution_gate(PlacementMode, records, N),
         threads |-> evaluate_threads_cover_fanout(records, known),
         oracle |-> last \notin {"none", "wrong", "late"},
         in_time |-> bounded,
         no_error |-> ~error,
         join |-> joined,
         cpuset |-> arm \in LocalSmokes62 \cup MultiRemote62 \cup RayArms62
                      \/ _connector_cpuset_ok(Remotes[1])]

Holds(gates) == \A g \in DOMAIN gates : gates[g]
Artifact(gates, more) ==
    [overall |-> IF Holds(gates) /\ more THEN "pass" ELSE "fail", gates |-> gates]

\* Smokes are labelled as dry runs, islands of a band are not.
Labelled(arts, dry) == [i \in DOMAIN arts |-> arts[i] @@ [dry_run |-> dry]]

\* The local smokes have no except clause: an exception leaves no artifact.
_build_local_smoke_artifact ==
    IF err THEN <<>>
    ELSE <<Artifact(build_arm_artifact(Last, FALSE, {RootLoc, Remotes[1]}, TRUE, TRUE),
                    arm = "hpx_local62" => composition_provenance(Provenance(TRUE)))>>

run_hpx_local_smoke == Labelled(_build_local_smoke_artifact, TRUE)

\* _hpx_remote_island: how the connector left is not looked at.
HpxRemoteGates ==
    build_arm_artifact(Last, err, {Remotes[1]}, Elapsed /\ ~LeavesTimedOut, "joined" \in seen)
_hpx_remote_island == <<Artifact(HpxRemoteGates, composition_provenance(Provenance(Last # "none")))>>

RemoteLocs == IF "joined" \in seen THEN Hosts ELSE {}
HpxMultiGates ==
    build_arm_artifact(Last, err, RemoteLocs, Elapsed /\ ~LeavesTimedOut, "joined" \in seen)
_hpx_multi_remote_island ==
    <<Artifact(HpxMultiGates, /\ multi_remote_gates(RecordsOf(Last), RemoteLocs)
                              /\ composition_provenance(Provenance(Last # "none")))>>

run_hpx_remote_smoke == Labelled(_hpx_remote_island, TRUE)
run_hpx_fanout == Labelled(_hpx_remote_island, FALSE)
run_hpx_multi_remote_smoke == Labelled(_hpx_multi_remote_island, TRUE)
run_hpx_multi_remote_fanout == Labelled(_hpx_multi_remote_island, FALSE)

\* No allocation, no second node or no build: nothing is written.
_hpx_remote_preconditions == Precondition(<<>>)

-----------------------------------------------------------------------------
(* The Ray arms.                                                           *)

ray_multi_remote_gates(records, coord_here) ==
    /\ Cardinality(Hosts) >= 2 /\ coord_here
    /\ leaves_local(records) = 0 /\ leaves_remote(records) = N
    /\ Hosts \subseteq tally_witness(records)

RayPrecondition62 ==
    /\ At("pre")
    /\ \E ok \in BOOLEAN : Proceed(IF ok THEN "ray" ELSE "done")
    /\ NoFault /\ UNCHANGED <<calls, seen, art>> /\ SameHpx /\ SameArm

\* The artifact of one island, written at once.
RayIsland(island) ==
    LET timed == SubSeq(island, Prewarm62 + 1, Len(island))
        late == \E i \in DOMAIN island : island[i] = "late"
        got == SelectSeq(timed, LAMBDA c : c # "late")
        last == IF got = <<>> THEN "none" ELSE got[Len(got)]
        gates == build_arm_artifact(last, late, Hosts, ~late, TRUE)
    IN  Artifact(gates, arm = "ray_mr_fanout62" => ray_multi_remote_gates(RecordsOf(last), last # "none"))
          @@ [dry_run |-> FALSE]

\* GetTimeoutError ends the island, which fails, and the next one begins;
\* any other exception ends the invocation.
run_ray_fanout ==
    /\ At("call") /\ arm # "ray_local62"
    /\ \E out \in Outcomes62 :
         /\ out = "lopsided" => arm \in MultiRemote62
         /\ RayOutcome(out) /\ SameHpx /\ SameArm /\ UNCHANGED seen
         /\ LET island == Append(calls, out)
                over == out = "late" \/ Len(island) = Prewarm62 + K
            IN  \/ /\ out = "raised" /\ err' = TRUE /\ Goto("finally")
                   /\ calls' = island /\ UNCHANGED art
                \/ out # "raised" /\ ~over /\ calls' = island /\ UNCHANGED <<pc, err, art>>
                \/ /\ out # "raised" /\ over
                   /\ art' = Append(art, RayIsland(island)) /\ calls' = <<>> /\ UNCHANGED err
                   /\ IF Len(art) + 1 = Islands THEN Goto("finally") ELSE UNCHANGED pc

run_ray_local_smoke ==
    /\ At("call") /\ arm = "ray_local62"
    /\ \E out \in {"ok", "wrong", "raised"} :
         /\ RayAnswer(out)
         /\ IF out = "raised" THEN err' = TRUE /\ Goto("finally")
            ELSE /\ UNCHANGED err
                 /\ IF Len(calls) + 1 = Prewarm62 + K THEN Goto("finally") ELSE UNCHANGED pc

\* The status is the exit code; the islands' files are written already.
RayStatus62 ==
    /\ At("write")
    /\ IF arm = "ray_local62" THEN art' = Labelled(_build_local_smoke_artifact, TRUE) /\ UNCHANGED seen
       ELSE /\ UNCHANGED art
            /\ seen' = IF /\ ~err /\ art # <<>> /\ "no_orphans" \in seen
                          /\ \A i \in DOMAIN art : art[i].overall = "pass"
                       THEN seen \cup {"exit0"} ELSE seen
    /\ Goto("done")
    /\ UNCHANGED <<err, bad, faults, calls>> /\ SameHpx /\ SameArm

-----------------------------------------------------------------------------

\* Each driver, as the steps of its body.
LocalSmoke62 ==
    /\ arm = "hpx_local62"
    /\ \/ Precondition(<<>>) \/ StartRoot \/ Launch \/ Await \/ fanout_calls
       \/ CallHangs({}) \/ Finally({}) \/ Reap \/ StopRoot \/ Write(run_hpx_local_smoke)
RemoteIsland62 ==
    /\ arm \in {"remote_smoke62", "fanout62"}
    /\ \/ _hpx_remote_preconditions \/ StartRoot \/ Launch \/ Await \/ fanout_calls
       \/ Finally({"served1"}) \/ Reap \/ StopRoot
       \/ Write(IF arm = "fanout62" THEN run_hpx_fanout ELSE run_hpx_remote_smoke)
MultiRemoteIsland62 ==
    /\ arm \in {"mr_smoke62", "mr_fanout62"}
    /\ \/ _hpx_remote_preconditions \/ StartRoot \/ Launch \/ Await \/ fanout_calls
       \/ Finally({"served1"}) \/ Reap \/ StopRoot
       \/ Write(IF arm = "mr_fanout62" THEN run_hpx_multi_remote_fanout ELSE run_hpx_multi_remote_smoke)

Hpx62 == LocalSmoke62 \/ RemoteIsland62 \/ MultiRemoteIsland62

RayFanout62 ==
    /\ arm = "ray_fanout62"
    /\ RayPrecondition62 \/ RayStart \/ run_ray_fanout \/ RayFinally \/ RayStatus62
RayMultiRemoteFanout62 ==
    /\ arm = "ray_mr_fanout62"
    /\ RayPrecondition62 \/ RayStart \/ run_ray_fanout \/ RayFinally \/ RayStatus62
Ray62 ==
    \/ RayFanout62 \/ RayMultiRemoteFanout62
    \/ /\ arm = "ray_local62"
       /\ RayPrecondition62 \/ RayStart \/ run_ray_local_smoke \/ CallHangs({}) \/ RayFinally \/ RayStatus62

=============================================================================
