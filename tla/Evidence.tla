------------------------------ MODULE Evidence ------------------------------
(***************************************************************************)
(* The files experiments 61 to 64 exchange.  An arm (a module ExpNN) runs  *)
(* in some Slurm allocation and leaves an artifact; a later invocation     *)
(* pairs the two arms of an island in a manifest, and a last one makes a   *)
(* band of several islands.  Nothing holds between the invocations: any    *)
(* arm can be run again, in another allocation, at any time.  Here an arm  *)
(* is one step that leaves one of the artifacts it may leave.  A section   *)
(* per experiment has the pairing, the manifests and the bands.            *)
(***************************************************************************)
EXTENDS Naturals, Sequences, FiniteSets, TLC

CONSTANTS Islands,      \* island numbers (or job numbers, experiment 64)
          Allocations,  \* Slurm allocations: records [id, nodes], both numbered from 1
          MinR,         \* islands a band needs (5 in the code)
          MaxRuns       \* arms run in one behaviour

ASSUME BandBounds ==
  /\ IsFiniteSet(Islands) /\ Islands \subseteq Nat
  /\ Allocations \subseteq [id : Nat \ {0}, nodes : Nat \ {0}]
  /\ MinR \in Nat \ {0} /\ MaxRuns \in Nat

VARIABLES program,  \* which pipeline is used
          job,      \* the current allocation
          arms,     \* arms["hpx"][i], arms["ray"][i]: the artifact on disk
          manifest, \* the manifest of island i
          band,     \* the last band, with what it was made from
          base,     \* a curated top-level aggregate (experiment 61)
          runs

evVars == <<program, job, arms, manifest, band, base, runs>>

Arms == {"hpx", "ray"}
Nothing == [overall |-> "none", sound |-> FALSE, job |-> 0, nodes |-> 0]
NoBand == [overall |-> "none", used |-> <<>>]
Present(a) == a.overall # "none"

\* sound stands for what the artifact carries besides its verdict: oracle
\* and placement (61), no-delay and CPU set (62), enough calls (64).
\* "fail" is every verdict that is not a pass.
Verdicts == {<<"pass", TRUE>>, <<"pass", FALSE>>, <<"fail", FALSE>>}
Artifact(v) == [overall |-> v[1], sound |-> v[2], job |-> job.id, nodes |-> job.nodes]

EvInit(programs) ==
    /\ program \in programs /\ job \in Allocations
    /\ arms = [a \in Arms |-> [i \in Islands |-> Nothing]]
    /\ manifest = [i \in Islands |-> Nothing]
    /\ band = NoBand /\ base = Nothing /\ runs = 0

\* A new allocation: the files stay.  A band is made from the files alone,
\* so a behaviour ends at its first one.
Reallocate ==
    /\ band = NoBand
    /\ job' \in Allocations \ {job}
    /\ UNCHANGED <<program, arms, manifest, band, base, runs>>

RunArm(a, i, v) ==
    /\ band = NoBand /\ runs < MaxRuns /\ runs' = runs + 1
    /\ arms' = [arms EXCEPT ![a][i] = Artifact(v)]
    /\ UNCHANGED <<program, job, manifest, band, base>>

Manifest(i, m) ==
    /\ band = NoBand
    /\ manifest' = [manifest EXCEPT ![i] = m]
    /\ UNCHANGED <<program, job, arms, band, base, runs>>

\* used is what the band was made from: per island the three files.
Files(i) == [manifest |-> manifest[i], hpx |-> arms["hpx"][i], ray |-> arms["ray"][i]]
Band(overall, used) ==
    /\ band = NoBand
    /\ band' = [overall |-> overall, used |-> used]
    /\ UNCHANGED <<program, job, arms, manifest, base, runs>>

\* All values equal and none missing.
Agree(values) == Cardinality(values) = 1 /\ 0 \notin values

-----------------------------------------------------------------------------
(* Experiment 61: where an arm's artifact is written, the manifest of a    *)
(* matched pair, the band over matched run ids, and the manifest summary.  *)
(* The same-node pipeline uses the same code on other file names.          *)

Pair61 == {"pair61", "same61"}
Top61 == {"top61"}  \* arms without a matched run id

\* Without a matched run id, the artifact goes to the curated top-level file
\* or to a sibling of it: a pass there is never replaced by anything else.
safe_write_top_aggregate(existing, new, allow_overwrite_pass) ==
    IF existing.overall = "pass" /\ (new.overall # "pass" \/ ~allow_overwrite_pass) THEN existing ELSE new

\* The smokes always offer their artifact, the scaffolds only a pass.
_finish(new, allow) == base' = safe_write_top_aggregate(base, new, allow)
_finish_scaffold(new, allow) ==
    IF new.overall = "pass" THEN base' = safe_write_top_aggregate(base, new, allow) ELSE UNCHANGED base

_finish_arm ==
    /\ program \in Top61 /\ runs < MaxRuns /\ runs' = runs + 1
    /\ \E v \in Verdicts, allow \in BOOLEAN :
         _finish(Artifact(v), allow) \/ _finish_scaffold(Artifact(v), allow)
    /\ UNCHANGED <<program, job, arms, manifest, band>>

\* With a matched run id the pair-scoped file is overwritten, whatever it held.
_finish_matched == program = "pair61" /\ \E a \in Arms, i \in Islands, v \in Verdicts : RunArm(a, i, v)
_finish_samenode_arm == program = "same61" /\ \E a \in Arms, i \in Islands, v \in Verdicts : RunArm(a, i, v)

-----------------------------------------------------------------------------

matched_invariants(h, r) ==
    /\ h.overall = "pass" /\ r.overall = "pass"
    /\ h.sound /\ r.sound
    /\ Agree({h.job, r.job}) /\ Agree({h.nodes, r.nodes})

\* The shared values are the HPX arm's at this time.
Matched(i) ==
    LET h == arms["hpx"][i]
        ok == matched_invariants(h, arms["ray"][i])
    IN  [overall |-> IF ok THEN "pass" ELSE "fail", sound |-> ok,
         job |-> IF ok THEN h.job ELSE 0, nodes |-> IF ok THEN h.nodes ELSE 0]
phase_pair_manifest ==
    /\ program = "pair61"
    /\ \E i \in Islands : (\A a \in Arms : Present(arms[a][i])) /\ Manifest(i, Matched(i))
phase_pair_manifest_samenode ==
    /\ program = "same61"
    /\ \E i \in Islands : (\A a \in Arms : Present(arms[a][i])) /\ Manifest(i, Matched(i))

-----------------------------------------------------------------------------
(* The band re-reads the arms but takes what the islands share from the    *)
(* manifests.                                                              *)

_load_band_inputs(ids) == [n \in DOMAIN ids |-> Files(ids[n])]
_checks_all_true(m) == Present(m) /\ m.sound
Canon(f) == IF f.manifest.sound THEN f.manifest
            ELSE IF Present(f.hpx) THEN f.hpx ELSE IF Present(f.ray) THEN f.ray ELSE Nothing
\* Faulty variant: the islands share their nodes, the jobs are not compared.
NodesAgree(fs) == Agree({Canon(fs[n]).nodes : n \in DOMAIN fs})

_cross_island_agreement(fs) ==
    /\ Agree({Canon(fs[n]).job : n \in DOMAIN fs})
    /\ Agree({Canon(fs[n]).nodes : n \in DOMAIN fs})

build_band_aggregate(inputs) ==
    /\ Len(inputs) >= MinR
    /\ \A n \in DOMAIN inputs :
         /\ Present(inputs[n].manifest) /\ Present(inputs[n].hpx) /\ Present(inputs[n].ray)
         /\ inputs[n].manifest.overall = "pass" /\ _checks_all_true(inputs[n].manifest)
         /\ inputs[n].hpx.overall = "pass" /\ inputs[n].ray.overall = "pass"
         /\ inputs[n].hpx.sound /\ inputs[n].ray.sound
    /\ _cross_island_agreement(inputs)

\* The ids are the operator's: one may come twice.
IdLists == {<<i, j>> : i, j \in Islands} \cup {<<i>> : i \in Islands}
Outcome(ok) == IF ok THEN "pass" ELSE "fail"
phase_band_aggregate ==
    /\ program = "pair61"
    /\ \E ids \in IdLists : LET inputs == _load_band_inputs(ids)
                            IN  Band(Outcome(build_band_aggregate(inputs)), inputs)
phase_band_aggregate_samenode ==
    /\ program = "same61"
    /\ \E ids \in IdLists : LET inputs == _load_band_inputs(ids)
                            IN  Band(Outcome(build_band_aggregate(inputs)), inputs)

\* Only the summary, which reads the manifests alone, wants distinct ids.
build_manifest_summary(ids) ==
    /\ \A n \in DOMAIN ids : manifest[ids[n]].overall = "pass" /\ _checks_all_true(manifest[ids[n]])
    /\ Cardinality({ids[n] : n \in DOMAIN ids}) = Len(ids)
    /\ Agree({manifest[ids[n]].job : n \in DOMAIN ids}) /\ Agree({manifest[ids[n]].nodes : n \in DOMAIN ids})

Next61 ==
    \/ _finish_arm \/ _finish_matched \/ _finish_samenode_arm
    \/ phase_pair_manifest \/ phase_pair_manifest_samenode
    \/ phase_band_aggregate \/ phase_band_aggregate_samenode

-----------------------------------------------------------------------------
(* Experiment 62: the files of a band's islands, a manifest per island,    *)
(* and the band, which reads the islands again and not the manifests.      *)
(* Cross-node ("pair62") and multi-remote ("multi62").                     *)

Pair62 == {"pair62", "multi62"}

\* A skip writes nothing; an HPX invocation writes one island, a Ray one all
\* of them in order, as far as it comes.
WriteIsland62 == \E i \in Islands, v \in Verdicts : RunArm("hpx", i, v)
WriteRayIslands62 ==
    /\ band = NoBand /\ runs < MaxRuns /\ runs' = runs + 1
    /\ \E upto \in Islands, v \in Verdicts :
         arms' = [arms EXCEPT !["ray"] = [i \in Islands |-> IF i <= upto THEN Artifact(v) ELSE arms["ray"][i]]]
    /\ UNCHANGED <<program, job, manifest, band, base>>
_write_band_island == program \in Pair62 /\ (WriteIsland62 \/ WriteRayIslands62)

-----------------------------------------------------------------------------

build_pair_manifest(h, r) ==
    /\ h.overall = "pass" /\ r.overall = "pass" /\ h.sound
    /\ Agree({h.nodes, r.nodes})
build_pair_manifest_multi_remote(h, r) ==
    /\ h.overall = "pass" /\ r.overall = "pass" /\ h.sound
    /\ Agree({h.job, r.job}) /\ Agree({h.nodes, r.nodes})

\* An island without one of its files counts as failed, and keeps the
\* manifest it had.
PairAll ==
    /\ band = NoBand
    /\ manifest' = [i \in Islands |->
         LET h == arms["hpx"][i]
             r == arms["ray"][i]
             ok == IF program = "pair62" THEN build_pair_manifest(h, r)
                   ELSE build_pair_manifest_multi_remote(h, r)
         IN  IF ~Present(h) \/ ~Present(r) THEN manifest[i]
             ELSE [overall |-> IF ok THEN "pass" ELSE "fail", sound |-> ok, job |-> h.job, nodes |-> h.nodes]]
    /\ UNCHANGED <<program, job, arms, band, base, runs>>
phase_pair_manifest_fanout == program = "pair62" /\ PairAll
phase_pair_manifest_multi_remote == program = "multi62" /\ PairAll

-----------------------------------------------------------------------------

IslandsOf(a) == {i \in Islands : Present(arms[a][i])}
_cross_island_agreement62 == Agree({arms[a][i].nodes : a \in Arms, i \in Islands} \ {0})
_cross_island_agreement_multi == Agree({arms[a][i].nodes : a \in Arms, i \in Islands} \ {0})

\* The band of one arm.
arm_band_aggregate(a) ==
    /\ Cardinality(IslandsOf(a)) >= MinR
    /\ \A i \in IslandsOf(a) : arms[a][i].overall = "pass"

build_fanout_band_aggregate ==
    /\ arm_band_aggregate("hpx") /\ arm_band_aggregate("ray")
    /\ \A i \in IslandsOf("hpx") : arms["hpx"][i].sound
    /\ _cross_island_agreement62
build_fanout_band_aggregate_multi_remote ==
    /\ arm_band_aggregate("hpx") /\ arm_band_aggregate("ray")
    /\ \A i \in IslandsOf("hpx") : arms["hpx"][i].sound
    /\ _cross_island_agreement_multi

\* the islands a band was made from
Used62 == [i \in Islands |-> Files(i)]
phase_band_aggregate_fanout ==
    program = "pair62" /\ Band(IF build_fanout_band_aggregate THEN "pass" ELSE "fail", Used62)
phase_band_aggregate_multi_remote ==
    program = "multi62" /\ Band(IF build_fanout_band_aggregate_multi_remote THEN "pass" ELSE "fail", Used62)

Next62 ==
    \/ _write_band_island
    \/ phase_pair_manifest_fanout \/ phase_pair_manifest_multi_remote
    \/ phase_band_aggregate_fanout \/ phase_band_aggregate_multi_remote

-----------------------------------------------------------------------------
(* Experiments 63 and 64.  Files carry the number of the job that wrote    *)
(* them.  63, the sweep: every configuration in a process of its own, then *)
(* an aggregate of the artifacts found under the job's name.  A process    *)
(* that writes none leaves what an earlier sweep of the job wrote.  Island *)
(* 1 is the poll control, the others are native; the artifacts are kept as *)
(* the "hpx" arm's.  64, the ladder: the manifest of a job, its validator, *)
(* and the band over the jobs whose manifest names the band.               *)

Pair63 == {"sweep63"}
Control == 1
Native63 == Islands \ {Control}

\* The artifact of one configuration, if its process came that far: passing
\* is "control_pass" for the control, "native_progress_pass" for a native.
run_progress_diagnosis ==
    /\ program \in Pair63
    /\ \E i \in Islands, v \in Verdicts : RunArm("hpx", i, v)

\* The files carry the job's number, so only this job's are found.
Found == {i \in Islands : Present(arms["hpx"][i]) /\ arms["hpx"][i].job = job.id}
Capable == {i \in Found \cap Native63 : arms["hpx"][i].overall = "pass"}

\* A stalled native configuration has spent one call.
stall_short_circuit(native, first_late, k) == IF native /\ first_late THEN 1 ELSE k

build_progress_sweep_aggregate(arts) ==
    [overall |-> IF Control \in arts /\ arms["hpx"][Control].overall = "pass" THEN "pass" ELSE "fail",
     winning |-> IF Capable = {} THEN 0 ELSE CHOOSE i \in Capable : \A j \in Capable : i <= j,
     phase_b |-> arts \cap Native63 # {} /\ Capable = {},
     tree |-> Capable = {}]

\* No artifact at all writes no aggregate.
run_progress_sweep ==
    /\ program \in Pair63 /\ Found # {}
    /\ LET agg == build_progress_sweep_aggregate(Found)
       IN  Band(agg.overall, <<agg, [found |-> Found, job |-> job.id,
                                    jobs |-> {arms["hpx"][i].job : i \in Found},
                                    passed |-> {i \in Found : arms["hpx"][i].overall = "pass"}]>>)

Next63 == run_progress_diagnosis \/ run_progress_sweep

-----------------------------------------------------------------------------
Pair64 == {"pair64"}

\* An arm in the current job; a run that fails before its first size writes
\* nothing.
RunSmoke64 ==
    /\ program \in Pair64 /\ job.id \in Islands
    /\ \E a \in Arms, v \in Verdicts : RunArm(a, job.id, v)

-----------------------------------------------------------------------------
(* A passing artifact is all-remote, balanced and clean; sound says that   *)
(* it holds as many calls as were asked for.                               *)

_index_by_size(a, j) == arms[a][j]
_manifest_correlation_gates(h, r, j) ==
    /\ Agree({h.job, r.job, j}) /\ Agree({h.nodes, r.nodes})
    /\ h.overall = "pass" /\ r.overall = "pass"
    /\ h.sound /\ r.sound

build_payload_ladder_manifest(j) ==
    LET h == _index_by_size("hpx", j)
        r == _index_by_size("ray", j)
        ok == _manifest_correlation_gates(h, r, j)
    IN  [overall |-> IF ok THEN "pass" ELSE "fail", sound |-> ok, job |-> j, nodes |-> h.nodes]

\* The validator: what the manifest claims follows from its gates.  Its
\* answer is written into the manifest.
validate_payload_ladder_manifest(m, gates) == (m.overall = "pass" \/ m.sound) => gates

run_payload_ladder_manifest ==
    /\ program \in Pair64
    /\ \E j \in Islands :
         /\ \A a \in Arms : Present(_index_by_size(a, j))
         /\ LET m == build_payload_ladder_manifest(j)
                gates == _manifest_correlation_gates(_index_by_size("hpx", j), _index_by_size("ray", j), j)
            IN  Manifest(j, [m EXCEPT !.sound = @ /\ validate_payload_ladder_manifest(m, gates)])

-----------------------------------------------------------------------------
(* The band believes the manifests; of the arms it reads again it only     *)
(* looks at their presence, their calls and their expected digests.        *)

_island_quality(f) ==
    /\ f.manifest.overall = "pass" /\ f.manifest.sound
    /\ Present(f.hpx) /\ Present(f.ray)
    /\ f.hpx.sound /\ f.ray.sound

_band_gates(islands) ==
    /\ Len(islands) >= MinR
    /\ \A n \in DOMAIN islands : islands[n].manifest.overall = "pass" /\ islands[n].manifest.sound
    /\ \A n \in DOMAIN islands : _island_quality(islands[n])

build_payload_band_aggregate(islands) ==
    [overall |-> IF _band_gates(islands) THEN "pass" ELSE "fail",
     grade |-> IF _band_gates(islands) THEN "matched_band_r5" ELSE "band_failed_closed"]
validate_payload_band_aggregate(b, gates) ==
    /\ b.overall = "pass" => gates
    /\ gates = (b.grade = "matched_band_r5")

\* Every manifest with the band's id, once; the order of the files' names does
\* not matter to what follows.
ManifestIslands ==
    LET found == {j \in Islands : Present(manifest[j])}
    IN  CHOOSE s \in [1..Cardinality(found) -> found] : \A j \in found : \E n \in DOMAIN s : s[n] = j
run_payload_band_aggregate ==
    /\ program \in Pair64 /\ ManifestIslands # <<>>
    /\ LET islands == [n \in DOMAIN ManifestIslands |-> Files(ManifestIslands[n])]
           b == build_payload_band_aggregate(islands)
           valid == validate_payload_band_aggregate(b, _band_gates(islands))
       IN  Band(IF valid THEN b.overall ELSE "fail", islands)

Next64 == RunSmoke64 \/ run_payload_ladder_manifest \/ run_payload_band_aggregate

-----------------------------------------------------------------------------
Programs == Pair61 \cup Top61 \cup Pair62 \cup Pair63 \cup Pair64

Init == EvInit(Programs)
Next == Reallocate \/ Next61 \/ Next62 \/ Next63 \/ Next64
Spec == Init /\ [][Next]_evVars

-----------------------------------------------------------------------------

Sound(a) == a.overall = "pass" /\ a.sound

\* What an accepted band rests on, whatever was run again and wherever between
\* the arms, the manifests and the band.
\* 61: enough islands, each with passing sound arms and a passing manifest,
\* and manifests of one allocation on one node pair.
Rests61(used) ==
    /\ Len(used) >= MinR
    /\ \A n \in DOMAIN used : Sound(used[n].manifest) /\ Sound(used[n].hpx) /\ Sound(used[n].ray)
    /\ Cardinality({used[n].manifest.job : n \in DOMAIN used}) = 1
    /\ Cardinality({used[n].manifest.nodes : n \in DOMAIN used}) = 1

\* 62: every island there is passed, enough of them in both arms, and all of
\* them ran on one node pair.
Rests62(used) ==
    /\ \A n \in DOMAIN used, a \in Arms :
         Present(used[n][a]) => used[n][a].overall = "pass" /\ (a = "hpx" => Sound(used[n][a]))
    /\ \A a \in Arms : Cardinality({n \in DOMAIN used : Present(used[n][a])}) >= MinR
    /\ \A m, n \in DOMAIN used : \A a, b \in Arms :
         Present(used[m][a]) /\ Present(used[n][b]) => used[m][a].nodes = used[n][b].nodes

\* 63: a control that passed in the sweep's own job, no artifact of another
\* job, and a native winner exactly when a tree is not recommended.
Rests63(used) ==
    /\ Control \in used[2].passed
    /\ used[2].jobs = {used[2].job}
    /\ used[1].tree <=> used[2].passed = {Control}
    /\ used[1].phase_b => used[1].tree
    /\ ~used[1].tree => used[1].winning \in used[2].passed

\* 64: enough islands whose manifests passed on two arms of one job, each
\* island of a job of its own.
Rests64(used) ==
    /\ Len(used) >= MinR
    /\ \A n \in DOMAIN used : /\ Sound(used[n].manifest)
                              /\ used[n].hpx.job = used[n].manifest.job
                              /\ used[n].ray.job = used[n].manifest.job
    /\ \A m, n \in DOMAIN used : used[m].manifest.job = used[n].manifest.job => m = n

\* A band that passes claims no more than its files show (build_band_aggregate,
\* build_fanout_band_aggregate, build_progress_sweep_aggregate, _band_gates).
BandRests ==
    band.overall = "pass" =>
        /\ program \in Pair61 => Rests61(band.used)
        /\ program \in Pair62 => Rests62(band.used)
        /\ program \in Pair63 => Rests63(band.used)
        /\ program \in Pair64 => Rests64(band.used)
=============================================================================
