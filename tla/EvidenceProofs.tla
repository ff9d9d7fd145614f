--------------------------- MODULE EvidenceProofs ---------------------------
(***************************************************************************)
(* Proofs about Evidence, for any islands, allocations and number of runs: *)
(* what a band that passes rests on, in each of the four experiments.      *)
(***************************************************************************)
EXTENDS Evidence, FiniteSetTheorems, WellFoundedInduction, TLAPS

Files0 == [overall : {"none", "pass", "fail"}, sound : BOOLEAN, job : Nat, nodes : Nat]

\* An artifact names the nodes it was made on.
Located(a) == Present(a) => a.nodes # 0

\* The files of experiment 64 carry the number of the job that wrote them.
OwnJob(j) ==
    /\ \A a \in Arms : Present(arms[a][j]) => arms[a][j].job = j
    /\ Present(manifest[j]) => manifest[j].job = j

EvidenceInv ==
    /\ program \in Programs /\ job \in Allocations
    /\ arms \in [Arms -> [Islands -> Files0]]
    /\ manifest \in [Islands -> Files0]
    /\ \A a \in Arms : \A i \in Islands : Located(arms[a][i])
    /\ program \in Pair64 => \A j \in Islands : OwnJob(j)
    /\ BandRests

-----------------------------------------------------------------------------
(* What an arm or a pairing writes.                                        *)

\* An arm's artifact is of the current allocation.
LEMMA ArtifactFacts ==
  ASSUME job \in Allocations, NEW v \in Verdicts
  PROVE  /\ Artifact(v) \in Files0 /\ Located(Artifact(v))
         /\ Artifact(v).job = job.id
<1>1. job \in [id : Nat \ {0}, nodes : Nat \ {0}]
  BY BandBounds
<1>2. job.id \in Nat /\ job.nodes \in Nat /\ job.nodes # 0
  BY <1>1
<1>3. v[1] \in {"pass", "fail"} /\ v[2] \in BOOLEAN
  <2>1. v = <<"pass", TRUE>> \/ v = <<"pass", FALSE>> \/ v = <<"fail", FALSE>>
    BY DEF Verdicts
  <2>2. <<"pass", TRUE>>[1] \in {"pass", "fail"} /\ <<"pass", TRUE>>[2] \in BOOLEAN
    OBVIOUS
  <2>3. <<"pass", FALSE>>[1] \in {"pass", "fail"} /\ <<"pass", FALSE>>[2] \in BOOLEAN
    OBVIOUS
  <2>4. <<"fail", FALSE>>[1] \in {"pass", "fail"} /\ <<"fail", FALSE>>[2] \in BOOLEAN
    OBVIOUS
  <2> QED BY <2>1, <2>2, <2>3, <2>4, Zenon
<1> QED BY <1>2, <1>3 DEF Artifact, Files0, Located, Present

\* One more run of an arm.
LEMMA RunArmKeeps ==
  ASSUME EvidenceInv, NEW a \in Arms, NEW i \in Islands, NEW v \in Verdicts, RunArm(a, i, v),
         program \in Pair64 => i = job.id
  PROVE  EvidenceInv'
<1>1. /\ arms' = [arms EXCEPT ![a][i] = Artifact(v)]
      /\ UNCHANGED <<program, job, manifest, band>>
  BY DEF RunArm
<1>2. /\ Artifact(v) \in Files0 /\ Located(Artifact(v)) /\ Artifact(v).job = job.id
  BY ArtifactFacts DEF EvidenceInv
<1>3. arms' \in [Arms -> [Islands -> Files0]]
  BY <1>1, <1>2 DEF EvidenceInv
<1>4. \A b \in Arms, j \in Islands :
        arms'[b][j] = IF b = a /\ j = i THEN Artifact(v) ELSE arms[b][j]
  BY <1>1 DEF EvidenceInv
<1>5. \A b \in Arms : \A j \in Islands : Located(arms'[b][j])
  BY <1>2, <1>4 DEF EvidenceInv
<1>6. program' \in Pair64 => \A j \in Islands : OwnJob(j)'
  <2> SUFFICES ASSUME program \in Pair64, NEW j \in Islands PROVE OwnJob(j)'
    BY <1>1
  <2>1. OwnJob(j) /\ i = job.id
    BY DEF EvidenceInv
  <2>2. \A b \in Arms : Present(arms'[b][j]) => arms'[b][j].job = j
    BY <2>1, <1>2, <1>4 DEF OwnJob
  <2> QED BY <2>1, <2>2, <1>1 DEF OwnJob
<1>7. BandRests'
  BY <1>1 DEF EvidenceInv, BandRests
<1> QED BY <1>1, <1>3, <1>5, <1>6, <1>7 DEF EvidenceInv

\* A new manifest, of the island's own job in experiment 64.
LEMMA ManifestKeeps ==
  ASSUME EvidenceInv, NEW i \in Islands, NEW m \in Files0, Manifest(i, m),
         program \in Pair64 => m.job = i
  PROVE  EvidenceInv'
<1>1. /\ manifest' = [manifest EXCEPT ![i] = m]
      /\ UNCHANGED <<program, job, arms, band>>
  BY DEF Manifest
<1>2. manifest' \in [Islands -> Files0]
  BY <1>1 DEF EvidenceInv
<1>3. program' \in Pair64 => \A j \in Islands : OwnJob(j)'
  BY <1>1 DEF EvidenceInv, OwnJob
<1>4. BandRests'
  BY <1>1 DEF EvidenceInv, BandRests
<1> QED BY <1>1, <1>2, <1>3, <1>4 DEF EvidenceInv

\* The band itself changes no file.
LEMMA BandKeeps ==
  ASSUME EvidenceInv, NEW overall, NEW used, Band(overall, used),
         overall = "pass" =>
           /\ program \in Pair61 => Rests61(used)
           /\ program \in Pair62 => Rests62(used)
           /\ program \in Pair63 => Rests63(used)
           /\ program \in Pair64 => Rests64(used)
  PROVE  EvidenceInv'
<1>1. /\ band' = [overall |-> overall, used |-> used]
      /\ UNCHANGED <<program, job, arms, manifest>>
  BY DEF Band
<1>2. band'.overall = overall /\ band'.used = used
  BY <1>1
<1>3. BandRests'
  BY <1>1, <1>2 DEF BandRests
<1> QED BY <1>1, <1>3 DEF EvidenceInv, OwnJob

-----------------------------------------------------------------------------
(* Experiment 61.                                                          *)

\* Two islands with sound manifests, whose canon the manifests are.
LEMMA Band61 ==
  ASSUME EvidenceInv, NEW ids \in IdLists, build_band_aggregate(_load_band_inputs(ids))
  PROVE  Rests61(_load_band_inputs(ids))
<1> DEFINE fs == _load_band_inputs(ids)
<1>1. DOMAIN fs = DOMAIN ids /\ \A n \in DOMAIN fs : fs[n] = Files(ids[n])
  BY DEF _load_band_inputs
<1>2. \A n \in DOMAIN fs : /\ fs[n].manifest.overall = "pass" /\ fs[n].manifest.sound
                           /\ fs[n].hpx.overall = "pass" /\ fs[n].ray.overall = "pass"
                           /\ fs[n].hpx.sound /\ fs[n].ray.sound
  BY DEF build_band_aggregate, _checks_all_true
<1>3. \A n \in DOMAIN fs : Canon(fs[n]) = fs[n].manifest
  BY <1>2 DEF Canon
<1>4. /\ {Canon(fs[n]).job : n \in DOMAIN fs} = {fs[n].manifest.job : n \in DOMAIN fs}
      /\ {Canon(fs[n]).nodes : n \in DOMAIN fs} = {fs[n].manifest.nodes : n \in DOMAIN fs}
  BY <1>3
<1>5. /\ Cardinality({Canon(fs[n]).job : n \in DOMAIN fs}) = 1
      /\ Cardinality({Canon(fs[n]).nodes : n \in DOMAIN fs}) = 1
  BY DEF build_band_aggregate, _cross_island_agreement, Agree
<1>6. Len(fs) >= MinR
  BY DEF build_band_aggregate
<1> HIDE DEF fs
<1> QED BY <1>2, <1>4, <1>5, <1>6 DEF Rests61, Sound, fs

\* An arm, a manifest or a band of experiment 61.
LEMMA Step61 == ASSUME EvidenceInv, Next61 PROVE EvidenceInv'
<1>1. ASSUME _finish_arm PROVE EvidenceInv'
  BY <1>1 DEF _finish_arm, EvidenceInv, OwnJob, BandRests
<1>2. ASSUME NEW a \in Arms, NEW i \in Islands, NEW v \in Verdicts, RunArm(a, i, v),
             program \in Pair61
      PROVE  EvidenceInv'
  BY <1>2, RunArmKeeps DEF Pair61, Pair64
<1>3. ASSUME NEW i \in Islands, Manifest(i, Matched(i)), program \in Pair61
      PROVE  EvidenceInv'
  <2>1. arms["hpx"][i] \in Files0
    BY DEF EvidenceInv, Arms
  <2>2. Matched(i).sound \in BOOLEAN /\ Matched(i) \in Files0
    BY <2>1 DEF Matched, matched_invariants, Files0
  <2> QED BY <1>3, <2>2, ManifestKeeps DEF Pair61, Pair64
<1>4. ASSUME NEW ids \in IdLists, program \in Pair61,
             Band(Outcome(build_band_aggregate(_load_band_inputs(ids))), _load_band_inputs(ids))
      PROVE  EvidenceInv'
  <2>1. Outcome(build_band_aggregate(_load_band_inputs(ids))) = "pass" => Rests61(_load_band_inputs(ids))
    BY Band61 DEF Outcome
  <2> QED BY <1>4, <2>1, BandKeeps DEF Pair61, Pair62, Pair63, Pair64
<1> QED BY <1>1, <1>2, <1>3, <1>4
        DEF Next61, _finish_matched, _finish_samenode_arm, phase_pair_manifest,
            phase_pair_manifest_samenode, phase_band_aggregate, phase_band_aggregate_samenode, Pair61

-----------------------------------------------------------------------------
(* Experiment 62.                                                          *)

\* The nodes of all artifacts that are there are the same.
LEMMA OneNodePair ==
  ASSUME EvidenceInv, Agree({arms[a][i].nodes : a \in Arms, i \in Islands} \ {0})
  PROVE  \A m, n \in Islands : \A a, b \in Arms :
           Present(arms[a][m]) /\ Present(arms[b][n]) => arms[a][m].nodes = arms[b][n].nodes
<1> DEFINE P == Arms \X Islands
           f == [p \in P |-> arms[p[1]][p[2]].nodes]
           T == {arms[a][i].nodes : a \in Arms, i \in Islands}
<1>1. IsFiniteSet(Arms) /\ IsFiniteSet(Islands)
  <2>1. IsFiniteSet({"hpx"})
    BY FS_Singleton
  <2>2. IsFiniteSet({"hpx"} \cup {"ray"})
    BY <2>1, FS_AddElement
  <2>3. Arms = {"hpx"} \cup {"ray"}
    BY DEF Arms
  <2> QED BY <2>2, <2>3, BandBounds
<1>2. IsFiniteSet(P)
  <2> HIDE DEF P
  <2> QED BY <1>1, FS_Product DEF P
<1>3. f \in Surjection(P, T)
  <2>1. f \in [P -> T]
    <3>1. \A p \in P : arms[p[1]][p[2]].nodes \in T
      OBVIOUS
    <3> HIDE DEF P, T
    <3> QED BY <3>1
  <2>2. ASSUME NEW t \in T PROVE \E p \in P : f[p] = t
    <3>1. PICK a \in Arms, i \in Islands : t = arms[a][i].nodes
      OBVIOUS
    <3>2. <<a, i>> \in P /\ f[<<a, i>>] = t
      BY <3>1
    <3> QED BY <3>2
  <2> HIDE DEF f, P, T
  <2> QED BY <2>1, <2>2 DEF Surjection
<1>4. IsFiniteSet(T)
  <2> HIDE DEF f, P, T
  <2> QED BY <1>2, <1>3, FS_Surjection
<1>5. IsFiniteSet(T \ {0}) /\ Cardinality(T \ {0}) = 1
  <2>1. IsFiniteSet(T \ {0})
    BY <1>4, FS_RemoveElement
  <2> QED BY <2>1 DEF Agree
<1>7. PICK x : T \ {0} = {x}
  <2> HIDE DEF f, P, T
  <2> QED BY <1>5, FS_Singleton
<1>6. \A a \in Arms, i \in Islands : Present(arms[a][i]) => arms[a][i].nodes \in T \ {0}
  BY DEF EvidenceInv, Located
<1> HIDE DEF T
<1> QED BY <1>7, <1>6

\* The band looks at the islands themselves.
LEMMA Band62 ==
  ASSUME EvidenceInv,
         build_fanout_band_aggregate \/ build_fanout_band_aggregate_multi_remote
  PROVE  Rests62(Used62)
<1>1. /\ \A a \in Arms : arm_band_aggregate(a)
      /\ \A i \in IslandsOf("hpx") : arms["hpx"][i].sound
      /\ Agree({arms[a][i].nodes : a \in Arms, i \in Islands} \ {0})
  BY DEF build_fanout_band_aggregate, build_fanout_band_aggregate_multi_remote, Arms,
         _cross_island_agreement62, _cross_island_agreement_multi
<1>2. /\ DOMAIN Used62 = Islands
      /\ \A n \in Islands : \A a \in Arms : Used62[n][a] = arms[a][n]
  BY DEF Used62, Files, Arms
<1>3. ASSUME NEW n \in Islands, NEW a \in Arms, Present(arms[a][n])
      PROVE  arms[a][n].overall = "pass" /\ (a = "hpx" => Sound(arms[a][n]))
  <2>1. n \in IslandsOf(a)
    BY <1>3 DEF IslandsOf
  <2> QED BY <1>1, <2>1 DEF arm_band_aggregate, Sound
<1>4. ASSUME NEW a \in Arms
      PROVE  Cardinality({n \in Islands : Present(Used62[n][a])}) >= MinR
  <2>1. {n \in Islands : Present(Used62[n][a])} = IslandsOf(a)
    BY <1>2 DEF IslandsOf
  <2>2. Cardinality(IslandsOf(a)) >= MinR
    BY <1>1 DEF arm_band_aggregate
  <2> QED BY <2>1, <2>2
<1>5. \A m, n \in Islands : \A a, b \in Arms :
        Present(Used62[m][a]) /\ Present(Used62[n][b]) => Used62[m][a].nodes = Used62[n][b].nodes
  BY <1>1, <1>2, OneNodePair
<1> QED BY <1>2, <1>3, <1>4, <1>5 DEF Rests62

\* The islands, manifests or a band of experiment 62.
LEMMA Step62 == ASSUME EvidenceInv, Next62 PROVE EvidenceInv'
<1>1. ASSUME program \in Pair62, NEW i \in Islands, NEW v \in Verdicts, RunArm("hpx", i, v)
      PROVE  EvidenceInv'
  BY <1>1, RunArmKeeps DEF Pair62, Pair64, Arms
<1>2. ASSUME program \in Pair62, WriteRayIslands62 PROVE EvidenceInv'
  <2>1. PICK upto \in Islands, v \in Verdicts :
          arms' = [arms EXCEPT !["ray"] =
                     [i \in Islands |-> IF i <= upto THEN Artifact(v) ELSE arms["ray"][i]]]
    BY <1>2 DEF WriteRayIslands62
  <2>2. Artifact(v) \in Files0 /\ Located(Artifact(v))
    BY ArtifactFacts DEF EvidenceInv
  <2>3. \A a \in Arms : \A i \in Islands : arms'[a][i] \in {arms[a][i], Artifact(v)}
    BY <2>1 DEF EvidenceInv
  <2>4. arms' \in [Arms -> [Islands -> Files0]]
    <3>1. [i \in Islands |-> IF i <= upto THEN Artifact(v) ELSE arms["ray"][i]] \in [Islands -> Files0]
      BY <2>2 DEF EvidenceInv, Arms
    <3> QED BY <2>1, <3>1 DEF EvidenceInv
  <2>5. \A a \in Arms : \A i \in Islands : Located(arms'[a][i])
    BY <2>2, <2>3 DEF EvidenceInv
  <2>6. UNCHANGED <<program, job, manifest, band>>
    BY <1>2 DEF WriteRayIslands62
  <2>7. BandRests' /\ program' \notin Pair64
    BY <1>2, <2>6 DEF EvidenceInv, BandRests, Pair62, Pair64
  <2> QED BY <2>4, <2>5, <2>6, <2>7 DEF EvidenceInv
<1>3. ASSUME program \in Pair62, PairAll PROVE EvidenceInv'
  <2>1. UNCHANGED <<program, job, arms, band>>
    BY <1>3 DEF PairAll
  <2>2. manifest' \in [Islands -> Files0]
    <3>1. \A i \in Islands : arms["hpx"][i] \in Files0 /\ manifest[i] \in Files0
      BY DEF EvidenceInv, Arms
    <3> QED BY <1>3, <3>1 DEF PairAll, Files0, build_pair_manifest, build_pair_manifest_multi_remote
  <2>3. BandRests' /\ program' \notin Pair64
    BY <1>3, <2>1 DEF EvidenceInv, BandRests, Pair62, Pair64
  <2> QED BY <2>1, <2>2, <2>3 DEF EvidenceInv
<1>4. ASSUME program \in Pair62,
             \/ Band(IF build_fanout_band_aggregate THEN "pass" ELSE "fail", Used62)
             \/ Band(IF build_fanout_band_aggregate_multi_remote THEN "pass" ELSE "fail", Used62)
      PROVE  EvidenceInv'
  <2>1. /\ (IF build_fanout_band_aggregate THEN "pass" ELSE "fail") = "pass" => Rests62(Used62)
        /\ (IF build_fanout_band_aggregate_multi_remote THEN "pass" ELSE "fail") = "pass" => Rests62(Used62)
    BY Band62
  <2> QED BY <1>4, <2>1, BandKeeps DEF Pair61, Pair62, Pair63, Pair64
<1> QED BY <1>1, <1>2, <1>3, <1>4
        DEF Next62, _write_band_island, WriteIsland62, phase_pair_manifest_fanout,
            phase_pair_manifest_multi_remote, phase_band_aggregate_fanout,
            phase_band_aggregate_multi_remote, Pair62

-----------------------------------------------------------------------------
(* Experiment 63.                                                          *)

\* A set of naturals that is not empty has a least element.
LEMMA LeastOf ==
  ASSUME NEW S \in SUBSET Nat, S # {}
  PROVE  \E m \in S : \A n \in S : m <= n
<1>1. PICK m \in S : \A n \in S : <<n, m>> \notin OpToRel(<, Nat)
  BY NatLessThanWellFounded, WFMin
<1>2. \A n \in S : ~(n < m)
  BY <1>1 DEF OpToRel
<1> QED BY <1>2

\* The aggregate is about the artifacts that carry the job's own number.
LEMMA Band63 ==
  ASSUME EvidenceInv, Found # {}, NEW agg, NEW rest,
         agg = build_progress_sweep_aggregate(Found),
         rest = [found |-> Found, job |-> job.id, jobs |-> {arms["hpx"][i].job : i \in Found},
                 passed |-> {i \in Found : arms["hpx"][i].overall = "pass"}],
         agg.overall = "pass"
  PROVE  Rests63(<<agg, rest>>)
<1> DEFINE passed == {i \in Found : arms["hpx"][i].overall = "pass"}
           used == <<agg, rest>>
<1>1. used[1] = agg /\ used[2] = rest /\ rest.passed = passed /\ rest.job = job.id
      /\ rest.jobs = {arms["hpx"][i].job : i \in Found}
  OBVIOUS
<1>2. /\ agg.winning = (IF Capable = {} THEN 0 ELSE CHOOSE i \in Capable : \A j \in Capable : i <= j)
      /\ agg.phase_b <=> Found \cap Native63 # {} /\ Capable = {}
      /\ agg.tree <=> Capable = {}
      /\ agg.overall = (IF Control \in Found /\ arms["hpx"][Control].overall = "pass" THEN "pass" ELSE "fail")
  BY DEF build_progress_sweep_aggregate
<1>3. Control \in passed
  BY <1>2
<1>4. {arms["hpx"][i].job : i \in Found} = {job.id}
  BY DEF Found
<1>5. Found \subseteq Islands /\ Capable = passed \ {Control}
  BY DEF Found, Capable, Native63
<1>6. Capable # {} => agg.winning \in passed
  <2> SUFFICES ASSUME Capable # {} PROVE agg.winning \in passed
    OBVIOUS
  <2>1. Capable \in SUBSET Nat
    BY <1>5, BandBounds
  <2>2. \E i \in Capable : \A j \in Capable : i <= j
    BY <2>1, LeastOf
  <2> QED BY <1>2, <1>5, <2>2
<1>7. Capable = {} <=> passed = {Control}
  BY <1>3, <1>5
<1> HIDE DEF passed, used
<1> QED BY <1>1, <1>2, <1>3, <1>4, <1>6, <1>7 DEF Rests63, used

\* An artifact or the aggregate of a sweep.
LEMMA Step63 == ASSUME EvidenceInv, Next63 PROVE EvidenceInv'
<1>1. ASSUME run_progress_diagnosis PROVE EvidenceInv'
  BY <1>1, RunArmKeeps DEF run_progress_diagnosis, Pair63, Pair64, Arms
<1>2. ASSUME run_progress_sweep PROVE EvidenceInv'
  <2> DEFINE agg == build_progress_sweep_aggregate(Found)
             rest == [found |-> Found, job |-> job.id, jobs |-> {arms["hpx"][i].job : i \in Found},
                      passed |-> {i \in Found : arms["hpx"][i].overall = "pass"}]
  <2>1. program \in Pair63 /\ Found # {} /\ Band(agg.overall, <<agg, rest>>)
    BY <1>2 DEF run_progress_sweep
  <2>2. agg.overall = "pass" => Rests63(<<agg, rest>>)
    BY <2>1, Band63
  <2> HIDE DEF agg, rest
  <2> QED BY <2>1, <2>2, BandKeeps DEF Pair61, Pair62, Pair63, Pair64
<1> QED BY <1>1, <1>2 DEF Next63

-----------------------------------------------------------------------------
(* Experiment 64.                                                          *)

\* The band's islands are those with a manifest, each of them once.
LEMMA EachManifestOnce ==
  /\ ManifestIslands \in Seq(Islands)
  /\ \A n \in DOMAIN ManifestIslands : Present(manifest[ManifestIslands[n]])
  /\ \A m, n \in DOMAIN ManifestIslands : ManifestIslands[m] = ManifestIslands[n] => m = n
<1> DEFINE found == {j \in Islands : Present(manifest[j])}
           D == 1..Cardinality(found)
           s == ManifestIslands
<1>1. IsFiniteSet(found)
  BY BandBounds, FS_Subset
<1>2. Cardinality(found) \in Nat /\ ExistsBijection(D, found)
  BY <1>1, FS_CardinalityType
<1>3. PICK b \in Bijection(D, found) : TRUE
  BY <1>2 DEF ExistsBijection
<1>4. b \in [D -> found] /\ \A j \in found : \E n \in DOMAIN b : b[n] = j
  BY <1>3 DEF Bijection, Surjection, Injection
<1>5. s = CHOOSE t \in [D -> found] : \A j \in found : \E n \in DOMAIN t : t[n] = j
  BY DEF ManifestIslands
<1>6. s \in [D -> found] /\ \A j \in found : \E n \in DOMAIN s : s[n] = j
  BY <1>4, <1>5
<1>7. s \in Surjection(D, found)
  BY <1>6 DEF Surjection
<1>8. IsFiniteSet(D) /\ Cardinality(D) = Cardinality(found)
  BY <1>2, FS_Interval
<1>9. s \in Injection(D, found)
  BY <1>7, <1>8, FS_Surjection
<1>10. s \in [D -> Islands] /\ DOMAIN s = D
  <2> HIDE DEF s, D
  <2> QED BY <1>6
<1>11. s \in Seq(Islands)
  <2> DEFINE k == Cardinality(found)
  <2> HIDE DEF s, k
  <2>1. s \in [1..k -> Islands] /\ k \in Nat
    BY <1>10, <1>2 DEF k
  <2> QED BY <2>1
<1>12. \A n \in D : s[n] \in found
  <2> HIDE DEF s, D, found
  <2> QED BY <1>6
<1>13. \A m, n \in D : s[m] = s[n] => m = n
  <2> HIDE DEF s, D, found
  <2> QED BY <1>9 DEF Injection, IsInjective
<1> QED BY <1>10, <1>11, <1>12, <1>13

\* Every manifest and both arms of an island are of the island's own job.
LEMMA Band64 ==
  ASSUME EvidenceInv, program \in Pair64, NEW islands,
         islands = [n \in DOMAIN ManifestIslands |-> Files(ManifestIslands[n])],
         _band_gates(islands)
  PROVE  Rests64(islands)
<1>1. DOMAIN islands = DOMAIN ManifestIslands
  OBVIOUS
<1>2. ASSUME NEW n \in DOMAIN islands
      PROVE  /\ Sound(islands[n].manifest)
             /\ islands[n].manifest.job = ManifestIslands[n]
             /\ islands[n].hpx.job = ManifestIslands[n] /\ islands[n].ray.job = ManifestIslands[n]
  <2>1. ManifestIslands[n] \in Islands /\ Present(manifest[ManifestIslands[n]])
    BY EachManifestOnce
  <2>2. islands[n] = Files(ManifestIslands[n])
    OBVIOUS
  <2>3. /\ islands[n].manifest = manifest[ManifestIslands[n]]
        /\ islands[n].hpx = arms["hpx"][ManifestIslands[n]]
        /\ islands[n].ray = arms["ray"][ManifestIslands[n]]
    BY <2>2 DEF Files
  <2>4. /\ islands[n].manifest.overall = "pass" /\ islands[n].manifest.sound
        /\ Present(islands[n].hpx) /\ Present(islands[n].ray)
    BY DEF _band_gates, _island_quality
  <2>5. OwnJob(ManifestIslands[n])
    BY <2>1 DEF EvidenceInv
  <2> QED BY <2>1, <2>3, <2>4, <2>5 DEF OwnJob, Sound, Arms
<1>3. \A m, n \in DOMAIN islands : islands[m].manifest.job = islands[n].manifest.job => m = n
  BY <1>1, <1>2, EachManifestOnce
<1>4. Len(islands) >= MinR
  BY DEF _band_gates
<1> QED BY <1>2, <1>3, <1>4 DEF Rests64

\* An arm, a manifest or a band of experiment 64.
LEMMA Step64 == ASSUME EvidenceInv, Next64 PROVE EvidenceInv'
<1>1. ASSUME RunSmoke64 PROVE EvidenceInv'
  BY <1>1, RunArmKeeps DEF RunSmoke64
<1>2. ASSUME run_payload_ladder_manifest PROVE EvidenceInv'
  <2>1. PICK j \in Islands :
          LET m == build_payload_ladder_manifest(j)
              gates == _manifest_correlation_gates(_index_by_size("hpx", j), _index_by_size("ray", j), j)
          IN  Manifest(j, [m EXCEPT !.sound = @ /\ validate_payload_ladder_manifest(m, gates)])
    BY <1>2 DEF run_payload_ladder_manifest
  <2> DEFINE m == build_payload_ladder_manifest(j)
             gates == _manifest_correlation_gates(_index_by_size("hpx", j), _index_by_size("ray", j), j)
             w == [m EXCEPT !.sound = @ /\ validate_payload_ladder_manifest(m, gates)]
  <2>2. arms["hpx"][j].nodes \in Nat /\ j \in Nat
    BY BandBounds DEF EvidenceInv, Arms, Files0
  <2>3. m \in Files0 /\ m.job = j
    BY <2>2 DEF build_payload_ladder_manifest, _index_by_size, _manifest_correlation_gates, Files0
  <2>4. w \in Files0 /\ w.job = j
    BY <2>3 DEF Files0
  <2>5. Manifest(j, w)
    BY <2>1
  <2> HIDE DEF w
  <2> QED BY <2>4, <2>5, ManifestKeeps
<1>3. ASSUME run_payload_band_aggregate PROVE EvidenceInv'
  <2> DEFINE islands == [n \in DOMAIN ManifestIslands |-> Files(ManifestIslands[n])]
             b == build_payload_band_aggregate(islands)
             overall == IF validate_payload_band_aggregate(b, _band_gates(islands)) THEN b.overall ELSE "fail"
  <2>1. program \in Pair64 /\ Band(overall, islands)
    BY <1>3 DEF run_payload_band_aggregate
  <2>2. overall = "pass" => _band_gates(islands)
    BY DEF build_payload_band_aggregate
  <2>3. overall = "pass" => Rests64(islands)
    BY <2>1, <2>2, Band64
  <2> HIDE DEF overall, islands
  <2> QED BY <2>1, <2>3, BandKeeps DEF Pair61, Pair62, Pair63, Pair64
<1> QED BY <1>1, <1>2, <1>3 DEF Next64

-----------------------------------------------------------------------------

\* No file is there at first, and no band.
LEMMA InitEvidence == Init => EvidenceInv
<1> SUFFICES ASSUME Init PROVE EvidenceInv
  OBVIOUS
<1>1. Nothing \in Files0 /\ ~Present(Nothing)
  BY DEF Nothing, Files0, Present
<1>2. band.overall # "pass"
  BY DEF Init, EvInit, NoBand
<1> QED BY <1>1, <1>2 DEF Init, EvInit, EvidenceInv, Located, OwnJob, BandRests

\* Whatever arms, manifests and bands are made, in whichever allocations and
\* order, each file is of the allocation it names, and a band that passes
\* rests on what its experiment claims for it.
THEOREM BandsRest == Spec => []BandRests
<1>1. EvidenceInv /\ [Next]_evVars => EvidenceInv'
  <2> SUFFICES ASSUME EvidenceInv, [Next]_evVars PROVE EvidenceInv'
    OBVIOUS
  <2>1. ASSUME Reallocate PROVE EvidenceInv'
    BY <2>1 DEF Reallocate, EvidenceInv, OwnJob, BandRests
  <2>2. ASSUME UNCHANGED evVars PROVE EvidenceInv'
    BY <2>2 DEF evVars, EvidenceInv, OwnJob, BandRests
  <2> QED BY <2>1, <2>2, Step61, Step62, Step63, Step64 DEF Next
<1>2. EvidenceInv => BandRests
  BY DEF EvidenceInv
<1> QED BY <1>1, <1>2, InitEvidence, PTL DEF Spec
=============================================================================
