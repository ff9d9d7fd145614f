---------------------------- MODULE MCSupervised ----------------------------
(***************************************************************************)
(* Experiments 53 to 58 and 60, and one island of 69 under load, for TLC:  *)
(* every program, with at most MaxFaults departures from the expected      *)
(* course, and the pure helpers of these drivers against reference         *)
(* definitions.                                                            *)
(***************************************************************************)
EXTENDS Spike, Integers

CONSTANTS Timeouts, MaxSnaps, Times, C, S, N, W, Capacity, Capability

VARIABLES stage, lpc, loop, submitted, completed, outstanding, reqs, served, active,
          before, verifier, flag, result, taint, lfaults

TwoTimeouts == <<10, 20>>
ThreeTimes == {100, 6000, 15000}
ASSUME FaultBound == MaxFaults \in Nat
ASSUME TimeoutList == Timeouts \in Seq(Nat)
ASSUME LoadBounds == {C, S, N, W, Capacity} \subseteq Nat \ {0} /\ Capability \in BOOLEAN

Poisoned == INSTANCE Poison
Nodes == INSTANCE TwoNode
Load == INSTANCE Throughput WITH pc <- lpc, faults <- lfaults

loadVars == <<stage, lpc, loop, submitted, completed, outstanding, reqs, served, active,
              before, verifier, flag, result, taint, lfaults>>
supVars == <<vars, loadVars>>

\* Experiment 69's island under load is a program beside the others.
Loaded == program = "load69"
Programs == Poisoned!PoisonPrograms \cup Nodes!TwoNodePrograms \cup {"load69"}
Finished == IF Loaded THEN lpc = "ended" ELSE pc = "done"

\* The one wait without a deadline: root.wait() after root.kill(), when even
\* that does not end the srun client (run_exp60_control.py 556-558).
Blocked == program = "control60" /\ pc = "rewait" /\ Live(root)

Init == Load!Init /\ \E p \in Programs : SpikeInit(p)
Driver == (Poisoned!PoisonDriver \/ Nodes!TwoNodeDriver) /\ UNCHANGED loadVars
Islands == ~Loaded /\ pc # "done" /\ Processes /\ UNCHANGED loadVars
Accidents == ~Loaded /\ pc # "done" /\ Mishaps /\ UNCHANGED loadVars
Actors == Loaded /\ Load!HpxActor /\ UNCHANGED vars
Verifier == Loaded /\ Load!VerifierRun /\ UNCHANGED vars
Scheduler == Loaded /\ Load!Scheduler /\ UNCHANGED vars
Ended == (Finished \/ Blocked) /\ UNCHANGED supVars
Next == Driver \/ Islands \/ Accidents \/ Actors \/ Verifier \/ Scheduler \/ Ended
Spec == /\ Init /\ [][Next]_supVars
        /\ WF_supVars(Driver) /\ WF_supVars(Islands)
        /\ WF_supVars(Actors) /\ WF_supVars(Verifier) /\ WF_supVars(Scheduler)

-----------------------------------------------------------------------------

\* Every program ends: each wait of a driver for a process or a file has a
\* deadline (run_once 345-412 of experiment 54, the launches of 56 to 58; the
\* p.wait() after a kill in the Ray actors of 57 and 58 is behind the driver's
\* own ray.get timeout), but for one: experiment 60 waits for ever for a root
\* that does not die of its kill.  The scheduler under load ends although it may
\* give requests up, block on the verifier's queue or outlive the verifier's join.
Terminates == <>Finished \/ <>[]Blocked

\* A batch of experiment 69 that passed was measured alone: no request that an
\* earlier loop gave up on took a step in its window, and none is left inside
\* the actors (eval_throughput_batch_gates, the exact witness deltas).
PassMeansIsolated == Load!PassMeansIsolated

\* When nothing departs from the expected course no program reports a failure:
\* the waits, the order of the kills and the gates of _assemble and of the
\* islands do not reject a run that went as designed.
CleanRunPasses == verdict \in {"fail", "crash", "unknown"} => faults > 0

\* The predicate of experiments 54 and 55 says "poisoned" only of an island
\* whose connector is gone and never reported its departure, although its four
\* looks are taken at different moments (evaluate_health_predicate 194-269).
PoisonMeansLoss ==
    (program \in Poisoned!PoisonPrograms /\ pc = "call" /\ Has(Poisoned!Isl, "is_poisoned"))
        => (Dead(conn) /\ "disconnected1" \notin files)

\* A pass says that nothing the program started is still running, unless the
\* orphan check of a node could not be made, and that the last island's action
\* was really answered by a second locality.
PassMeans ==
    verdict = "pass" =>
        /\ \/ ~Live(root) /\ ~Live(conn) /\ old = {}
           \/ \E i \in 1..2 : Has(i, "unchecked")
        /\ (program # "scaffold57" /\ program # "exp55") => {"two", "proved"} \subseteq res

\* The verdicts of the programs say what happened, for better and worse.
VerdictsTrue == CleanRunPasses /\ PassMeans

-----------------------------------------------------------------------------
(* The pure helpers.                                                       *)

Cpus == 0..3
ASSUME MaskNamesItsCpus ==
    \A cpus \in SUBSET Cpus : Nodes!_parse_cpu_list(Nodes!_cpus_to_mask(cpus)) = cpus

Specs == {{}} \cup {{t} : t \in (0..2) \X (0..2)}
ASSUME SplitIsDisjoint ==
    \A ncpu \in 0..4, threads \in 0..3, spec \in {<<>>} \cup (Specs \X Specs) :
        LET split == Nodes!compute_core_split(ncpu, threads, spec)
        IN  /\ split[1] \cap split[2] = {} /\ split[1] \cup split[2] \subseteq 0..(ncpu - 1)
            /\ (split[1] = {}) = (split[2] = {})
            /\ spec = <<>> => ((split # Nodes!NoSplit) = (threads \in 1..(ncpu \div 2)))

Samples == UNION {[1..n -> 0..2] : n \in 1..5}
Below(s, v) == Cardinality({i \in DOMAIN s : s[i] <= v})
ASSUME PercentileIsNearestRank ==
    \A s \in Samples, p \in {50, 90, 99} :
        LET v == Nodes!_pct(Nodes!Sorted(s), p)
        IN  100 * Below(s, v) >= p * Len(s) /\ 100 * Below(s, v - 1) < p * Len(s)
ASSUME MedianIsInside ==
    \A s \in Samples :
        LET m == Nodes!across_island_summary(s)
        IN  m.min <= m.median /\ m.median <= m.max /\ 2 * Below(s, m.median) >= Len(s)
                /\ 2 * Below(s, m.median - 1) <= Len(s)

\* A node with any address gets one, in the preferred subnet if it has such.
ASSUME NodeHasAnAddress ==
    \A addresses \in UNION {[1..n -> 1..3] : n \in 0..3}, preferred \in SUBSET (1..3) :
        LET chosen == Nodes!select_node_ip(addresses, preferred)
            all == {addresses[i] : i \in DOMAIN addresses}
        IN  /\ chosen \subseteq all /\ (chosen = {}) = (all = {})
            /\ all \cap preferred # {} => chosen \subseteq preferred

\* The five-second ladder holds what lies within 1.5 s of a multiple of 5 s.
Distance(a, b) == IF a < b THEN b - a ELSE a - b
ASSUME LadderIsMultiples ==
    \A ms \in {500 * k : k \in 0..44} :
        Nodes!_ladder_5s(ms) = (ms >= 4500 /\ \E k \in 1..5 : Distance(ms, 5000 * k) <= 1500)
=============================================================================
