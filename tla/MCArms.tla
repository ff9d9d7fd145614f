------------------------------- MODULE MCArms -------------------------------
(***************************************************************************)
(* One invocation of any arm of experiments 61 to 64, with up to MaxFaults *)
(* things going wrong.                                                     *)
(***************************************************************************)
EXTENDS Arm

CONSTANTS N, Islands

E61 == INSTANCE Exp61
E62 == INSTANCE Exp62
E63 == INSTANCE Exp63
E64 == INSTANCE Exp64

ASSUME ArmBounds == K \in Nat \ {0} /\ N >= Len(Remotes) /\ Len(Remotes) >= 2 /\ Islands \in Nat /\ MaxFaults \in Nat

TwoRemotes == <<"r1", "r2">>
Arms == E61!HpxArms61 \cup E61!RayArms61 \cup E62!HpxArms62 \cup E62!RayArms62 \cup E63!Arms63 \cup E64!Arms64
Markers == CASE arm \in E63!Arms63 -> E63!Markers63
             [] arm \in E64!Arms64 -> E64!Markers64
             [] OTHER -> {"served1"}

Init == ArmInit(Arms)
Driver == E61!Hpx61 \/ E61!Ray61 \/ E62!Hpx62 \/ E62!Ray62 \/ E63!Hpx63 \/ E64!Hpx64 \/ E64!Ray64
\* What its connectors do after an invocation is over is not followed.
Over == pc \in {"done", "blocked"}
Processes == ~Over /\ Connectors(Markers)
Ended == Over /\ UNCHANGED armVars
Next == Driver \/ Processes \/ Ended
\* A connector that can join, stop serving or disconnect does so; the driver
\* takes its next step.  Its waits for connectors have a deadline; those that
\* have none (CallHangs, StopRoot) may end in "blocked".
GoesOn(r) ==
    /\ ~Over
    /\ Join(r) \/ Leave(r, Markers) \/ Disconnect(r) \/ (Markers = {} /\ ServeTimeout(r, Markers))
Spec == Init /\ [][Next]_armVars /\ WF_armVars(Driver) /\ \A r \in Hosts : WF_armVars(GoesOn(r))

-----------------------------------------------------------------------------

Troubles == {"unresolved", "start", "popen", "unjoined", "unstarted", "killed", "shutdown", "bound", "delayed",
             "timeout", "died", "unclean", "hung", "orphans", "offsubnet"}

\* What an arm does not look at: whether it killed a client, how its
\* connectors left (61, single-remote 62, diagnostics of 63) and whether their
\* teardown was clean, attestations no gate reads, what Ray left behind.
Overlooked ==
    CASE arm \in {"hpx_smoke", "hpx_local62"} -> {}
      [] arm = "connected" -> {"killed", "timeout", "died", "unclean", "bound", "delayed"}
      [] arm = "colocated" -> {"killed", "timeout", "died", "unclean"}
      [] arm \in {"remote_smoke62", "fanout62"} -> {"killed", "timeout", "died", "unclean", "delayed"}
      [] arm \in {"mr_smoke62", "mr_fanout62"} \cup E64!Poll64 -> {"killed", "unclean"}
      [] arm \in E63!Diag63 -> {"bound", "delayed", "killed", "timeout", "died", "unclean"}
      [] arm = "progress_poll63" -> {"bound", "delayed", "shutdown", "killed", "unclean"}
      [] arm = "progress_native63" -> {"bound", "delayed", "killed", "unclean"}
      [] arm \in E63!Hardened63 \ E63!Diag63 -> {"bound", "delayed", "killed"}
      [] arm \in E64!Native64 -> {"killed"}
      [] arm \in E62!RayArms62 -> {"orphans"}
      [] OTHER -> {}
\* Where the verdict reads the connectors' own records.
ReadsRecords == {"mr_smoke62", "mr_fanout62"} \cup (E63!Arms63 \ E63!Diag63) \cup E64!Poll64 \cup E64!Native64

\* The calls a verdict speaks of: all timed ones, or only the last.
Judged(a) ==
    CASE arm \in E61!HpxArms61 \cup E61!RayArms61 ->
           {calls[i] : i \in {1} \cup ((E61!Prewarm + E61!Warm + 1)..Len(calls))}
      [] arm \in E62!HpxArms62 -> {E62!Last}
      [] arm \in E63!Progress63 -> {E63!Last63}
      [] arm \in E63!Hardened63 -> {E63!Timed63[i] : i \in DOMAIN E63!Timed63}
      [] arm \in E64!Arms64 -> {calls[i].out : i \in {j \in DOMAIN calls :
                                  calls[j].n > E64!Prewarm64 /\ E64!Cells[calls[j].cell].size = a.size
                                  /\ (arm \in E64!Native64 => E64!Cells[calls[j].cell].mode = a.mode)}}
      [] OTHER -> {"ok"}
Acceptable(a) ==
    CASE arm \in E63!Diag63 -> {"ok", "wrong", "misplaced", "lopsided"}
      [] arm \in E64!Native64 -> IF a.mode = "root_flat_gather_poll" THEN {"ok", "slow", "deferred"} ELSE {"ok", "slow"}
      [] OTHER -> {"ok"}
Passed(a) == a.overall \in {"pass", "clean"}

\* A passing artifact rests on a run in which nothing went wrong but what the
\* arm does not look at, and on right answers to the calls it speaks of; where
\* it reads the connectors' records, each had served until it was told and
\* was gone, whether or not its client had to be killed; the polling claim is only made where every measured call was prompt and the
\* idle backoff was off (the verdicts of run_exp61_same_axis.py,
\* run_exp62_fanout.py, run_exp63_collective.py, run_exp64_payload.py).
PassHonest ==
    At("done") => \A i \in DOMAIN art : Passed(art[i]) =>
        /\ (bad \cap Troubles) \subseteq Overlooked
        /\ Judged(art[i]) \subseteq Acceptable(art[i])
        /\ arm \in ReadsRecords => \A r \in Targets : conn[r] = "served"
        /\ (arm \in E64!Native64 /\ art[i].retired) => arm = "payload_spin64" /\ Judged(art[i]) = {"ok"}

\* A run without faults that was not skipped passes, in every artifact: no gate
\* rejects what went as designed.
CleanPasses ==
    At("done") /\ faults = 0 /\ arm # "a1_silent63" =>
        \A i \in DOMAIN art : art[i].overall \in {"pass", "clean", "skip"}

\* The verdict of an invocation says what happened in it, for better and worse.
VerdictHonest == PassHonest /\ CleanPasses

\* Whatever went wrong, an invocation that ends has reaped every srun client
\* and stopped the HPX root or Ray cluster it could stop.  A connector may
\* only still run where its client was killed: that kill reaches the local
\* srun, and no driver looks at the node (the finally clauses of the drivers,
\* such as run_exp62_fanout.py:1427-1443).
NothingLeft ==
    At("done") => /\ root # "on" /\ ray # "on"
                  /\ \A r \in Hosts : client[r] # "up" /\ (conn[r] \in Live => client[r] = "killed")

\* An invocation ends, with or without its connectors, or hangs in one of
\* the waits without a deadline: a remote call of experiment 61 or a local
\* call, ray.get without a timeout, ext.shutdown().  It only hangs after
\* something went wrong.
Terminates == <>(At("done") \/ (At("blocked") /\ faults > 0))

=============================================================================
