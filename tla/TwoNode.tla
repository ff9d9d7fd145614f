------------------------------ MODULE TwoNode ------------------------------
(***************************************************************************)
(* Experiments 56, 57, 58 and 60: islands on the nodes of a Slurm job,     *)
(* seen through a shared file system that may show a marker late.  A       *)
(* program checks what it needs, launches its islands one after the other, *)
(* waits for the processes or kills them, reads the markers, looks for     *)
(* orphans on the nodes and judges the island.  Two programs let a pair of *)
(* Ray actors run the srun commands, issued together: their connector is   *)
(* not held back until the root is ready but probes the root's port.       *)
(* Four more programs of experiment 57 only diagnose the platform.         *)
(***************************************************************************)
EXTENDS Spike, Integers, SequencesExt

CONSTANT Times      \* elapsed milliseconds a diagnostic may measure

G(check, verdict_if_missing) == [check |-> check, otherwise |-> verdict_if_missing]
I(op, i) == [op |-> op, isl |-> i]

-----------------------------------------------------------------------------
(* What must hold before an island is launched, in the order of the checks,*)
(* and the verdict of the first that does not.                             *)

check_config56 == <<G("binary", "skip"), G("tcp", "skip")>>
\* Endpoints advertised on loopback must be where they were asked to be.
loopback_interface == <<G("interface", "fail")>>
select_and_reachability56 == <<G("nodes", "skip"), G("ips", "fail"), G("ports", "fail")>>
check_config57 == <<G("binary", "skip"), G("tcp", "skip")>>
select_and_reachability57 == <<G("nodes", "skip"), G("ips", "fail"), G("ports", "fail")>>
check_config58 == <<G("no binary", "skip"), G("tcp", "skip")>>
\* The Ray-free phase forgets to say that it failed.
rayfree_selection58 == <<G("nodes", "skip"), G("ips", "unknown"), G("ports", "unknown"), G("ldd", "fail")>>
ray_selection58 == <<G("nodes", "skip"), G("ips", "fail"), G("ports", "fail"),
                     G("import ray", "skip"), G("ray.init", "fail"), G("ldd", "fail")>>
check_config60 == <<G("no slurm", "skip"), G("no binary", "refused"), G("tcp", "fail"), G("ips", "fail"), G("split", "fail")>>

\* The scaffold of experiment 57 checks the child environment and, with ldd on
\* both nodes, the C++ runtime the binary would load.
_preserve_child_env57(env, base, keys) == [k \in DOMAIN env |-> IF k \in keys THEN base[k] ELSE env[k]]
_env_preserve_report57(env, required) == \A k \in required : env[k] # "absent"
_ldd_check_node57(resolved, expected) == expected # "none" /\ resolved = expected /\ resolved # "system"
run_slice_a_scaffold == <<G("nodes", "skip"), G("binary", "fail"), G("env", "fail"), G("ldd", "fail")>>
\* The Ray phase adds Ray, repeats the scaffold and wants addresses; whether
\* the ports were reachable it only records.
a2b_preflight == <<G("nodes", "skip"), G("import ray", "fail"), G("ray.init", "fail")>>
                 \o Tail(run_slice_a_scaffold) \o <<G("ips", "fail")>>

Gates ==
    CASE program = "exp56" -> <<check_config56, loopback_interface \o select_and_reachability56>>
      [] program = "settle57" -> <<check_config57, select_and_reachability57>>
      [] program = "a2b57" -> <<a2b_preflight>>
      [] program = "scaffold57" -> <<run_slice_a_scaffold>>
      [] program = "rayfree58" -> <<check_config58, rayfree_selection58>>
      [] program = "ray58" -> <<check_config58, ray_selection58>>
      [] program = "control60" -> <<check_config60>>
      [] OTHER -> <<<<G("nodes", "skip")>>>>

main56 == <<I("gate", 1), I("loop", 1), I("gate", 2), I("island", 2), I("judge", 2)>>
settle_phase57 == <<I("gate", 1), I("gate", 2), I("island", 1), I("judge", 1)>>
run_phase57 == <<I("gate", 1), I("island", 1), I("judge", 1)>>
diagnostics57 == <<I("gate", 1), I("judge", 1)>>
phases58 == <<I("gate", 1), I("gate", 2), I("island", 1), I("island", 2), I("judge", 2)>>
phase_same_node_control == <<I("gate", 1), I("island", 1), I("island", 2), I("judge", 2)>>
Steps ==
    CASE program = "exp56" -> main56
      [] program = "settle57" -> settle_phase57
      [] program = "a2b57" -> run_phase57
      [] program \in {"rayfree58", "ray58"} -> phases58
      [] program = "control60" -> phase_same_node_control
      [] OTHER -> diagnostics57

Op == Steps[step].op
Isl == Steps[step].isl
Previous == IF step = 1 THEN 0 ELSE Steps[step - 1].isl
At(op) == pc = "call" /\ Op = op
Record(fs) == got' = got \cup Facts(Isl, fs)
SameRun == UNCHANGED <<program, obs, reg>>

\* A verdict is written to the aggregate, unless it is only printed.
Printed(v) == \/ program = "control60" /\ v \in {"skip", "refused"}
              \/ program = "rayfree58" /\ v = "skip" /\ step = 1
Concludes(v) == verdict' = v /\ UNCHANGED step /\ pc' = IF Printed(v) THEN "done" ELSE "write"

Gate ==
    /\ At("gate")
    /\ LET gate == Gates[Isl]
       IN  \/ NextStep /\ Expected /\ UNCHANGED verdict
           \/ \E n \in DOMAIN gate :
                Concludes(gate[n].otherwise) /\ IF gate[n].otherwise = "skip" THEN Expected ELSE Fault
    /\ UNCHANGED <<island, old, got>> /\ SameRun

-----------------------------------------------------------------------------
(* The launch from this process: the root, then the connector if and when  *)
(* root.ready shows.  An exception on the way ends the program; only       *)
(* experiment 60 cleans up first.                                          *)

FromRay == program \in {"a2b57", "ray58"}

_launch_root ==
    /\ pc = "call" /\ Op \in {"loop", "island"} /\ ~FromRay
    /\ \/ Popen(Previous, "clean") /\ pc' = "ready" /\ UNCHANGED step /\ Expected
       \/ Fault /\ Raise /\ UNCHANGED <<island, old>>
    /\ UNCHANGED <<got, verdict>> /\ SameRun

\* The wait of experiment 58 looks at the file, then at the process: a marker
\* written in between is missed.
_wait_marker58 == program = "rayfree58" /\ Dead(root) /\ Expected

_launch_connector ==
    /\ pc = "ready"
    /\ \E ready \in BOOLEAN :
         /\ WaitFile({"root.ready"}, root, ready) \/ (~ready /\ _wait_marker58)
         /\ conn' = IF ready /\ (Op = "loop" => Live(root)) THEN "boot" ELSE "none"
         /\ Record(If(ready, "ready"))
    /\ pc' = IF Op = "loop" /\ conn' = "boot" THEN "join" ELSE "exit"
    /\ UNCHANGED <<step, kind, root, agas, files, res, old, verdict>> /\ SameRun
_launch_fails ==
    /\ pc = "ready" /\ "root.ready" \in files /\ Fault /\ Raise
    /\ UNCHANGED <<island, old, got, verdict>> /\ SameRun
diag_loopback ==
    /\ pc = "join" /\ \E ok \in BOOLEAN : WaitFile({"joined1", "unjoined"}, conn, ok)
    /\ pc' = "exit" /\ UNCHANGED <<step, island, old, got, verdict>> /\ SameRun

\* The root has its deadline, then the connector a short one; what still runs
\* is killed.  The loopback diagnostic kills the connector at once.
_root_exit ==
    /\ pc = "exit" /\ \E ok \in BOOLEAN : WaitExit(root, ok)
    /\ Record(If(root = "exit0", "root_exit0")) /\ pc' = "kill"
    /\ UNCHANGED <<step, island, old, verdict>> /\ SameRun
\* The kill reaches the local srun client: the root on its node may outlive it.
\* Experiment 60 then waits for the client, without a deadline.
_root_kill ==
    /\ pc = "kill"
    /\ \/ Op = "loop" /\ KillBoth /\ pc' = "read"
       \/ Op # "loop" /\ UNCHANGED conn /\ root' = Killed(root) /\ Expected /\ pc' = "reap"
       \/ /\ Op # "loop" /\ UNCHANGED conn /\ Live(root) /\ UNCHANGED root /\ Over(faults > 0)
          /\ pc' = "reap" \/ (program = "control60" /\ pc' = "rewait")
    /\ UNCHANGED <<step, kind, agas, files, res, old, got, verdict>> /\ SameRun
_root_wait ==
    /\ pc = "rewait" /\ Dead(root) /\ pc' = "reap" /\ Expected
    /\ UNCHANGED <<step, island, old, got, verdict>> /\ SameRun
_connector_exit ==
    /\ pc = "reap"
    /\ \E ok \in BOOLEAN : WaitExit(conn, ok) /\ pc' = IF ok THEN "read" ELSE "slay"
    /\ UNCHANGED <<step, island, old, got, verdict>> /\ SameRun
_connector_kill ==
    /\ pc = "slay" /\ pc' = "read"
    /\ \/ conn' = Killed(conn) /\ Expected
       \/ Live(conn) /\ UNCHANGED conn /\ Over(faults > 0)
    /\ UNCHANGED <<step, kind, root, agas, files, res, old, got, verdict>> /\ SameRun

-----------------------------------------------------------------------------
(* The launch from two Ray actors, each with a timeout of its own.         *)

\* An actor starts srun, or reports that it could not.
_SrunRunner(started) == IF started THEN "boot" ELSE "none"
run_island_ray ==
    /\ At("island") /\ FromRay /\ pc' = "get"
    /\ \E r, c \in BOOLEAN :
         /\ root' = _SrunRunner(r) /\ conn' = _SrunRunner(c)
         /\ IF r /\ c THEN Expected ELSE Fault
    /\ kind' = "clean" /\ agas' = FALSE /\ files' = {} /\ res' = {} /\ old' = old \cup Running(Previous)
    /\ UNCHANGED <<step, got, verdict>> /\ SameRun

\* p.wait(timeout) expired: p.kill().  After a failed ray.get the actors of
\* experiment 58 go on, those of experiment 57 end with ray.shutdown().
_runner_kills ==
    /\ FromRay /\ (pc = "get" \/ (program = "ray58" /\ pc = "read"))
    /\ \/ Live(root) /\ root' = "killed" /\ UNCHANGED conn
       \/ Live(conn) /\ conn' = "killed" /\ UNCHANGED root
    /\ Over(Quiet)
    /\ UNCHANGED <<step, pc, kind, agas, files, res, old, got, verdict>> /\ SameRun
_ray_get ==
    /\ pc = "get" /\ pc' = "read"
    /\ \/ ~Live(root) /\ ~Live(conn) /\ Expected /\ Record({"returned"} \cup If(root = "exit0", "root_exit0"))
       \/ Fault /\ UNCHANGED got
    /\ UNCHANGED <<step, island, old, verdict>> /\ SameRun

-----------------------------------------------------------------------------
(* What the markers say.                                                   *)

Markers == {"root.ready", "joined1", "served1", "disc_clean", "result", "finalize_done", "preprobe"}
Wanted == IF program \in Preprobing THEN Markers ELSE Markers \ {"preprobe"}

\* The result file carries what the root recorded; two attestations, written
\* just before root.ready and joined1, show that the hosts differ (or, in
\* experiment 60, do not).
Seen(visible) == visible \cup (IF "result" \in visible THEN res ELSE {})

\* json.load at once: a marker that does not show yet is missing.
_read_json56 ==
    \E missed \in SUBSET (Markers \cap files) :
        /\ Cardinality(missed) <= 1
        /\ Record(Seen(files \ missed))
        /\ IF missed = {} THEN Expected ELSE Fault

\* The bounded wait for each marker ends when it shows; a marker that exists
\* and stays hidden for the whole wait is a fault.
read_json_eventually ==
    \/ Wanted \subseteq files /\ Record(Seen(files)) /\ Expected
    \/ ~(Wanted \subseteq files) /\ Record(Seen(files)) /\ Over(Quiet)
    \/ \E m \in Wanted \cap files : Record(Seen(files \ {m})) /\ Fault

\* The settle diagnostic looks once early, where any marker may be hidden, and
\* judges by the bounded reads that follow.
_early_read ==
    /\ pc = "read" /\ program = "settle57" /\ pc' = "reread"
    /\ \E hidden \in BOOLEAN : Record(If(~hidden /\ {"result", "joined1"} \subseteq files, "early_complete"))
    /\ Expected /\ UNCHANGED <<step, island, old, verdict>> /\ SameRun

Read ==
    /\ \/ pc = "read" /\ program = "exp56" /\ _read_json56
       \/ pc = "reread" /\ read_json_eventually
       \/ pc = "read" /\ program \notin {"exp56", "settle57"} /\ read_json_eventually
    /\ IF Op = "loop" THEN NextStep
       ELSE UNCHANGED step /\ pc' = IF program = "control60" THEN "sweep" ELSE "orphans"
    /\ UNCHANGED <<island, old, verdict>> /\ SameRun

\* pgrep on a node sees processes, sees none, or could not run.
Orphans(mine) ==
    \/ Record({IF mine = {} THEN "no_orphans" ELSE "orphans"}) /\ Expected
    \/ Record({"unchecked"}) /\ Fault
_orphan_check_node ==
    /\ pc = "orphans" /\ NextStep
    /\ Orphans(Running(Isl) \cup IF program = "control60" THEN {} ELSE old)
    /\ UNCHANGED <<island, old, verdict>> /\ SameRun

\* Experiment 60 looks for its own island only, sends SIGTERM to what it sees,
\* and looks again; it does so on the way out of an exception, too.
_cleanup_node ==
    \/ root' = Killed(root) /\ conn' = Killed(conn) /\ Expected
    \/ Running(Isl) # {} /\ UNCHANGED <<root, conn>> /\ Fault
_cleanup_and_check ==
    /\ pc = "sweep" /\ _cleanup_node /\ pc' = "orphans"
    /\ UNCHANGED <<step, kind, agas, files, res, old, got, verdict>> /\ SameRun
_raised ==
    /\ pc = "raised" /\ pc' = "done" /\ verdict' = "crash"
    /\ IF program = "control60" THEN _cleanup_node ELSE Expected /\ UNCHANGED <<root, conn>>
    /\ UNCHANGED <<step, kind, agas, files, res, old, got>> /\ SameRun

-----------------------------------------------------------------------------
(* The verdicts.                                                           *)

host_differs(i) == HasAll(i, {"root.ready", "joined1"})
Proved(i) == HasAll(i, {"result", "two", "proved"}) /\ host_differs(i)

_launch_two_node56(i) == Proved(i) /\ HasAll(i, {"disc_clean", "root_exit0"}) /\ ~Has(i, "orphans")
mechanism_success_on_disk(i) == Proved(i) /\ HasAll(i, {"leave", "disc_clean", "served1"})
run_phase_a2b(i) == HasAll(i, {"preprobe", "result", "two", "proved", "leave", "disc_clean",
                               "finalize_done", "root_exit0", "no_orphans"})
_collect_island58(i) == Proved(i) /\ HasAll(i, {"leave", "disc_clean", "served1", "no_orphans"})
run_same_node_island(i) == Proved(i) /\ HasAll(i, {"ready", "root_exit0"}) /\ ~Has(i, "orphans")
PassOrFail(ok) == IF ok THEN "pass" ELSE "fail"
_build_aggregate58 == PassOrFail(\A i \in 1..2 : _collect_island58(i))

_big(ms) == ms >= 5000

\* What a settle of the given length is blamed on; m are further measurements.
_classify_settle(settle, m) ==
    LET slurm_signal == _big(m.srun)
        slurm_match == m.root_ready < 2000 /\ m.joined < 2000 /\ _big(settle) /\ slurm_signal
        early == m.visible < 2000 \/ 2 * m.visible < settle
        agas_match == _big(settle) /\ early /\ ~slurm_signal
    IN  CASE m.logs /\ m.retry -> "parcel_retry_or_timeout"
          [] m.logs /\ ~m.retry /\ m.resolve -> "name_resolution_or_reverse_dns"
          [] ~(m.logs /\ (m.retry \/ m.resolve)) /\ slurm_match -> "slurm_step_launch_latency"
          [] ~(m.logs /\ (m.retry \/ m.resolve)) /\ ~slurm_match /\ agas_match -> "agas_registration_reflection_delay"
          [] OTHER -> "unattributed_fixed_delay"
Measurements == [srun : Times, root_ready : Times, joined : Times, visible : Times,
                 logs : BOOLEAN, retry : BOOLEAN, resolve : BOOLEAN]
settle_diag ==
    IF ~Has(1, "ready") \/ ~mechanism_success_on_disk(1) THEN {"fail"}
    ELSE {IF _classify_settle(settle, m) = "unattributed_fixed_delay" THEN "inconclusive" ELSE "attributed" :
             settle \in Times, m \in Measurements}

-----------------------------------------------------------------------------
(* The diagnostics of experiment 57: no island, only elapsed times.        *)

_ladder_5s(ms) ==
    /\ ms >= 4500
    /\ \E k \in 0..(ms \div 5000 + 1) : ms <= 5000 * k + 1500 /\ 5000 * k <= ms + 1500

\* The slower node, with and without --overlap.
_classify_localize(no_overlap, overlap, supported, ladder, prolog) ==
    LET helps == supported /\ _big(no_overlap) /\ overlap + 5000 <= no_overlap /\ 2 * overlap < no_overlap
    IN  CASE helps -> "slurm_non_overlapping_steps"
          [] ~helps /\ ladder -> "name_resolution_or_reverse_dns"
          [] ~helps /\ ~ladder /\ _big(no_overlap) /\ prolog -> "node_prolog_or_cgroup"
          [] OTHER -> "inconclusive"
_classify_localize_deep(login, direct, binary, marker, ladder, prolog) ==
    CASE _big(binary) /\ _big(marker) -> "inconclusive"
      [] _big(marker) /\ ~_big(binary) /\ ~_big(direct) -> "shared_fs_marker_visibility"
      [] _big(binary) /\ ~_big(marker) /\ ~_big(direct) -> "binary_direct_exec_or_loader"
      [] _big(login) /\ ~_big(binary) /\ ~_big(marker) /\ ~_big(direct) -> "login_shell_startup"
      [] OTHER -> IF _big(direct) /\ prolog THEN "node_prolog_or_cgroup"
                  ELSE IF ladder THEN "name_resolution_or_reverse_dns" ELSE "inconclusive"
\* A marker polled for before it exists: simply, with a fresh directory listing
\* each time, and the control that is polled for only once it is written.
_classify_nfs_negative(control, simple, robust) ==
    CASE _big(simple) /\ ~_big(control) -> "nfs_negative_dentry_or_attribute_cache"
      [] ~_big(simple) /\ ~_big(robust) /\ ~_big(control) -> "no_negative_poll_delay_observed"
      [] OTHER -> "inconclusive"
Localized(cause) == IF cause = "inconclusive" THEN "inconclusive" ELSE "localized"

\* The node that was slower without --overlap is the one examined.
slurm_localize ==
    {LET slow == IF no.a >= no.b THEN "a" ELSE "b"
     IN  Localized(_classify_localize(no[slow], with[slow], f[1], f[2], f[3])) :
        no \in [{"a", "b"} -> Times], with \in [{"a", "b"} -> Times], f \in [1..3 -> BOOLEAN]}
slurm_localize_deep ==
    {Localized(_classify_localize_deep(t[1], t[2], t[3], t[4], f[1], f[2])) :
        t \in [1..4 -> Times], f \in [1..2 -> BOOLEAN]}
\* Each of the three is the worse of the two nodes.
nfs_negative_poll ==
    {Localized(_classify_nfs_negative(Max({t[1], t[2]}), Max({t[3], t[4]}), Max({t[5], t[6]}))) :
        t \in [1..6 -> Times]}

-----------------------------------------------------------------------------
(* The end: the verdict and its file.                                      *)

Verdicts ==
    CASE program = "exp56" -> {PassOrFail(_launch_two_node56(2))}
      [] program = "settle57" -> settle_diag
      [] program = "a2b57" -> {PassOrFail(run_phase_a2b(1))}
      [] program \in {"rayfree58", "ray58"} -> {_build_aggregate58}
      [] program = "control60" -> {PassOrFail(\A i \in 1..2 : run_same_node_island(i))}
      [] program = "localize57" -> slurm_localize
      [] program = "deep57" -> slurm_localize_deep
      [] program = "nfs57" -> nfs_negative_poll
      [] OTHER -> {"pass"}
Judge ==
    /\ At("judge") /\ \E v \in Verdicts : Concludes(v)
    /\ Expected /\ UNCHANGED <<island, old, got>> /\ SameRun

\* Where the aggregate goes, given the one that is there, whether that one is
\* of the same phase, and --allow-overwrite-pass.
safe_write_aggregate(new, there, phase, flag) ==
    IF new # "pass" THEN "sibling"
    ELSE IF there = "pass" /\ ~(flag /\ phase # "other") THEN "redirected" ELSE "main"
safe_write_top_aggregate(new, there, phase, flag) ==
    IF there # "pass" THEN "main"
    ELSE IF new # "pass" THEN "sibling"
    ELSE IF phase = "same" /\ flag THEN "main" ELSE "redirected"
_write_agg(new, there, phase, flag) == "main"

Target(there, phase, flag) ==
    CASE program \in {"rayfree58", "ray58"} -> safe_write_aggregate(verdict, there, phase, flag)
      [] program = "control60" -> safe_write_top_aggregate(verdict, there, phase, flag)
      [] OTHER -> _write_agg(verdict, there, phase, flag)
Write ==
    /\ pc = "write" /\ pc' = "done"
    /\ \E there \in {"none", "pass", "fail"}, phase \in {"same", "other", "absent"}, flag \in BOOLEAN :
         got' = got \cup Facts(0, IF there = "pass" /\ Target(there, phase, flag) = "main"
                                  THEN {"replaced"} \cup If(phase # "other" /\ flag, "allowed") ELSE {})
    /\ Expected /\ UNCHANGED <<step, island, old, verdict>> /\ SameRun

TwoNodePrograms == {"exp56", "settle57", "a2b57", "rayfree58", "ray58", "control60",
                    "localize57", "deep57", "nfs57", "scaffold57"}
TwoNodeDriver ==
    /\ program \in TwoNodePrograms
    /\ \/ Gate \/ _launch_root \/ _launch_connector \/ _launch_fails \/ diag_loopback
       \/ _root_exit \/ _root_kill \/ _root_wait \/ _connector_exit \/ _connector_kill
       \/ run_island_ray \/ _runner_kills \/ _ray_get
       \/ _early_read \/ Read \/ _orphan_check_node \/ _cleanup_and_check \/ _raised \/ Judge \/ Write

-----------------------------------------------------------------------------
(* Core sets and statistics.                                               *)

Range1(t) == t[1]..t[2]
_parse_cpu_list(tokens) == UNION {Range1(t) : t \in tokens}      \* of <<first, last>>
ValidTokens(tokens) == \A t \in tokens : t[1] <= t[2]
_cpus_to_mask(cpus) ==
    {t \in cpus \X cpus : Range1(t) # {} /\ Range1(t) \subseteq cpus /\ t[1] - 1 \notin cpus /\ t[2] + 1 \notin cpus}
bindings_disjoint(a, b) == a # {} /\ b # {} /\ a \cap b = {}
NoSplit == <<{}, {}>>
compute_core_split(ncpu, threads, spec) ==
    LET explicit == spec # <<>>
        cpus == IF explicit THEN <<_parse_cpu_list(spec[1]), _parse_cpu_list(spec[2])>>
                ELSE <<0..(threads - 1), threads..(2 * threads - 1)>>
        valid == IF explicit THEN ValidTokens(spec[1]) /\ ValidTokens(spec[2])
                 ELSE threads >= 1 /\ 2 * threads <= ncpu
    IN  IF valid /\ bindings_disjoint(cpus[1], cpus[2]) /\ \A c \in cpus[1] \cup cpus[2] : c < ncpu
        THEN cpus ELSE NoSplit

Sorted(s) == SortSeq(s, <)
\* The ceil(p * n)-th smallest value; p in hundredths.
_pct(sorted, p) ==
    LET k == (p * Len(sorted) + 99) \div 100 - 1
    IN  sorted[Max({0, Min({k, Len(sorted) - 1})}) + 1]
island_stats(raw) ==
    LET s == Sorted(raw)
    IN  [count |-> Len(s), min |-> s[1], max |-> s[Len(s)], p50 |-> _pct(s, 50), p90 |-> _pct(s, 90), p99 |-> _pct(s, 99)]
\* The median over the islands; of an even number, the mean of the middle two.
across_island_summary(vals) ==
    LET v == Sorted(vals)
        n == Len(v)
    IN  [median |-> IF n % 2 = 1 THEN v[n \div 2 + 1] ELSE (v[n \div 2] + v[n \div 2 + 1]) \div 2,
         min |-> v[1], max |-> v[n]]
\* Of a node's global addresses, the first in the preferred subnet, else the first.
select_node_ip(addresses, preferred) ==
    LET inside == SelectSeq(addresses, LAMBDA a : a \in preferred)
    IN  IF addresses = <<>> THEN {} ELSE {IF inside # <<>> THEN inside[1] ELSE addresses[1]}
=============================================================================
