------------------------------- MODULE Poison -------------------------------
(***************************************************************************)
(* Experiments 53 to 55: a Ray actor, the supervisor, launches an island,  *)
(* decides whether it is poisoned (its connector is gone for good while    *)
(* the root goes on), kills it and launches a fresh one.  Experiment 53    *)
(* kills the connector itself and takes the root's word; 54 infers         *)
(* poisoning from exit codes and files; 55 calibrates that predicate.      *)
(*                                                                         *)
(* A program is the script of calls its run functions make to the actor.   *)
(* A call that fails raises; then only the finally clause runs and main    *)
(* ends without an aggregate, verdict "crash".                             *)
(***************************************************************************)
EXTENDS Spike

CONSTANTS Timeouts,     \* args.timeouts of experiment 55, in order
          MaxSnaps      \* snapshots the predicate takes before its deadline

Do(op, i) == [op |-> op, isl |-> i]
Clean == "clean"

\* run_once of 53 and 54.
run_once53 ==
    <<Do("victim", 1), Do("inject", 1), Do("witness", 1), Do("mark", 1), Do("kill", 1),
      Do("clean", 2), Do("exit_root", 2), Do("exit_conn", 2), Do("read", 2), Do("shutdown", 2), Do("assemble", 2)>>
run_once54 ==
    <<Do("clean", 0), Do("predicate", 0), Do("exit_root", 0), Do("read", 0), Do("kill", 0),
      Do("self_crash", 1), Do("exit_conn", 1), Do("predicate", 1), Do("kill", 1),
      Do("clean", 2), Do("exit_root", 2), Do("exit_conn", 2), Do("read", 2), Do("shutdown", 2), Do("assemble", 2)>>

\* Experiment 55 has an actor for each phase, and nothing of a phase enters the
\* next: the phases are programs of their own.  The preflight arms are islands
\* 1 and 2; phase 1 has a clean and a crashing island for each timeout.
Arm(i) == <<Do("preflight", i), Do("idle", i), Do("exit_root", i), Do("kill", i)>>
run_preflight == Arm(1) \o Arm(2) \o <<Do("shutdown", 2), Do("attribute", 2)>>

CleanCell(t) == 2 * t - 1
CrashCell(t) == 2 * t
CleanIsland(i, rest) == <<Do("clean", i), Do("predicate", i), Do("marker", i)>> \o rest \o <<Do("kill", i), Do("classify", i)>>
CrashIsland(i) == <<Do("self_crash", i), Do("predicate", i), Do("kill", i), Do("classify", i)>>
run_phase1 ==
    LET n == Len(Timeouts)
        cell(t) == CleanIsland(CleanCell(t), <<Do("exit_root", CleanCell(t))>>) \o CrashIsland(CrashCell(t))
        Steps == 10    \* of a cell
    IN  [s \in 1..(Steps * n) |-> cell(1 + ((s - 1) \div Steps))[1 + ((s - 1) % Steps)]]
          \o <<Do("shutdown", CrashCell(n)), Do("assemble", CrashCell(n))>>
run_sleep_control == CleanIsland(1, <<>>) \o <<Do("shutdown", 1), Do("return", 1)>>
run_boundary_probe == CrashIsland(1) \o <<Do("shutdown", 1), Do("return", 1)>>

Script == CASE program = "exp53" -> run_once53
            [] program = "exp54" -> run_once54
            [] program = "preflight55" -> run_preflight
            [] program = "sleep55" -> run_sleep_control
            [] program = "boundary55" -> run_boundary_probe
            [] OTHER -> run_phase1
Op == Script[step].op
Isl == Script[step].isl
Last == IF step = 1 THEN 0 ELSE Script[step - 1].isl

At(op) == pc = "call" /\ Op = op
Record(fs) == got' = got \cup Facts(Isl, fs)
SameRun == UNCHANGED <<program, obs>>

-----------------------------------------------------------------------------
(* launch_island: the root, then the connector once root.ready is there.   *)
(* The island is registered when the method returns; an exception on the   *)
(* way leaves its root to nobody.  The preflight actor registers at once.  *)

Launches == {"victim", "clean", "self_crash", "preflight"}
Registers(now) == reg' = IF now THEN reg \cup {Isl} ELSE reg

PopenRoot ==
    /\ pc = "call" /\ Op \in Launches
    /\ \/ Popen(Last, Op) /\ pc' = "ready" /\ Registers(Op = "preflight") /\ UNCHANGED step /\ Expected
       \/ Fault /\ Raise /\ UNCHANGED <<island, old, reg>>
    /\ UNCHANGED <<got, verdict>> /\ SameRun

Launched(ready, joined) ==
    /\ NextStep /\ Registers(TRUE)
    /\ Record({"root_started"} \cup If(ready, "ready") \cup If(joined, "joined"))

AwaitReady ==
    /\ pc = "ready"
    /\ \E ok \in BOOLEAN :
         /\ WaitFile({"root.ready"}, root, ok)
         /\ IF ok /\ Live(root)
            THEN conn' = "boot" /\ pc' = "join" /\ UNCHANGED <<step, reg, got>>
            ELSE Launched(ok, FALSE) /\ UNCHANGED conn
    /\ UNCHANGED <<kind, root, agas, files, res, old, verdict>> /\ SameRun
PopenConnFails ==
    /\ pc = "ready" /\ "root.ready" \in files /\ Fault /\ Raise
    /\ UNCHANGED <<island, old, reg, got, verdict>> /\ SameRun
AwaitJoined ==
    /\ pc = "join"
    /\ \E ok \in BOOLEAN : WaitFile({"joined1", "unjoined"}, conn, ok)
    /\ Launched(TRUE, "joined1" \in files)
    /\ UNCHANGED <<island, old, verdict>> /\ SameRun
launch_island == PopenRoot \/ AwaitReady \/ PopenConnFails \/ AwaitJoined

\* ray.get of any other call: the actor died or the call timed out.
RayGetFails ==
    /\ pc = "call" /\ Op \notin Launches \cup {"shutdown", "attribute", "classify", "assemble", "return"}
    /\ Fault /\ Raise /\ UNCHANGED <<island, old, reg, got, verdict>> /\ SameRun

\* A call that only looks, and records facts.
Looks(op, fs) ==
    /\ At(op) /\ NextStep /\ Record(fs)
    /\ UNCHANGED <<island, old, reg, verdict>> /\ SameRun

-----------------------------------------------------------------------------
(* Experiment 53: the supervisor kills the connector in mid-action.        *)

Injected == HasAll(Isl, {"ready", "joined"})

inject_connector_loss ==
    /\ At("inject") /\ NextStep
    /\ IF Injected
       THEN \E ok \in BOOLEAN :
              /\ WaitFile({"action_started"}, conn, ok)
              /\ conn' = Killed(conn)
              /\ Record({"injected"} \cup If(ok, "action_started"))
       ELSE Expected /\ UNCHANGED <<conn, got>>
    /\ UNCHANGED <<kind, root, agas, files, res, old, reg, verdict>> /\ SameRun
wait_loss_witness ==
    IF Injected
    THEN \E ok \in BOOLEAN :
           /\ WaitFile({"result"}, root, ok)
           /\ Looks("witness", If("result" \in files /\ "lost" \in res, "lost"))
    ELSE Looks("witness", {}) /\ Expected
mark_poisoned == Looks("mark", If(Has(Isl, "lost"), "marked")) /\ Expected

\* kill_island: SIGKILL to both, then a bounded wait for each.
KillIsland(wanted) ==
    /\ At("kill") /\ NextStep
    /\ IF wanted THEN KillBoth ELSE Expected /\ UNCHANGED <<root, conn>>
    /\ Record(IF wanted
              THEN If(~Live(root') /\ ~Live(conn'), "reaped") \cup If(root' = "killed", "sigkill")
                   \cup If("idle_cap" \in files, "idle_cap")
              ELSE {})
    /\ UNCHANGED <<kind, agas, files, res, old, reg, verdict>> /\ SameRun
kill_island53 == program = "exp53" /\ KillIsland(Injected)
kill_island == program # "exp53" /\ KillIsland(TRUE)

-----------------------------------------------------------------------------
(* Experiment 54: the health predicate.  A snapshot takes four looks, one  *)
(* after the other, while the island goes on.                              *)

\* Faulty variant: the departure is looked for before the process.
DepartureFirst == <<"disc", "conn", "root", "clean">>

SnapshotOrder == <<"conn", "disc", "root", "clean">>

Snap(o) ==
    CASE SnapshotOrder[o.look] = "conn" -> [o EXCEPT !.dead = Dead(conn)]
      [] SnapshotOrder[o.look] = "disc" -> [o EXCEPT !.disc = "disconnected1" \in files]
      [] SnapshotOrder[o.look] = "root" -> [o EXCEPT !.rootrc = IF Live(root) THEN "run"
                                                                ELSE IF root = "exit0" THEN "zero" ELSE "other"]
      [] OTHER -> [o EXCEPT !.clean = "result" \in files /\ ~Failing]
Poison(o) == o.dead /\ ~o.disc /\ o.rootrc # "zero" /\ ~o.clean

\* The loop ends with a clean result, with poison, or at the deadline; then
\* one more snapshot is taken and decides together with what was found.
BeginPredicate ==
    /\ At("predicate") /\ pc' = "snap" /\ obs' = [NoObs EXCEPT !.look = 1]
    /\ Expected /\ UNCHANGED <<program, step, old, reg, got, verdict>> /\ UNCHANGED island
Look ==
    /\ pc = "snap" /\ obs.look <= 4
    /\ obs' = [Snap(obs) EXCEPT !.look = @ + 1]
    /\ Expected /\ UNCHANGED <<program, step, pc, old, reg, got, verdict>> /\ UNCHANGED island
Decide ==
    /\ pc = "snap" /\ obs.look = 5 /\ obs.found = "none"
    /\ obs' = [obs EXCEPT !.look = 1, !.n = @ + 1,
                          !.found = IF obs.clean THEN "clean" ELSE IF Poison(obs) THEN "poison" ELSE "none"]
    /\ Expected /\ UNCHANGED <<program, step, pc, old, reg, got, verdict>> /\ UNCHANGED island
    /\ obs.n < MaxSnaps \/ obs.clean \/ Poison(obs)
Deadline ==
    /\ pc = "snap" /\ obs.look = 5 /\ obs.found = "none" /\ ~obs.clean /\ ~Poison(obs)
    /\ obs' = [obs EXCEPT !.look = 1, !.found = "deadline"]
    /\ Over(Quiet) /\ UNCHANGED <<program, step, pc, old, reg, got, verdict>> /\ UNCHANGED island
Classification(completed, poisoned) ==
    IF completed THEN "clean_complete" ELSE IF poisoned THEN "poisoned" ELSE "indeterminate"
Conclude ==
    /\ pc = "snap" /\ obs.look = 5 /\ obs.found # "none"
    /\ LET completed == obs.found = "clean" \/ obs.clean
           poisoned == obs.found = "poison" \/ (Poison(obs) /\ ~completed)
       IN  Record({Classification(completed, poisoned)} \cup If(poisoned, "is_poisoned")
                  \cup If(obs.dead, "not_alive") \cup If(obs.dead /\ conn = "abort", "self_crashed")
                  \cup If(~obs.disc, "no_disconnect") \cup If(~completed, "no_completion")
                  \cup If(obs.rootrc # "zero", "root_not_clean"))
    /\ obs' = NoObs /\ NextStep
    /\ Expected /\ UNCHANGED <<program, old, reg, verdict>> /\ UNCHANGED island
evaluate_health_predicate == BeginPredicate \/ Look \/ Decide \/ Deadline \/ Conclude

\* The calibration waits for the root of a clean island only after its marker.
Awaited == program = "exp55" => Has(Isl, "marker")
wait_exit ==
    \/ ~Awaited /\ Expected /\ Looks("exit_root", {})
    \/ \E ok \in BOOLEAN : Awaited /\ WaitExit(root, ok) /\ Looks("exit_root", If(root = "exit0", "root_exit0") \cup If(ok, "self_exited"))
    \/ \E ok \in BOOLEAN : WaitExit(conn, ok) /\ Looks("exit_conn", If(conn = "exit0", "conn_exit0"))
read_result ==
    /\ Expected
    /\ Looks("read", If("result" \in files, "result") \cup If("result" \in files /\ "proved" \in res, "proved")
                     \cup If("disc_clean" \in files, "disc_clean"))

\* shutdown sweeps every registered process; the call is wrapped, so that a
\* supervisor that no longer answers leaves them running, and is killed.
Sweep ==
    \/ /\ old' = {p \in old : p[1] \notin reg} /\ Expected
       /\ IF Isl \in reg THEN root' = Killed(root) /\ conn' = Killed(conn) ELSE UNCHANGED <<root, conn>>
    \/ (Live(root) \/ Live(conn) \/ old # {}) /\ Fault /\ UNCHANGED <<old, root, conn>>
shutdown ==
    /\ At("shutdown") /\ Sweep /\ NextStep
    /\ UNCHANGED <<kind, agas, files, res, reg, got, verdict>> /\ SameRun
Raised ==
    /\ pc = "raised" /\ Sweep /\ pc' = "done" /\ verdict' = "crash"
    /\ UNCHANGED <<step, kind, agas, files, res, reg, got>> /\ SameRun

\* pgrep: TRUE, FALSE, or an error that counts as an orphan.
_orphan_check(clean) ==
    \/ clean = (Running(Isl) \cup old = {}) /\ Expected
    \/ ~clean /\ Fault

-----------------------------------------------------------------------------
(* The verdicts of 53 and 54.                                              *)

\* Faulty variant: any result file will do.
RestartedUnproved == HasAll(2, {"root_started", "joined", "result", "disc_clean", "conn_exit0", "root_exit0"})

Restarted == HasAll(2, {"root_started", "joined", "result", "proved", "disc_clean", "conn_exit0", "root_exit0"})
_assemble53(no_orphans) ==
    /\ HasAll(1, {"root_started", "joined", "action_started", "injected", "lost", "marked", "sigkill", "reaped"})
    /\ ~Has(1, "idle_cap") /\ Restarted /\ no_orphans
_assemble54(no_orphans) ==
    /\ HasAll(0, {"root_started", "joined"}) /\ ~Has(0, "is_poisoned")
    /\ HasAll(1, {"self_crashed", "not_alive", "no_completion", "no_disconnect", "root_not_clean",
                  "is_poisoned", "poisoned", "sigkill", "reaped"})
    /\ ~Has(1, "idle_cap") /\ Restarted /\ no_orphans

-----------------------------------------------------------------------------
(* Experiment 55.                                                          *)

\* The preflight waits for the idle cap, then for the root to end by itself.
AwaitIdle ==
    \E ok \in BOOLEAN :
        /\ WaitFile({"idle_cap"}, root, ok)
        /\ Looks("idle", If(ok, "reached_finalize") \cup If("result" \in files /\ "two" \in res, "registered"))

genuine(i) == HasAll(i, {"registered", "reached_finalize"})
SelfBounds ==
    IF ~genuine(1) \/ Has(1, "self_exited") THEN "inconclusive"
    ELSE IF genuine(2) /\ Has(2, "self_exited") THEN "true" ELSE "false"
Attribute ==
    /\ At("attribute") /\ pc' = "done" /\ verdict' = SelfBounds /\ Expected
    /\ UNCHANGED <<island, step, old, reg, got>> /\ SameRun

\* The driver itself polls for the clean marker after the predicate returned.
AwaitMarker == \E ok \in BOOLEAN : WaitFile({"result"}, "boot", ok) /\ Looks("marker", If(ok, "marker"))

_classify_clean(class, marker) ==
    CASE class = "clean_complete" -> "clean_correct"
      [] class = "poisoned" -> "false_positive"
      [] OTHER -> IF marker THEN "late_clean" ELSE "indeterminate_cell"
_classify_self_crash(class) ==
    CASE class = "poisoned" -> "poison_correct"
      [] class = "clean_complete" -> "false_negative"
      [] OTHER -> "indeterminate_cell"

ClassOf(i) == CHOOSE c \in {"clean_complete", "poisoned", "indeterminate"} : Has(i, c)
Classify ==
    /\ At("classify") /\ NextStep /\ Expected
    /\ got' = {g \in got : g[1] # Isl}
              \cup Facts(Isl, {IF kind = "clean" THEN _classify_clean(ClassOf(Isl), Has(Isl, "marker"))
                               ELSE _classify_self_crash(ClassOf(Isl))})
    /\ UNCHANGED <<island, old, reg, verdict>> /\ SameRun

\* A timeout is stable when both its islands were judged right; the floor is
\* the smallest such; a false positive elsewhere is a finding, not a failure.
cell_stable(t) == Has(CleanCell(t), "clean_correct") /\ Has(CrashCell(t), "poison_correct")
floor == {t \in DOMAIN Timeouts : cell_stable(t) /\ \A u \in DOMAIN Timeouts : cell_stable(u) => Timeouts[t] <= Timeouts[u]}
assemble55(no_orphans) == floor # {} /\ no_orphans

Assemble ==
    /\ At("assemble") /\ pc' = "done"
    /\ \E clean \in BOOLEAN :
         /\ _orphan_check(clean)
         /\ LET pass == CASE program = "exp53" -> _assemble53(clean)
                          [] program = "exp54" -> _assemble54(clean)
                          [] OTHER -> assemble55(clean)
            IN  verdict' = IF pass THEN "pass" ELSE "fail"
    /\ UNCHANGED <<island, step, old, reg, got>> /\ SameRun

\* The sleep control and the boundary probe only report.
Return ==
    /\ At("return") /\ pc' = "done" /\ verdict' = "reported" /\ Expected
    /\ UNCHANGED <<island, step, old, reg, got>> /\ SameRun

\* main skips when the binary is not built or ray cannot be imported.
Skip ==
    /\ step = 1 /\ pc = "call" /\ pc' = "done" /\ verdict' = "skip" /\ Expected
    /\ UNCHANGED <<island, step, old, reg, got>> /\ SameRun

PoisonPrograms == {"exp53", "exp54", "exp55", "preflight55", "sleep55", "boundary55"}
PoisonDriver ==
    /\ program \in PoisonPrograms
    /\ \/ launch_island \/ RayGetFails \/ inject_connector_loss \/ wait_loss_witness \/ mark_poisoned
       \/ kill_island53 \/ kill_island \/ evaluate_health_predicate \/ wait_exit \/ read_result
       \/ shutdown \/ Raised \/ AwaitIdle \/ Attribute \/ AwaitMarker \/ Classify \/ Assemble \/ Return \/ Skip
=============================================================================
