-------------------------------- MODULE Rep --------------------------------
(***************************************************************************)
(* One repetition of experiments 66 to 69, as their runners copy it: a     *)
(* fresh root, two actors that join its island, work between them, a       *)
(* graceful leave, the destruction and re-creation of the actors, the end  *)
(* of the root, and a verdict from the markers collected on the way.  The  *)
(* operators take from the experiment what differs: the methods of its     *)
(* actor class, Call(k, method, ok), and its verdict.                      *)
(*                                                                         *)
(* A local repetition does not catch an exception: its finally clause      *)
(* kills what it started and the program ends without an aggregate.  The   *)
(* cross-node phase catches it, cleans up and reports fail.                *)
(***************************************************************************)
EXTENDS Supervisor

Reps == <<"rep1", "rep2">>      \* args.reps

RepInit(p) == IslandInit /\ SupervisorInit(p, Reps[1], "running")

Same == UNCHANGED <<arm, sm, obs>> /\ SameRun

Started == \A k \in Conns : Ok(arm, k, "start")
Joined == \A k \in Conns : act[k] = "joined"

\* What the two actor classes have in common: start_hpx and stop_hpx change
\* the island, health needs HPX, the rest needs only the worker process.
ActorMethod(k, method, ok) ==
    \/ method = "start_hpx" /\ StartHpx(k, ok) /\ UNCHANGED log
    \/ method = "stop_hpx" /\ StopHpx(k, ok, arm)
    \/ method = "health" /\ Health(k, ok) /\ UNCHANGED <<act, log>>
    \/ method = "child_report" /\ RayGet(k, ok) /\ UNCHANGED <<act, log>>

-----------------------------------------------------------------------------
(* The steps, in the order of the code.                                    *)

\* A fresh bootstrap directory and root process; _popen may raise.
RepLaunch ==
    /\ At("launch")
    /\ \/ NewIsland(arm) /\ Goto("ready") /\ UNCHANGED <<faults, exc>>
       \/ Fault /\ Raise /\ UNCHANGED <<root, act, stale, files, finalMembers, log>>
    /\ UNCHANGED <<cluster, rec>> /\ Same

\* The actor is created, placed and asked for its identity; then start_hpx
\* and child_report.  Nothing stops the repetition when they fail.
RepActor(k, next) ==
    /\ act' = [act EXCEPT ![k] = "up"]
    /\ \E ok \in BOOLEAN : Outcome(ok, TRUE) /\ Put(k, "identity", ok)
    /\ Goto(next)
    /\ UNCHANGED <<cluster, root, stale, files, finalMembers, log, exc>> /\ Same

RepStart(k, Call(_, _, _), next) ==
    /\ \E ok \in BOOLEAN :
         /\ Call(k, "start_hpx", ok)
         /\ rec' = (<<arm, k, "start">> :> ok)
                   @@ (<<arm, k, "members">> :>
                         IF ok THEN 1 + Cardinality({j \in Conns : act'[j] = "joined"} \cup stale) ELSE 0)
                   @@ rec
    /\ Goto(next)
    /\ UNCHANGED <<cluster, root, stale, files, finalMembers, exc>> /\ Same

RepChild(k, Call(_, _, _), next) ==
    /\ \E ok \in BOOLEAN : Call(k, "child_report", ok) /\ Put(k, "child", ok)
    /\ Goto(next)
    /\ UNCHANGED <<cluster, root, stale, files, finalMembers, exc>> /\ Same

RepJoin(Call(_, _, _)) ==
    \/ At("actor_a") /\ RepActor("a", "start_a")
    \/ At("start_a") /\ RepStart("a", Call, "child_a")
    \/ At("child_a") /\ RepChild("a", Call, "actor_b")
    \/ At("actor_b") /\ RepActor("b", "start_b")
    \/ At("start_b") /\ RepStart("b", Call, "child_b")
    \/ At("child_b") /\ RepChild("b", Call, "work")

\* The gating work, only when both localities are known: every call is made
\* and the first that failed is kept; Results holds "ok" and the ways to fail.
RepWork(Results) ==
    /\ At("work")
    /\ \/ /\ Started
          /\ \E r \in Results :
               /\ Outcome(r = "ok", Joined)
               /\ Put("run", "work", r)
               /\ log' = IF r = "ok" THEN log \cup {<<arm, "run", "worked">>} ELSE log
       \/ ~Started /\ UNCHANGED <<rec, faults, log>>
    /\ Goto("health_a")
    /\ UNCHANGED <<cluster, root, act, stale, files, finalMembers, exc>> /\ Same

\* The actors are asked for their health after the work.
RepHealth(k, Call(_, _, _), next) ==
    /\ \E ok \in BOOLEAN : Call(k, "health", ok) /\ Put(k, "health", ok)
    /\ Goto(next)
    /\ UNCHANGED <<cluster, root, stale, files, finalMembers, exc>> /\ Same

RepHealths(Call(_, _, _)) ==
    \/ At("health_a") /\ RepHealth("a", Call, "health_b")
    \/ At("health_b") /\ RepHealth("b", Call, "saturate")

\* The diagnostic under saturation is classified and never gates.
RepSaturate(known, classify(_, _)) ==
    /\ At("saturate")
    /\ \/ /\ known
          /\ \E overlap, progressed \in BOOLEAN :
               /\ Outcome(overlap /\ progressed, Joined)
               /\ Put("run", "saturation", classify(overlap, progressed))
       \/ ~known /\ UNCHANGED <<rec, faults>>
    /\ Goto("stop_a")
    /\ SameIsland /\ UNCHANGED exc /\ Same

RepStop(k, Call(_, _, _), next) ==
    /\ \E ok \in BOOLEAN : Call(k, "stop_hpx", ok) /\ Put(k, "stopped", ok)
    /\ Goto(next)
    /\ UNCHANGED <<cluster, root, stale, files, finalMembers, exc>> /\ Same

RepStops(Call(_, _, _)) ==
    \/ At("stop_a") /\ RepStop("a", Call, "stop_b")
    \/ At("stop_b") /\ RepStop("b", Call, "discard")

\* wait_pid_gone of both workers; across nodes, a ping that must raise.
RepDestroyed(local) ==
    /\ At("destroyed")
    /\ \E ok \in BOOLEAN :
         /\ IF local THEN WaitPidGone(Conns, ok) ELSE Outcome(ok, TRUE)
         /\ Put("run", "destroyed", ok)
    /\ Goto("recreate")
    /\ SameIsland /\ UNCHANGED exc /\ Same

\* Fresh actors answer a ping, without HPX; then root.done.
RepRecreate ==
    /\ At("recreate")
    /\ act' = [k \in Conns |-> IF act[k] = "dying" THEN "renewed" ELSE "up"]
    /\ \E bad \in {"none"} \cup Conns :
         /\ Outcome(bad = "none", TRUE)
         /\ rec' = [x \in {<<arm, k, "recreate">> : k \in Conns} |-> x[2] # bad] @@ rec
    /\ files' = files \cup {"done"}
    /\ Goto("await_final")
    /\ UNCHANGED <<cluster, root, stale, finalMembers, log, exc>> /\ Same

\* The new actors are killed and every worker looked for; then the peers.  A
\* worker whose ping gave no pid counts as gone.  Across nodes a kill counts
\* once a ping raises, and the peers of every node are looked for by srun.
RepRetire(local) ==
    \/ /\ At("retire")
       /\ Killed(Conns)
       /\ Goto("gone")
       /\ UNCHANGED <<cluster, root, files, finalMembers, faults, log, rec, exc>> /\ Same
    \/ /\ At("gone")
       /\ \E ok \in BOOLEAN :
            /\ IF local THEN WaitPidGone({k \in Conns : Ok(arm, k, "recreate")}, ok) ELSE Outcome(ok, TRUE)
            /\ rec' = (<<arm, "run", "no_orphans">> :>
                         (ok /\ ~RootAlive /\ (local \/ Ok(arm, "run", "destroyed"))))
                      @@ (<<arm, "run", "swept">> :> (ok \/ local)) @@ rec
       /\ Goto("finally")
       /\ SameIsland /\ UNCHANGED exc /\ Same

\* The finally clause of the repetition.
RepFinally ==
    /\ At("finally") \/ At("finalize")
    /\ Killed(Conns) /\ KilledRoot
    /\ Goto("verdict")
    /\ UNCHANGED <<cluster, files, finalMembers, faults, log, rec, exc>> /\ Same

\* The repetition's class is recorded and the next one starts, or the phase
\* ends.  Only the results of the repetitions outlive them.
RepVerdict(class_) ==
    /\ At("verdict") /\ ~exc
    /\ rec' = (<<arm, "rep", "class">> :> class_)
              @@ [x \in {y \in DOMAIN rec : y[3] \in {"class", "attested", "soak", "batches"}} |-> rec[x]]
    /\ LET last == arm = Reps[Len(Reps)]
       IN  /\ arm' = IF last THEN arm ELSE Reps[2]
           /\ Goto(IF last THEN "phase_end" ELSE "launch")
    /\ SameIsland /\ UNCHANGED <<faults, sm, exc, obs>> /\ SameRun

-----------------------------------------------------------------------------
(* The phases.                                                             *)

AllPassed == \A i \in DOMAIN Reps : Has(Reps[i], "rep", "class", "pass")

\* An exception of a local repetition leaves run_local_phase through its
\* finally clause: Ray is shut down and no aggregate is written.
LocalEnd ==
    /\ place = "local"
    /\ \/ At("verdict") /\ exc /\ Finish("crash", "none")
       \/ At("phase_end") /\ Finish(IF AllPassed THEN "pass" ELSE "fail", "none")
    /\ SameIsland /\ UNCHANGED <<faults, arm, sm, rec, exc, obs>>

\* Ray is stopped on every node, the launchers are terminated, and leftovers
\* of Ray and of the peers count against the run.
CrossEnd ==
    /\ place = "cross"
    /\ At("phase_end") \/ (At("verdict") /\ exc)
    /\ \E clean \in BOOLEAN :
         /\ Outcome(clean, TRUE)
         /\ Finish(IF ~exc /\ AllPassed /\ clean /\ ~RootAlive THEN "pass" ELSE "fail",
                   IF exc THEN "exception" ELSE IF clean THEN "none" ELSE "orphans")
    /\ cluster' = IF cluster = "none" THEN "none" ELSE "down"
    /\ UNCHANGED <<root, act, stale, files, finalMembers, log, arm, sm, rec, exc, obs>>
=============================================================================
