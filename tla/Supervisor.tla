----------------------------- MODULE Supervisor -----------------------------
(***************************************************************************)
(* What the programs that supervise an island have in common: a control    *)
(* point, the markers dictionary they fill and evaluate afterwards, the    *)
(* exception that ends a run early, and the verdict written last.  The     *)
(* markers are a partial function: a key that was never recorded is        *)
(* absent, as m.get(...) finds it, and fails every gate that asks for it.  *)
(***************************************************************************)
EXTENDS Island

VARIABLES
    pc,         \* its next step
    arm,        \* the arm (slices 3 and 4), epoch (slice 1) or phase it is in
    sm,         \* state of its lifecycle state machine
    rec,        \* markers: <<arm, who, what>> -> value
    exc,        \* a controller exception was caught
    obs,        \* the bounded observation under way
    overall,    \* verdict: none, pass, fail, skip, fail_preflight, crash
    class       \* failure class written with it

driverVars == <<program, pc, arm, sm, rec, exc, obs, overall, class>>
vars == <<envVars, driverVars>>

NoObs == [to |-> "none"]

\* The operators of the standard module TLC on functions, written out for
\* proofs; a set of one value has TLC evaluate that value once.
Only(S) == CHOOSE x \in S : TRUE
Merge(f, g) == [x \in DOMAIN f \cup DOMAIN g |-> IF x \in DOMAIN f THEN f[x] ELSE g[x]]
d :> e == [x \in {d} |-> e]
f @@ g == Only({Merge(p, q) : p \in {f}, q \in {g}})

SupervisorInit(p, first, state) ==
    /\ program = p /\ pc = "preflight" /\ arm = first /\ sm = state
    /\ rec = [x \in {} |-> TRUE] /\ exc = FALSE /\ obs = NoObs
    /\ overall = "none" /\ class = "none"

Put(who, what, v) == rec' = (<<arm, who, what>> :> v) @@ rec
Has(a, who, what, v) == <<a, who, what>> \in DOMAIN rec /\ rec[<<a, who, what>>] = v
Ok(a, who, what) == Has(a, who, what, TRUE)

At(l) == pc = l /\ UNCHANGED <<program, place>>
Goto(l) == pc' = l

\* An exception inside the driver's try block: recorded, then finalisation.
Raise == exc' = TRUE /\ pc' = "finalize"
OrRaise(ok, l) == IF ok THEN Goto(l) /\ UNCHANGED exc ELSE Raise

First(S) == CHOOSE i \in S : \A j \in S : i <= j

\* The class of the first failed gate in the rollup's order.
ClassOf(gates) ==
    LET bad == {i \in DOMAIN gates : ~gates[i][2]}
    IN  IF bad = {} THEN "pass" ELSE gates[First(bad)][1]
FirstFailed(gates) == Only({ClassOf(g) : g \in {gates}})

SameIsland == UNCHANGED <<cluster, root, act, stale, files, finalMembers, log>>
SameRun == UNCHANGED <<overall, class>>

\* The verdict file is written once, after cleanup, and the program returns.
Finish(v, c) == overall' = v /\ class' = c /\ pc' = "ended"

-----------------------------------------------------------------------------
(* Steps the programs share: each copies them, so each maps its own.       *)

\* The live driver returns at once when its preconditions do not hold, or,
\* across nodes, when the controller is not on the node of the root.
PreflightStep ==
    /\ At("preflight")
    /\ \/ Goto(IF place = "cross" THEN "head" ELSE "launch") /\ SameRun
       \/ Finish("skip", "none")
       \/ place = "cross" /\ Finish("fail_preflight", "none")
    /\ SameIsland /\ UNCHANGED <<faults, arm, sm, rec, exc, obs>>

\* Ray head on this node, reachable from the other one; then the other
\* node's Ray worker, ray.init, both nodes alive and their identity attested.
HeadStep ==
    /\ At("head")
    /\ cluster' = "head"
    /\ \E ok \in BOOLEAN : Outcome(ok, TRUE) /\ OrRaise(ok, "worker")
    /\ UNCHANGED <<root, act, stale, files, finalMembers, log, arm, sm, rec, obs>>
    /\ SameRun

WorkerStep ==
    /\ At("worker")
    /\ cluster' = "both"
    /\ \E ok \in BOOLEAN : Outcome(ok, TRUE) /\ Put("run", "attested", ok) /\ OrRaise(ok, "launch")
    /\ UNCHANGED <<root, act, stale, files, finalMembers, log, arm, sm, obs>>
    /\ SameRun

\* Fresh island directory, ports and root process.
LaunchStep ==
    /\ At("launch")
    /\ NewIsland(arm)
    /\ Goto("ready")
    /\ UNCHANGED <<cluster, faults, sm, rec, exc, obs, arm>> /\ SameRun

\* root.ready is awaited and read; its pid registers the root as owned.
ReadyStep ==
    /\ At("ready")
    /\ \E ok \in BOOLEAN : WaitForFile("ready", ok) /\ Put("root", "ready", ok)
    /\ Goto("actor_a")
    /\ SameIsland /\ UNCHANGED <<arm, sm, exc, obs>> /\ SameRun

\* The actor is created and asked for its identity.
ActorStep(k, next) ==
    /\ act' = [act EXCEPT ![k] = "up"]
    /\ \E ok \in BOOLEAN : /\ Outcome(ok, TRUE)
                           /\ Put(k, "identity", ok)
    /\ Goto(next)
    /\ UNCHANGED <<cluster, root, stale, files, finalMembers, log, arm, sm, exc, obs>>
    /\ SameRun

\* start_hpx and child_report: HPX runs inside the worker and nowhere else.
StartStep(k, next) ==
    /\ \E ok \in BOOLEAN : StartHpx(k, ok) /\ Put(k, "start", ok /\ Ok(arm, k, "identity"))
    /\ Goto(next)
    /\ UNCHANGED <<cluster, root, stale, files, finalMembers, log, arm, sm, exc, obs>>
    /\ SameRun

Joining(k) ==
    \/ At(IF k = "a" THEN "actor_a" ELSE "actor_b") /\ ActorStep(k, IF k = "a" THEN "start_a" ELSE "start_b")
    \/ At(IF k = "a" THEN "start_a" ELSE "start_b") /\ StartStep(k, IF k = "a" THEN "actor_b" ELSE "join")

\* health of both actors: the membership each sees, once both have joined.
JoinHealthStep ==
    /\ At("join")
    /\ \E oks \in [Conns -> BOOLEAN] :
         /\ Outcome(\A k \in Conns : oks[k], \A k \in Conns : act[k] = "joined" /\ RootServes)
         /\ \A k \in Conns : oks[k] => act[k] = "joined" /\ RootServes
         /\ rec' = [x \in {<<arm, k, "join">> : k \in {c \in Conns : oks[c]}} |-> Members] @@ rec
    /\ Goto("gates")
    /\ SameIsland /\ UNCHANGED <<arm, sm, exc, obs>> /\ SameRun

\* A linear lifecycle moves only to the successor state; anything else raises.
Advance(states, to, l) ==
    IF \E i \in 1..Len(states) - 1 : states[i] = sm /\ states[i + 1] = to
    THEN sm' = to /\ Goto(l) /\ UNCHANGED exc
    ELSE Raise /\ UNCHANGED sm

\* stop_hpx of one connector, and root.done after the last of them.
StopStep(k, last, next) ==
    /\ \E ok \in BOOLEAN : StopHpx(k, ok, arm) /\ Put(k, "stopped", ok)
    /\ files' = IF last THEN files \cup {"done"} ELSE files
    /\ Goto(next)
    /\ UNCHANGED <<cluster, root, stale, finalMembers, arm, sm, exc, obs>> /\ SameRun

\* root.final is awaited and read.
AwaitFinalStep(next) ==
    /\ At("await_final")
    /\ \E ok \in BOOLEAN :
         /\ WaitForFile("final", ok)
         /\ IF ok THEN Put("root", "final_membership", finalMembers) ELSE UNCHANGED rec
    /\ Goto(next)
    /\ SameIsland /\ UNCHANGED <<arm, sm, exc, obs>> /\ SameRun

AwaitExitStep(next) ==
    /\ At("await_exit")
    /\ \E path \in ExitPaths : WaitRoot(path) /\ Put("root", "exit_path", path)
    /\ Goto(next)
    /\ UNCHANGED <<cluster, act, stale, files, finalMembers, log, arm, sm, exc, obs>> /\ SameRun

\* ray.kill of both actors.
DiscardStep(next) ==
    /\ At("discard")
    /\ Killed(Conns)
    /\ Goto(next)
    /\ UNCHANGED <<cluster, root, files, finalMembers, faults, log, arm, sm, rec, exc, obs>>
    /\ SameRun

\* Faulty variant: only the actors are cleaned up.
FinalizeActorsOnly ==
    /\ At("finalize")
    /\ Killed(Conns)
    /\ Goto("sweep")
    /\ UNCHANGED <<cluster, root, files, finalMembers, faults, log, arm, sm, rec, exc, obs>> /\ SameRun

\* Cleanup after any outcome: everything that was ever launched is killed.
FinalizeStep ==
    /\ At("finalize")
    /\ Killed(Conns) /\ KilledRoot
    /\ Goto("sweep")
    /\ UNCHANGED <<cluster, files, finalMembers, faults, log, arm, sm, rec, exc, obs>> /\ SameRun

\* The owned processes are looked for, the verdict follows from the markers,
\* and the Ray launchers are taken down.
SweepStep(result) ==
    /\ At("sweep")
    /\ Finish(result.overall, result.class)
    /\ cluster' = IF cluster = "none" THEN "none" ELSE "down"
    /\ UNCHANGED <<root, act, stale, files, finalMembers, faults, log, arm, sm, rec, exc, obs>>

SupervisorTypeOK ==
    /\ IslandTypeOK
    /\ exc \in BOOLEAN
    /\ overall \in {"none", "pass", "fail", "skip", "fail_preflight", "crash"}
    /\ (pc = "ended") <=> (overall # "none")
=============================================================================
