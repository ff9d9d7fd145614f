------------------------------- MODULE Island -------------------------------
(***************************************************************************)
(* The actor-hosted HPX island that the lifecycle experiments supervise: a *)
(* work-free root process (locality 0), two Ray actors whose workers host  *)
(* HPX connectors in process, the rendezvous files they exchange, and, for *)
(* the cross-node phases, the Ray head and worker launchers.  The          *)
(* supervising programs (Slice1 ... Slice4, Rep66 ... Rep69) extend this   *)
(* module: they drive the island through the operators below and read      *)
(* nothing of it but what those operators return.                          *)
(*                                                                         *)
(* A fault is a spontaneous crash, a stalled refresh loop, a wait that     *)
(* ends in its timeout although what it waits for could still come, or a   *)
(* failed system call.  MaxFaults bounds them for each program; a run       *)
(* without any is clean.                                                   *)
(***************************************************************************)
EXTENDS Integers, FiniteSets, Sequences

CONSTANT MaxFaults           \* faults in one run of each program

VARIABLES
    program,    \* the supervising program that runs
    place,      \* "local" or "cross": which live driver runs
    cluster,    \* Ray launchers: none, head, both, down
    root,       \* the root process
    act,        \* the worker process of each connector actor
    stale,      \* connectors that died as members: AGAS still counts them
    files,      \* rendezvous files present in the island directory
    finalMembers, \* membership the root wrote into root.final
    faults,     \* faults so far
    log         \* what really happened: set of <<arm, who, what>> (ghost)

islandVars == <<place, cluster, root, act, stale, files, finalMembers>>
envVars == <<islandVars, faults, log>>

Conns == {"a", "b"}

RootStates == {"none", "booting", "serving", "stalled", "leaving", "exited", "dead"}
\* "renewed": a new worker is up while its killed predecessor is still dying.
ActorStates == {"none", "up", "joined", "left", "renewed", "dying", "dead"}

\* Rendezvous files, by what they say.
Files == {"ready", "completion", "done", "final",
          "local", "demand", "finish", "admission", "joined", "served", "unserved", "leave_seen",
          "disconnected", "deadman", "conn_exit0",
          "prober_joined", "probe_go", "probe_good", "probe_bad", "prober_left", "prober_deadman",
          "roles", "roles_c", "root_joined", "verified", "fencing", "force", "effect", "replace",
          "result", "verified_bad", "unfenced", "force_bad", "result_bad"}

IslandTypeOK ==
    /\ place \in {"local", "cross"}
    /\ cluster \in {"none", "head", "both", "down"}
    /\ root \in RootStates
    /\ act \in [Conns -> ActorStates]
    /\ stale \subseteq Conns
    /\ files \subseteq Files
    /\ finalMembers \in 0..3
    /\ faults \in 0..MaxFaults[program]

IslandInit ==
    /\ place \in {"local", "cross"}
    /\ cluster = "none"
    /\ root = "none"
    /\ act = [k \in Conns |-> "none"]
    /\ stale = {}
    /\ files = {}
    /\ finalMembers = 0
    /\ faults = 0
    /\ log = {}

RootAlive == root \in {"booting", "serving", "stalled", "leaving"}
RootServes == root \in {"serving", "stalled"}

\* Processes that no kill has been sent to.
Running == {k \in Conns : act[k] \in {"up", "joined", "left", "renewed"}}

\* hpx::find_all_localities: a connector that was killed is never removed.
Members == 1 + Cardinality({k \in Conns : act[k] = "joined"} \cup stale)

-----------------------------------------------------------------------------
(* The environment.                                                        *)

Fault == faults < MaxFaults[program] /\ faults' = faults + 1

\* What can succeed fails only by a fault.
Outcome(ok, can) ==
    \/ can /\ (IF ok THEN UNCHANGED faults ELSE Fault)
    \/ ~can /\ ~ok /\ UNCHANGED faults

\* root_hpx_main: HPX is up, root.ready is written and the refresh loop entered.
RootBoot ==
    /\ root = "booting"
    /\ root' = "serving"
    /\ files' = files \cup {"ready"}
    /\ UNCHANGED <<place, cluster, act, stale, finalMembers, faults, log>>

\* The loop saw root.done and nobody but itself: leave observed, root.final.
RootLeave(arm) ==
    /\ root = "serving" /\ "done" \in files /\ Members = 1
    /\ root' = "leaving"
    /\ files' = files \cup {"final"}
    /\ finalMembers' = 1
    /\ log' = log \cup {<<arm, "root", "alone">>}
    /\ UNCHANGED <<place, cluster, act, stale, faults>>

\* Somebody has not left: the loop gives up after --leave-timeout.  That is a
\* fault only while somebody is about to leave.
RootGivesUp ==
    /\ root = "serving" /\ "done" \in files /\ Members > 1
    /\ root' = "leaving"
    /\ files' = files \cup {"final"}
    /\ finalMembers' = Members
    /\ UNCHANGED <<place, cluster, act, stale, log>>

RootLeaveTimeout == RootGivesUp /\ UNCHANGED faults

\* hpx::finalize returned and the process exits with 0.
RootExit(arm) ==
    /\ root = "leaving"
    /\ root' = "exited"
    /\ log' = log \cup {<<arm, "root", "clean">>}
    /\ UNCHANGED <<place, cluster, act, stale, files, finalMembers, faults>>

RootCrash ==
    /\ RootAlive /\ Fault
    /\ root' = "dead"
    /\ UNCHANGED <<place, cluster, act, stale, files, finalMembers, log>>

\* The refresh loop is starved for longer than a refresh period, then resumes.
RootStall(arm) ==
    /\ root = "serving" /\ Fault
    /\ root' = "stalled"
    /\ log' = log \cup {<<arm, "root", "stalled">>}
    /\ UNCHANGED <<place, cluster, act, stale, files, finalMembers>>

RootResume ==
    /\ root = "stalled"
    /\ root' = "serving"
    /\ UNCHANGED <<place, cluster, act, stale, files, finalMembers, faults, log>>

ActorCrash(k) ==
    /\ k \in Running /\ Fault
    /\ act' = [act EXCEPT ![k] = IF @ = "renewed" THEN "dying" ELSE "dead"]
    /\ stale' = IF act[k] = "joined" THEN stale \cup {k} ELSE stale
    /\ UNCHANGED <<place, cluster, root, files, finalMembers, log>>

\* A killed worker is reaped.
ActorGone(k) ==
    /\ act[k] \in {"dying", "renewed"}
    /\ act' = [act EXCEPT ![k] = IF @ = "renewed" THEN "up" ELSE "dead"]
    /\ UNCHANGED <<place, cluster, root, stale, files, finalMembers, faults, log>>

\* Steps a process takes of its own accord, within the waits of the programs.
Progress(arm) ==
    \/ RootBoot \/ RootLeave(arm) \/ RootLeaveTimeout \/ RootExit(arm) \/ RootResume
    \/ \E k \in Conns : ActorGone(k)

Mishap(arm) == RootCrash \/ RootStall(arm) \/ \E k \in Conns : ActorCrash(k)

-----------------------------------------------------------------------------
(* What the programs do to the island and learn from it.                   *)


\* A fresh island directory and root process for an arm or an epoch.
NewIsland(arm) ==
    /\ root' = "booting"
    /\ act' = [k \in Conns |-> "none"]
    /\ stale' = {} /\ files' = {} /\ finalMembers' = 0
    /\ log' = IF RootAlive \/ \E k \in Conns : act[k] \notin {"none", "dead"}
              THEN log \cup {<<arm, "root", "overlap">>} ELSE log

\* Faulty variant: the wait has no deadline and does not look at the process.
WaitForFileForever(f, ok) == ok /\ f \in files /\ UNCHANGED faults

\* _wait_for_file: true as soon as the file exists; false when the process
\* behind it is gone, or at the deadline.
WaitForFile(f, ok) ==
    /\ ok <=> f \in files
    /\ Outcome(ok, RootAlive \/ f \in files)

\* _ray_get of a call to a live actor returns, or expires; to a dead one it
\* raises.  Both failures become an error record.
RayGet(k, ok) == Outcome(ok, k \in Running)

\* HpxActor.start_hpx: joins while the root serves.  A call that expired may
\* have joined all the same.
StartHpx(k, ok) ==
    LET can == k \in Running /\ RootServes
    IN  /\ Outcome(ok, can)
        /\ \/ can /\ act' = [act EXCEPT ![k] = "joined"]
           \/ ~ok /\ UNCHANGED act

\* HpxActor.stop_hpx returns 0 when the connector left the island.  A call
\* that expired may have left all the same.
StopHpx(k, ok, arm) ==
    LET can == act[k] = "joined" /\ RootServes
    IN  /\ Outcome(ok, can)
        /\ \/ can /\ act' = [act EXCEPT ![k] = "left"]
           \/ ~ok /\ UNCHANGED act
        /\ log' = IF ok THEN log \cup {<<arm, k, "left">>} ELSE log

\* HpxActor.health: ok with the membership AGAS reports.
Health(k, ok) == Outcome(ok, act[k] = "joined" /\ RootServes)

\* One top-k case: both local calls and both coordinations must succeed.
TopKCase(ok) == Outcome(ok, \A k \in Conns : act[k] = "joined")

\* ray.kill: SIGKILL to the worker; its locality stays registered.
Killed(ks) ==
    /\ act' = [k \in Conns |-> IF k \in ks /\ k \in Running THEN "dying" ELSE act[k]]
    /\ stale' = stale \cup {k \in ks : act[k] = "joined"}

\* wait_pid_gone: true once the process is reaped, false at the deadline.
WaitPidGone(ks, ok) ==
    /\ ok <=> \A k \in ks : act[k] \in {"none", "dead"}
    /\ Outcome(ok, TRUE)

\* _kill_group / os.kill(SIGKILL) on the root.
KilledRoot == root' = IF RootAlive THEN "dead" ELSE root

\* _wait_proc then _exit_path: the root is waited for, and killed at the deadline.
WaitRoot(path) ==
    \/ path = "finalized_clean" /\ root = "exited" /\ UNCHANGED <<root, faults>>
    \/ path = "self_terminated_nonzero" /\ root = "dead" /\ UNCHANGED <<root, faults>>
    \/ path = "hung_killed_by_harness" /\ RootAlive /\ root' = "dead" /\ Fault

ExitPaths == {"finalized_clean", "self_terminated_nonzero", "hung_killed_by_harness"}

NobodyLeft == ~RootAlive /\ \A k \in Conns : act[k] \in {"none", "dead"}
=============================================================================
