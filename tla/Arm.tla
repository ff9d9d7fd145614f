-------------------------------- MODULE Arm --------------------------------
(***************************************************************************)
(* One arm of the same-axis experiments 61 to 64.  A Python driver embeds  *)
(* an HPX root, launches one connector per remote host with srun, waits    *)
(* until they have joined, makes its calls, and in a finally clause        *)
(* releases the connectors, reaps them and stops HPX; then it derives the  *)
(* verdict of its artifact from what it saw.  The Ray arm starts or joins  *)
(* a Ray cluster instead.  The experiments' own modules give the calls,    *)
(* the gates and what differs.                                             *)
(*                                                                         *)
(* A connector is a task of srun on its host: the driver only holds the    *)
(* local srun client.  It joins, answers, and disconnects when it finds    *)
(* the marker file it waits for, or when its serve timeout expires.  HPX   *)
(* and Ray are external; what departs from their normal course is a fault. *)
(***************************************************************************)
EXTENDS Naturals, Sequences, FiniteSets, TLC

CONSTANTS Remotes,      \* connector hosts, <<"r1", "r2">>
          K,            \* timed calls of one arm (args.k)
          MaxFaults     \* how many things go wrong in one invocation

VARIABLES arm,      \* the driver that runs
          pc,       \* its next step
          root,     \* the embedded HPX root: "off", "on" or "stuck"
          client,   \* the local srun client of each host: "none", "up", "ended", "killed"
          conn,     \* the connector process on each host
          files,    \* marker files in the bootstrap directories, and what they say
          attest,   \* what each connector's attestation file shows
          ray,      \* the Ray cluster: "off", "on", or "left" behind
          err,      \* the driver's variable error is set
          calls,    \* outcomes of the calls, in order
          seen,     \* facts the driver recorded for its gates
          art,      \* the artifacts it wrote, in order
          bad,      \* ghost: what went wrong on the way
          faults

armVars == <<arm, pc, root, client, conn, files, attest, ray, err, calls, seen, art, bad, faults>>

Hosts == {Remotes[i] : i \in DOMAIN Remotes}
At(p) == pc = p
Goto(p) == pc' = p
Fault == faults < MaxFaults /\ faults' = faults + 1
NoFault == UNCHANGED faults
FaultUnless(free) == IF free THEN NoFault ELSE Fault
\* A connector's states: it starts, serves, is told to go or gives up, and has
\* disconnected; or it never joined, or crashed.  Live: its process runs.
ConnStates == {"none", "up", "joined", "released", "expired", "served", "timeout", "failed", "died"}
Live == {"up", "joined", "released", "expired"}

\* The single-remote drivers use the first host only, the smokes none.
SingleRemote == {"connected", "colocated", "remote_smoke62", "fanout62"}
NoRemote == {"hpx_smoke", "hpx_local62"}
Targets == IF arm \in SingleRemote THEN {Remotes[1]}
           ELSE IF arm \in NoRemote THEN {} ELSE Hosts

ArmInit(arms) ==
    /\ arm \in arms /\ pc = "pre"
    /\ root = "off" /\ files = {} /\ ray = "off"
    /\ client = [r \in Hosts |-> "none"] /\ conn = [r \in Hosts |-> "none"]
    /\ attest = [r \in Hosts |-> {}]
    /\ err = FALSE /\ calls = <<>> /\ seen = {} /\ art = <<>>
    /\ bad = {} /\ faults = 0

SameHpx == UNCHANGED <<root, client, conn, files, attest>>
SameArm == UNCHANGED <<arm, ray>>
SameLog == UNCHANGED <<calls, seen, art>>

-----------------------------------------------------------------------------
(* The HPX side of a driver.                                               *)

\* The try clause is left by an exception: error is set, finally runs.
Raise(why) == err' = TRUE /\ bad' = bad \cup {why} /\ Goto("finally")
Proceed(p) == Goto(p) /\ UNCHANGED <<err, bad>>

\* Outside an allocation, or unbuilt, the driver returns with what it writes
\* for a skip; no remote host or no address on the subnet raises in the try.
Precondition(skipped) ==
    /\ At("pre")
    /\ \/ Proceed("start") /\ NoFault /\ UNCHANGED <<art, seen>>
       \/ Proceed("done") /\ NoFault /\ art' = skipped /\ UNCHANGED seen
       \/ Targets # {} /\ Fault /\ Raise("unresolved") /\ seen' = seen \cup {"unresolved"} /\ UNCHANGED art
    /\ UNCHANGED calls /\ SameHpx /\ SameArm

StartRoot ==
    /\ At("start")
    /\ \/ root' = "on" /\ Proceed("launch") /\ NoFault /\ seen' = seen \cup {"started"}
       \/ Fault /\ Raise("start") /\ UNCHANGED <<root, seen>>
    /\ UNCHANGED <<client, conn, files, attest, calls, art>> /\ SameArm

\* subprocess.Popen of the next srun, which may raise after some were started.
Launch ==
    /\ At("launch")
    /\ LET todo == {i \in DOMAIN Remotes : Remotes[i] \in Targets /\ client[Remotes[i]] = "none"}
       IN  \/ /\ todo # {}
              /\ LET i == CHOOSE i \in todo : \A j \in todo : i <= j
                 IN  \/ /\ client' = [client EXCEPT ![Remotes[i]] = "up"]
                        /\ conn' = [conn EXCEPT ![Remotes[i]] = "up"]
                        /\ NoFault /\ UNCHANGED <<pc, err, bad>>
                     \/ Fault /\ Raise("popen") /\ UNCHANGED <<client, conn>>
           \/ todo = {} /\ Proceed("await") /\ NoFault /\ UNCHANGED <<client, conn>>
    /\ UNCHANGED <<root, files, attest>> /\ SameArm /\ SameLog

\* Faulty variant: the wait ends only when every locality has joined.
AwaitForever ==
    /\ At("await") /\ \A r \in Targets : conn[r] = "joined"
    /\ Proceed("call") /\ NoFault /\ seen' = seen \cup {"joined"}
    /\ SameHpx /\ SameArm /\ UNCHANGED <<calls, art>>

\* await_remote(s) returns how many localities joined, at the latest after
\* its timeout; fewer than expected raises.
Await ==
    /\ At("await")
    /\ LET all == \A r \in Targets : conn[r] = "joined"
           lost == \E r \in Targets : conn[r] \notin Live
       IN  \/ all /\ Proceed("call") /\ NoFault /\ seen' = seen \cup {"joined"}
           \/ lost /\ Raise("unjoined") /\ NoFault /\ UNCHANGED seen
           \/ ~all /\ ~lost /\ Fault /\ Raise("unjoined") /\ UNCHANGED seen
    /\ SameHpx /\ SameArm /\ UNCHANGED <<calls, art>>

\* One call that comes back: it is answered while the hosts it needs serve;
\* otherwise it times out or raises, and by a fault it may also be wrong.
Outcomes == {"ok", "wrong", "late", "misplaced", "raised"}
AnswerFrom(hosts, out, rec) ==
    /\ \/ out = "ok" /\ NoFault /\ \A r \in hosts : conn[r] = "joined"
       \/ out \in {"late", "raised"} /\ NoFault /\ \E r \in hosts : conn[r] # "joined"
       \/ out # "ok" /\ Fault
    /\ calls' = Append(calls, rec)
    /\ bad' = IF out = "ok" THEN bad ELSE bad \cup {out}
    /\ SameHpx /\ SameArm /\ UNCHANGED <<seen, art>>
Answer(out) == AnswerFrom(Targets, out, out)

\* A call without a deadline may not come back: ext.dist_probe_remote is an
\* hpx::async(...).get(), the local calls and 61's ray.get wait as long.  The
\* driver is stuck in it, and its finally clause is never reached.
CallHangs(hosts) ==
    /\ At("call")
    /\ FaultUnless(\E r \in hosts : conn[r] # "joined")
    /\ Goto("blocked") /\ bad' = bad \cup {"hung"} /\ UNCHANGED err
    /\ SameHpx /\ SameArm /\ SameLog

\* finally: the markers every connector waits for (OSError is swallowed).
Finally(markers) ==
    /\ At("finally")
    /\ files' = files \cup {<<r, m>> : r \in {x \in Hosts : client[x] # "none"}, m \in markers}
    /\ Goto("reap")
    /\ UNCHANGED <<root, client, conn, attest, err, bad, faults>> /\ SameArm /\ SameLog

\* The next client that is not reaped yet: they are waited for in the order
\* in which they were started.
ToReap == {i \in DOMAIN Remotes : client[Remotes[i]] = "up"}
NextToReap == Remotes[CHOOSE i \in ToReap : \A j \in ToReap : i <= j]

\* proc.wait(timeout) comes back when the task it runs has ended.
ClientEnds ==
    /\ conn[NextToReap] \notin Live /\ NoFault
    /\ client' = [client EXCEPT ![NextToReap] = "ended"] /\ UNCHANGED bad

\* Faulty variant: a client that does not go is left alone.
ReapWithoutKill ==
    /\ At("reap")
    /\ \/ ToReap # {} /\ ClientEnds /\ UNCHANGED pc
       \/ ToReap # {} /\ Fault /\ Goto("stop") /\ UNCHANGED <<client, bad>>
       \/ ToReap = {} /\ Goto("stop") /\ NoFault /\ UNCHANGED <<client, bad>>
    /\ UNCHANGED <<root, conn, files, attest, err>> /\ SameArm /\ SameLog

\* proc.wait(timeout) of each client; one that does not go is killed, which
\* is neither waited for nor says anything of the task on the node.  Without
\* a marker the serve timeout, counted from the join, is up before the wait,
\* which is at least as long and begins later.
Reap ==
    /\ At("reap")
    /\ \/ ToReap # {} /\ ClientEnds /\ UNCHANGED pc
       \/ /\ ToReap # {} /\ conn[NextToReap] \in Live /\ Fault /\ UNCHANGED pc
          /\ client' = [client EXCEPT ![NextToReap] = "killed"] /\ bad' = bad \cup {"killed"}
       \/ ToReap = {} /\ Goto("stop") /\ NoFault /\ UNCHANGED <<client, bad>>
    /\ UNCHANGED <<root, conn, files, attest, err>> /\ SameArm /\ SameLog

\* A locality that is still there, or went without a clean disconnect.
Unsettled == \E r \in Hosts : conn[r] \in Live \cup {"died"} \/ <<r, "unclean">> \in files

\* ext.shutdown() if HPX was started; an exception sets error.  hpx::stop()
\* has no deadline: with a locality unsettled, or by a fault, it never returns.
StopRoot ==
    /\ At("stop")
    /\ \/ root # "on" /\ Proceed("write") /\ NoFault /\ UNCHANGED root
       \/ root = "on" /\ root' = "off" /\ Proceed("write") /\ NoFault
       \/ /\ root = "on" /\ Fault /\ root' = "stuck" /\ Goto("write")
          /\ err' = TRUE /\ bad' = bad \cup {"shutdown"}
       \/ /\ root = "on" /\ FaultUnless(Unsettled)
          /\ Goto("blocked") /\ bad' = bad \cup {"hung"} /\ UNCHANGED <<root, err>>
    /\ UNCHANGED <<client, conn, files, attest>> /\ SameArm /\ SameLog

\* The verdict of the artifacts, from what the driver saw.
Write(verdicts) ==
    /\ At("write")
    /\ art' = verdicts
    /\ Goto("done")
    /\ UNCHANGED <<err, bad, faults, calls, seen>> /\ SameHpx /\ SameArm

-----------------------------------------------------------------------------
(* A connector process (run_connector of the four connector programs).     *)

Moves(r, to) == conn' = [conn EXCEPT ![r] = to]
SameDriver == UNCHANGED <<pc, root, client, err>> /\ SameArm /\ SameLog

\* hpx::start(connect) succeeds; a first attestation, before the connection
\* is warm, shows the CPU set it got.
Join(r) ==
    /\ conn[r] = "up" /\ root = "on"
    /\ Moves(r, "joined")
    /\ files' = files \cup {<<r, "joined1">>}
    /\ \/ attest' = [attest EXCEPT ![r] = {"written", "cpuset"}] /\ NoFault /\ UNCHANGED bad
       \/ attest' = [attest EXCEPT ![r] = {"written"}] /\ Fault /\ bad' = bad \cup {"bound"}
    /\ SameDriver

\* The pre-probe of the root's port times out, or hpx::start fails: the same
\* file says so, there is no attestation, and the process ends.
FailJoin(r) ==
    /\ conn[r] = "up" /\ FaultUnless(root # "on")
    /\ Moves(r, "failed")
    /\ files' = files \cup {<<r, "joined1">>} /\ bad' = bad \cup {"unstarted"}
    /\ UNCHANGED attest /\ SameDriver

\* The end of serving: the attestation is written again, now with what the
\* sockets of the warm connection say; a root that is gone has none.
ServeEnd(r, to, ghost, free) ==
    /\ Moves(r, to)
    /\ \/ /\ attest' = [attest EXCEPT ![r] = @ \cup {"nodelay"}] /\ root = "on"
          /\ FaultUnless(free) /\ bad' = bad \cup ghost
       \/ /\ UNCHANGED attest /\ FaultUnless(free /\ root # "on")
          /\ bad' = bad \cup ghost \cup {"delayed"}
    /\ UNCHANGED files /\ SameDriver

\* It finds its marker,
Leave(r, markers) ==
    /\ conn[r] = "joined" /\ \E m \in markers : <<r, m>> \in files
    /\ ServeEnd(r, "released", {}, TRUE)

\* or its serve timeout, or the deadman without a heartbeat, expires first.
\* Where the driver writes no marker at all, this is how a connector ends.
ServeTimeout(r, markers) ==
    /\ conn[r] = "joined"
    /\ ServeEnd(r, "expired", {"timeout"}, markers = {})

\* post(disconnect) and stop(), then the last file, which tells whether it
\* served until it was told and whether the teardown was clean.
Disconnect(r) ==
    /\ conn[r] \in {"released", "expired"}
    /\ Moves(r, IF conn[r] = "released" THEN "served" ELSE "timeout")
    /\ \/ files' = files \cup {<<r, "disconnected1">>} /\ NoFault /\ UNCHANGED bad
       \/ /\ files' = files \cup {<<r, "disconnected1">>, <<r, "unclean">>}
          /\ FaultUnless(root # "on") /\ bad' = bad \cup {"unclean"}
    /\ UNCHANGED attest /\ SameDriver

\* The process ends without a file: by a fault, after its client was killed,
\* or when the root is gone.
Crash(r) ==
    /\ conn[r] \in Live /\ FaultUnless(client[r] = "killed" \/ root # "on")
    /\ Moves(r, "died") /\ bad' = bad \cup {"died"}
    /\ UNCHANGED <<files, attest>> /\ SameDriver

Connectors(markers) ==
    \E r \in Hosts : \/ Join(r) \/ FailJoin(r) \/ Leave(r, markers) \/ ServeTimeout(r, markers)
                     \/ Disconnect(r) \/ Crash(r)

-----------------------------------------------------------------------------
(* A Ray cluster the driver starts itself: the head and the workers as     *)
(* blocking srun steps, then ray.init and the node ids.                    *)

RayStart ==
    /\ At("ray")
    /\ \/ ray' = "on" /\ Proceed("call") /\ NoFault /\ seen' = seen \cup {"started"}
       \/ Fault /\ ray' \in {"off", "on"} /\ Raise("start") /\ UNCHANGED seen
    /\ UNCHANGED <<arm, calls, art>> /\ SameHpx

\* One task through Ray; the worker nodes are part of the cluster.
RayOutcome(out) ==
    /\ FaultUnless(out = "ok")
    /\ bad' = IF out = "ok" THEN bad ELSE bad \cup {out}
RayAnswerAs(out, rec) ==
    /\ RayOutcome(out)
    /\ calls' = Append(calls, rec)
    /\ SameHpx /\ SameArm /\ UNCHANGED <<seen, art>>
RayAnswer(out) == RayAnswerAs(out, out)

\* finally: ray.shutdown, ray stop on every node, the srun steps ended, and
\* a look for what is left on the nodes.
RayFinally ==
    /\ At("finally")
    /\ \/ ray' = "off" /\ seen' = seen \cup {"no_orphans"} /\ NoFault /\ UNCHANGED bad
       \/ ray # "off" /\ Fault /\ ray' = "left" /\ bad' = bad \cup {"orphans"} /\ UNCHANGED seen
    /\ Goto("write")
    /\ UNCHANGED <<arm, err, calls, art>> /\ SameHpx

=============================================================================
