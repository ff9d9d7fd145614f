--------------------------- MODULE RuntimeBridge ----------------------------
(***************************************************************************)
(* The endpoint->Runtime bridge of _rayx.cpp: RuntimeBridgeSlot, the       *)
(* process-wide slot through which an endpoint finds the live Runtime;     *)
(* bridge_dispatch(), which runs one registered operation for a remote     *)
(* peer (on the listener's accept thread) or for a connection inside the   *)
(* process (on its Python thread, with the GIL released); and the parts of *)
(* the RuntimeEngine constructor and of shutdown() around them.            *)
(*                                                                         *)
(* A lane is a FIFO queue and the item its worker serves; RuntimeLane has  *)
(* its detail. The Runtime has one driver thread, which constructs it,     *)
(* submits operations and shuts it down, and may construct another.        *)
(***************************************************************************)
EXTENDS Integers, Sequences, FiniteSets

CONSTANTS
    Callers,      \* threads in bridge_dispatch(): the accept thread, Python threads
    Ops,          \* the operations that the driver submits itself
    NumLanes,     \* num_lanes
    MaxRuntimes,  \* bound on the Runtimes constructed one after another
    Nobody        \* an idle worker

VARIABLES
    bridge,       \* bridge_: the engine published, 0 for none
    draining,     \* draining_
    inFlight,     \* in_flight_
    gen,          \* how many Runtimes have been constructed; the last is the engine
    stage,        \* where the driver is in the constructor or in shutdown()
    hpx,          \* HPX is up (ProcessHpxOwner)
    lanes,        \* lanes_ is built
    rr,           \* rr_, modulo the number of lanes
    queue,        \* per lane: the requests that wait
    serving,      \* per lane: the request its worker serves
    op,           \* per driver operation: what became of it
    cpc,          \* per caller: control point of bridge_dispatch()
    held,         \* per caller: the engine it acquired
    at            \* per caller: the lane it was given

slotVars == <<bridge, draining, inFlight>>
engineVars == <<gen, stage, hpx, lanes>>
laneVars == <<rr, queue, serving, op>>
callerVars == <<cpc, held, at>>
vars == <<bridge, draining, inFlight, gen, stage, hpx, lanes,
          rr, queue, serving, op, cpc, held, at>>
-----------------------------------------------------------------------------
LaneIds == 0 .. NumLanes - 1
Items == Callers \cup Ops

Init ==
    /\ bridge = 0 /\ draining = FALSE /\ inFlight = 0
    /\ gen = 0 /\ stage = "none" /\ hpx = FALSE /\ lanes = FALSE
    /\ rr = 0
    /\ queue = [l \in LaneIds |-> <<>>]
    /\ serving = [l \in LaneIds |-> Nobody]
    /\ op = [o \in Ops |-> "new"]
    /\ cpc = [c \in Callers |-> "idle"]
    /\ held = [c \in Callers |-> 0]
    /\ at = [c \in Callers |-> 0]

\* rr_.fetch_add(1) % lanes_.size(), the lane of the request after this one.
Next_rr == (rr + 1) % NumLanes
-----------------------------------------------------------------------------
(* The driver: RuntimeEngine's constructor, submit_operation, shutdown().   *)

\* Attach to the ProcessHpxOwner, which starts HPX.
CtorAttach ==
    /\ stage = "none"
    /\ gen < MaxRuntimes
    /\ gen' = gen + 1
    /\ hpx' = TRUE
    /\ rr' = 0
    /\ stage' = "attached"
    /\ UNCHANGED <<slotVars, lanes, queue, serving, op, callerVars>>

CtorLanes ==
    /\ stage = "attached"
    /\ lanes' = TRUE
    /\ stage' = "built"
    /\ UNCHANGED <<slotVars, gen, hpx, laneVars, callerVars>>

\* Building the lanes failed: the constructor detaches and throws.
CtorFails ==
    /\ stage = "attached"
    /\ hpx' = FALSE
    /\ stage' = "none"
    /\ UNCHANGED <<slotVars, gen, lanes, laneVars, callerVars>>

\* Faulty variant: the bridge is published before the lanes are built.
PublishEarly ==
    /\ stage \in {"attached", "built"}
    /\ bridge' = gen
    /\ draining' = FALSE
    /\ stage' = IF stage = "built" THEN "live" ELSE stage
    /\ UNCHANGED <<inFlight, gen, hpx, lanes, laneVars, callerVars>>

Publish ==
    /\ stage = "built"
    /\ bridge' = gen
    /\ draining' = FALSE
    /\ stage' = "live"
    /\ UNCHANGED <<inFlight, gen, hpx, lanes, laneVars, callerVars>>

\* submit_operation() of the driver, on the lane whose turn it is.
Submit(o) ==
    /\ stage = "live"
    /\ op[o] = "new"
    /\ op' = [op EXCEPT ![o] = "queued"]
    /\ queue' = [queue EXCEPT ![rr] = Append(@, o)]
    /\ rr' = Next_rr
    /\ UNCHANGED <<slotVars, engineVars, serving, callerVars>>

\* shutdown() sets running_ and enters drain_and_unpublish().
Shutdown ==
    /\ stage = "live"
    /\ stage' = "shutdown"
    /\ UNCHANGED <<slotVars, gen, hpx, lanes, laneVars, callerVars>>

\* Faulty variant: a drain that does not wait.
DrainNoWait ==
    /\ stage = "shutdown"
    /\ draining' = TRUE
    /\ bridge' = 0
    /\ stage' = "drained"
    /\ UNCHANGED <<inFlight, gen, hpx, lanes, rr, queue, serving, op, callerVars>>

\* drain_and_unpublish(): unpublish, and wait on cv_ unless nothing is in
\* flight.
Drain ==
    /\ stage = "shutdown"
    /\ draining' = TRUE
    /\ bridge' = 0
    /\ stage' = IF inFlight = 0 THEN "drained" ELSE "asleep"
    /\ UNCHANGED <<inFlight, gen, hpx, lanes, rr, queue, serving, op, callerVars>>

SpuriousWake ==
    /\ stage = "asleep"
    /\ stage' = "awake"
    /\ UNCHANGED <<slotVars, gen, hpx, lanes, laneVars, callerVars>>

\* The wait's predicate is evaluated again, under the lock.
DrainAwake ==
    /\ stage = "awake"
    /\ stage' = IF inFlight = 0 THEN "drained" ELSE "asleep"
    /\ UNCHANGED <<slotVars, gen, hpx, lanes, laneVars, callerVars>>

\* cancel_pending() on every lane: what is queued is cancelled and will be
\* skipped, what is being served is asked to stop.
Cancelled(o) == o \in Ops /\ op[o] = "queued"

CancelPending ==
    /\ stage = "drained"
    /\ op' = [o \in Ops |-> IF Cancelled(o) THEN "cancelled" ELSE op[o]]
    /\ stage' = "cancelled"
    /\ UNCHANGED <<slotVars, gen, hpx, lanes, rr, queue, serving, callerVars>>

\* stop_and_join() on every lane returns when its worker has drained the
\* queue; then lanes_ is cleared.
StopAndJoin ==
    /\ stage = "cancelled"
    /\ \A l \in LaneIds : queue[l] = <<>> /\ serving[l] = Nobody
    /\ lanes' = FALSE
    /\ stage' = "joined"
    /\ UNCHANGED <<slotVars, gen, hpx, laneVars, callerVars>>

\* detach() stops HPX.
Detach ==
    /\ stage = "joined"
    /\ hpx' = FALSE
    /\ stage' = "none"
    /\ UNCHANGED <<slotVars, gen, lanes, laneVars, callerVars>>
-----------------------------------------------------------------------------
(* A caller: bridge_dispatch().                                            *)

\* A call with a known op code and arguments of the right number and type
\* (anything else is answered at once and touches nothing).
Call(c) ==
    /\ cpc[c] = "idle"
    /\ cpc' = [cpc EXCEPT ![c] = "acquire"]
    /\ UNCHANGED <<slotVars, engineVars, laneVars, held, at>>

\* acquire(): one more request is in flight, or without a bridge the call is
\* answered "absent" or "draining", which are one error to the peer.
Acquire(c) ==
    /\ cpc[c] = "acquire"
    /\ bridge # 0
    /\ inFlight' = inFlight + 1
    /\ held' = [held EXCEPT ![c] = bridge]
    /\ cpc' = [cpc EXCEPT ![c] = "dispatch"]
    /\ UNCHANGED <<bridge, draining, engineVars, laneVars, at>>

AcquireFails(c) ==
    /\ cpc[c] = "acquire"
    /\ bridge = 0
    /\ cpc' = [cpc EXCEPT ![c] = "idle"]
    /\ UNCHANGED <<slotVars, engineVars, laneVars, held, at>>

\* dispatch_op_typed(): a lane is chosen, or an exception is on its way out
\* (the release guard still runs).
Dispatch(c) ==
    /\ cpc[c] = "dispatch"
    /\ at' = [at EXCEPT ![c] = rr]
    /\ rr' = Next_rr
    /\ cpc' = [cpc EXCEPT ![c] = "enqueue"]
    /\ UNCHANGED <<slotVars, engineVars, queue, serving, op, held>>

DispatchThrows(c) ==
    /\ cpc[c] = "dispatch"
    /\ cpc' = [cpc EXCEPT ![c] = "release"]
    /\ UNCHANGED <<slotVars, engineVars, laneVars, held, at>>

\* The hop to an HPX thread, and submit() on the lane.
Enqueue(c) ==
    /\ cpc[c] = "enqueue"
    /\ queue' = [queue EXCEPT ![at[c]] = Append(@, c)]
    /\ at' = [at EXCEPT ![c] = 0]
    /\ cpc' = [cpc EXCEPT ![c] = "get"]
    /\ UNCHANGED <<slotVars, engineVars, rr, serving, op, held>>

\* Faulty variant: a release that does not notify.
ReleaseSilently(c) ==
    /\ cpc[c] = "release"
    /\ inFlight' = IF inFlight > 0 THEN inFlight - 1 ELSE 0
    /\ held' = [held EXCEPT ![c] = 0]
    /\ cpc' = [cpc EXCEPT ![c] = "idle"]
    /\ UNCHANGED <<bridge, draining, engineVars, laneVars, at>>

\* release(): the last one out wakes the drain.
Release(c) ==
    /\ cpc[c] = "release"
    /\ inFlight' = IF inFlight > 0 THEN inFlight - 1 ELSE 0
    /\ stage' = IF inFlight = 1 /\ stage = "asleep" THEN "awake" ELSE stage
    /\ held' = [held EXCEPT ![c] = 0]
    /\ cpc' = [cpc EXCEPT ![c] = "idle"]
    /\ UNCHANGED <<bridge, draining, gen, hpx, lanes, laneVars, at>>
-----------------------------------------------------------------------------
(* A lane's worker.                                                        *)

WorkerPop(l) ==
    /\ lanes
    /\ serving[l] = Nobody
    /\ queue[l] # <<>>
    /\ queue' = [queue EXCEPT ![l] = Tail(@)]
    /\ LET x == Head(queue[l]) IN
         serving' = [serving EXCEPT ![l] =
                       IF x \in Ops /\ op[x] = "cancelled" THEN Nobody ELSE x]
    /\ UNCHANGED <<slotVars, engineVars, rr, op, callerVars>>

\* The request ends, completed or failed, and its future is ready: the
\* driver's, or that of a caller in get().
WorkerFinish(l) ==
    /\ serving[l] # Nobody
    /\ serving' = [serving EXCEPT ![l] = Nobody]
    /\ LET x == serving[l] IN
         \/ /\ x \in Ops
            /\ op' = [op EXCEPT ![x] = IF @ = "queued" THEN "done" ELSE @]
            /\ UNCHANGED callerVars
         \/ /\ x \in Callers
            /\ cpc' = [cpc EXCEPT ![x] = "release"]
            /\ UNCHANGED <<op, held, at>>
    /\ UNCHANGED <<slotVars, engineVars, rr, queue>>
-----------------------------------------------------------------------------
Driver ==
    \/ CtorLanes \/ CtorFails \/ Publish
    \/ Drain \/ DrainAwake \/ CancelPending \/ StopAndJoin \/ Detach

Caller(c) ==
    \/ Acquire(c) \/ AcquireFails(c) \/ Dispatch(c) \/ DispatchThrows(c)
    \/ Enqueue(c) \/ Release(c)

Worker(l) == WorkerPop(l) \/ WorkerFinish(l)

Next ==
    \/ CtorAttach \/ Shutdown \/ SpuriousWake \/ Driver
    \/ \E o \in Ops : Submit(o)
    \/ \E c \in Callers : Call(c) \/ Caller(c)
    \/ \E l \in LaneIds : Worker(l)

Spec == Init /\ [][Next]_vars

\* Threads are scheduled, and operations end.
Fairness ==
    /\ WF_vars(Driver)
    /\ \A c \in Callers : WF_vars(Caller(c))
    /\ \A l \in LaneIds : WF_vars(Worker(l))

FairSpec == Spec /\ Fairness
-----------------------------------------------------------------------------
(* Properties.                                                             *)

TypeOK ==
    /\ bridge \in 0 .. MaxRuntimes /\ gen \in 0 .. MaxRuntimes
    /\ draining \in BOOLEAN /\ hpx \in BOOLEAN /\ lanes \in BOOLEAN
    /\ inFlight \in Nat
    /\ stage \in {"none", "attached", "built", "live", "shutdown", "asleep",
                  "awake", "drained", "cancelled", "joined"}
    /\ rr \in LaneIds
    /\ queue \in [LaneIds -> Seq(Items)]
    /\ serving \in [LaneIds -> Items \cup {Nobody}]
    /\ op \in [Ops -> {"new", "queued", "done", "cancelled"}]
    /\ cpc \in [Callers -> {"idle", "acquire", "dispatch", "enqueue", "get", "release"}]
    /\ held \in [Callers -> 0 .. MaxRuntimes]
    /\ at \in [Callers -> LaneIds]

\* "the drain gate guarantees the engine outlives every in-flight dispatch":
\* from acquire() to release() a caller's engine is the one that lives, with
\* its lanes built and HPX up.
EngineOutlivesCalls ==
    \A c \in Callers : cpc[c] \in {"dispatch", "enqueue", "get", "release"} =>
        held[c] = gen /\ lanes /\ hpx

\* shutdown()'s cancel_pending() never meets a bridged request: when it runs,
\* every request that a caller got admitted has been served and released.
BridgedNeverCancelled ==
    stage \in {"drained", "cancelled", "joined", "none"} =>
        /\ inFlight = 0
        /\ \A l \in LaneIds : serving[l] \notin Callers
        /\ \A l \in LaneIds : \A i \in 1 .. Len(queue[l]) : queue[l][i] \notin Callers

\* in_flight_ counts the callers between acquire() and release(), so the drain
\* can neither end early nor wait for a caller that is gone.
InFlightExact ==
    inFlight = Cardinality({c \in Callers :
                 cpc[c] \in {"dispatch", "enqueue", "get", "release"}})

\* A Runtime that starts to shut down is gone in the end, however many calls
\* are in flight and however many come after.
ShutdownCompletes == (stage = "shutdown") ~> (stage = "none")

=============================================================================
