------------------------------ MODULE MCPython ------------------------------
(* TLC instance of the Python package: Facade (kind "engine" or "runtime"),   *)
(* Endpoint (kind "endpoint"), and what their constructors and calls meet     *)
(* inside the extension, the process-wide HPX owner (kind "owner") and the    *)
(* bridge to the live Runtime (kind "bridge").  The parts share nothing but   *)
(* the process, and each behaviour is about one of them.  The facade's calls  *)
(* are made with argument values on and around every bound the validators     *)
(* check.                                                                     *)
EXTENDS Facade, Endpoint

CONSTANTS
  Threads, NoThread, MaxEndpoints,                \* of HpxOwner
  Callers, Ops, NumLanes, MaxRuntimes, Nobody     \* of RuntimeBridge

VARIABLES gil, mu, engine, runtime, endpoints, started, refcount, hpx, live, tpc, call, attaching,
          bridge, draining, inFlight, generation, stage, hpxUp, lanes,
          rr, laneQueue, serving, driverOp, cpc, held, at

Owner == INSTANCE HpxOwner WITH kind <- attaching
Bridge == INSTANCE RuntimeBridge WITH gen <- generation, hpx <- hpxUp, queue <- laneQueue,
                              op <- driverOp

ownerVars == <<gil, mu, engine, runtime, endpoints, started, refcount, hpx, live, tpc, call, attaching>>
bridgeVars == <<bridge, draining, inFlight, generation, stage, hpxUp, lanes,
                rr, laneQueue, serving, driverOp, cpc, held, at>>

ASSUME OwnerBounds == IsFiniteSet(Threads) /\ NoThread \notin Threads /\ MaxEndpoints \in Nat
ASSUME EndpointBounds == IsFiniteSet(Ids)
ASSUME BridgeBounds ==
  /\ IsFiniteSet(Callers) /\ Callers \cap Ops = {} /\ Nobody \notin Callers \cup Ops
  /\ NumLanes \in Nat \ {0} /\ MaxRuntimes \in Nat

ASSUME WidthBounds == INT64_MAX \in Nat /\ INT64_MAX > CHAIN_QUANTUM_MAX
ASSUME FacadeBounds == MaxFutures \in Nat \ {0} /\ MaxDepth \in Nat

\* Arguments every operation accepts, one list per operation.
Plain == [square |-> <<3>>, add |-> <<1, 2>>, boom |-> <<>>, busy_sum |-> <<9000>>,
          scale_double |-> <<1, 2>>, fanout_sum |-> <<10, 4>>, park_ms |-> <<20>>,
          chain_sum_loop |-> <<1, 1, 1>>, chain_sum_then |-> <<1, 1, 1>>,
          chain_fanout |-> <<1, 1, 1, 1>>, barrier_fanin |-> <<1, 1, 1>>,
          diamond_fanin |-> <<1, 1>>, overlap_probe |-> <<1, 1, 1>>]

Bounds == {0, PARTS_MAX, PARK_MS_MAX, CHAIN_STEPS_MAX, CHAIN_QUANTUM_MAX,
           CHAIN_FANOUT_K_MAX, FANIN_LEAVES_MAX, INT64_MIN, INT64_MAX}
Edges == UNION {{b - 1, b, b + 1} : b \in Bounds}

PyType(t) == IF t = "double" THEN "float" ELSE "int"
Typed(op_id, v) == [i \in DOMAIN v |-> <<PyType(_OP_TABLE[op_id][i]), v[i]>>]

\* Each operation with plain arguments, with one argument at an edge, and with
\* one argument of the wrong type.
Calls == {<<op, Typed(op, Plain[op])>> : op \in DOMAIN _OP_TABLE}
         \cup UNION {{<<op, Typed(op, [Plain[op] EXCEPT ![i] = e])>> :
                        i \in DOMAIN Plain[op], e \in Edges} : op \in DOMAIN _OP_TABLE}
         \cup UNION {{<<op, [Typed(op, Plain[op]) EXCEPT ![i] = <<"bool", 1>>]>> :
                        i \in DOMAIN Plain[op]} : op \in DOMAIN _OP_TABLE}

\* The whole table of calls is tried on a fresh Runtime; after that two
\* operations, one of which can be stopped while it runs.
LaterCalls == {<<op, Typed(op, Plain[op])>> : op \in {"square", "busy_sum"}}

RuntimeCalls ==
    \/ \E c \in IF Made = {} THEN Calls ELSE LaterCalls : SubmitOperation(c[1], c[2])
    \/ CreateActor(<<<<"int", 0>>>>)
    \/ \E m \in {"add", "busy_get"} : ActorCall(m, <<<<"int", 1>>>>)

LaneStep == \E l \in Lanes : Lane(l)

Facades == {"engine", "runtime"}
FacadeCalls == \/ SyntheticActor({0, 1, 2})
               \/ kind = "runtime" /\ (RuntimeCalls \/ FutureCalls)
Lanes_ == kind \in Facades /\ LaneStep /\ UNCHANGED <<epVars, ownerVars, bridgeVars>>
Returns_ == kind \in Facades /\ Return /\ UNCHANGED <<epVars, ownerVars, bridgeVars>>
FacadeNext == \/ FacadeCalls /\ UNCHANGED <<epVars, ownerVars, bridgeVars>>
              \/ Lanes_ \/ Returns_

\* Metadata as the client may be handed it: genuine, or wrong in one field.
Metas(i) == LET m == metadata(i) IN
    {m, [m EXCEPT !.dict = FALSE], [m EXCEPT !.keys = FALSE],
     [m EXCEPT !.id = <<"str", "malformed">>], [m EXCEPT !.pid = <<"int", -1>>],
     [m EXCEPT !.host = ""], [m EXCEPT !.host = "elsewhere"],
     [m EXCEPT !.proto = <<"int", 1>>], [m EXCEPT !.kind = "carrier pigeon"],
     [m EXCEPT !.kind = "tcp", !.addr = "path"], [m EXCEPT !.kind = "unix", !.addr = ""]}

BridgeCalls == {<<"square", <<<<"int", 2>>>>>>, <<"square", <<<<"bool", 1>>>>>>,
                <<"busy_sum", <<<<"int", 2>>>>>>, <<"add", <<<<"int", 2>>>>>>,
                <<"fanout_sum", <<<<"int", 5>>, <<"int", 0>>>>>>,
                <<"fanout_sum", <<<<"int", BRIDGE_FANOUT_N_MAX + 1>>, <<"int", 1>>>>>>}

PeerStep ==
    \/ \E i \in Ids, t \in BOOLEAN : OpenEndpoint(i, t)
    \/ \E i \in Ids : CloseEndpoint(i)
    \/ Shutdown \/ RuntimeUp \/ RuntimeDown \/ PeerReplaced

ClientStep ==
    \/ \E i \in Ids : \E m \in Metas(i) : Connect(i, m)
    \/ \E n \in {1, INT64_MAX, INT64_MAX + 1} : Ping(<<"int", n>>)
    \/ \E c \in BridgeCalls : CallOp(c[1], c[2])
    \/ CloseConnection

Listener_ == kind = "endpoint" /\ Listener /\ UNCHANGED <<vars, ownerVars, bridgeVars>>
EndpointNext == \/ /\ kind = "endpoint" /\ (PeerStep \/ ClientStep)
                   /\ UNCHANGED <<vars, ownerVars, bridgeVars>>
                \/ Listener_
OwnerNext == kind = "owner" /\ Owner!Next /\ UNCHANGED <<vars, epVars, bridgeVars>>
BridgeNext == kind = "bridge" /\ Bridge!Next /\ UNCHANGED <<vars, epVars, ownerVars>>

pyVars == <<kind, cap, closed, actor, queue, active, fut, drv, gen, near, reg, wired,
            tomb, rc, lst, rt, conn, cli, out, epFaults, ownerVars, bridgeVars>>

PyInit == /\ \/ Init
             \/ /\ kind \in {"endpoint", "owner", "bridge"} /\ cap = 0
                /\ closed = FALSE /\ actor = "none"
                /\ queue = [l \in Lanes |-> <<>>] /\ active = [l \in Lanes |-> NoFuture]
                /\ fut = [f \in Futures |-> NewFuture] /\ drv = Idle /\ gen = NoGenerator
          /\ EpInit /\ Owner!Init /\ Bridge!Init
          /\ kind # "endpoint" => near

Next == FacadeNext \/ EndpointNext \/ OwnerNext \/ BridgeNext

\* The lanes, the listener and the threads inside the extension run whatever
\* the driver does, and a call whose condition holds returns.  Nothing obliges
\* the driver to make a call, and nothing is asked of a thread that waits for
\* the owner's mutex.
InBridge(A) == kind = "bridge" /\ A /\ UNCHANGED <<vars, epVars, ownerVars>>
Spec == /\ PyInit /\ [][Next]_pyVars
        /\ WF_pyVars(Lanes_) /\ WF_pyVars(Returns_) /\ WF_pyVars(Listener_)
        /\ WF_pyVars(InBridge(Bridge!Driver))
        /\ \A c \in Callers : WF_pyVars(InBridge(Bridge!Caller(c)))
        /\ \A l \in Bridge!LaneIds : WF_pyVars(InBridge(Bridge!Worker(l)))

-----------------------------------------------------------------------------
\* A generator that runs to its end has yielded each input exactly once, and
\* never yields a future before its row is there.
AsCompletedExact ==
    /\ \A i \in DOMAIN gen.out : Settled(gen.out[i])
    /\ \A i, j \in DOMAIN gen.out : i # j => gen.out[i] # gen.out[j]
    /\ gen.state = "done" => {gen.out[i] : i \in DOMAIN gen.out} = gen.inputs

\* A row says "cancelled" exactly when someone settled that request's
\* cancellation (a cancel() that returned True, a release or a Runtime
\* shutdown); a batch future of an Engine, which has no token, never does; and a
\* row of a call the validators let through fails only when the operation
\* itself is the failing one.
RowsHonest ==
    \A f \in Futures : Settled(f) =>
        /\ fut[f].status = "cancelled" <=> fut[f].asked
        /\ fut[f].asked => fut[f].token
        /\ fut[f].status = "failed" => fut[f].op = "boom"

\* What a driver learns of its futures is true: the rows, and as_completed.
FuturesHonest == AsCompletedExact /\ RowsHonest

\* Once shutdown() has returned every future made from the facade is settled
\* and its row can still be read; once release_actor() has returned the same
\* holds of every call to the actor.
ShutdownSettlesAll ==
    /\ closed /\ drv.call # "shutdown" => Unsettled(Made) = {}
    /\ actor = "released" => \A f \in Made : fut[f].lane = Actor => Settled(f)

\* Every blocking call returns: wait, result, shutdown, release_actor and the
\* wait inside as_completed; every ping and bridged call over a connection; and
\* every dispatch through the bridge, also one that races the shutdown (the
\* callers are alike, so one of them stands for all).
Pending == CASE kind \in Facades -> drv # Idle
             [] kind = "endpoint" -> cli # NoCall
             [] kind = "bridge"   -> cpc[CHOOSE c \in Callers : TRUE] # "idle"
             [] OTHER             -> FALSE
CallsReturn == Pending ~> ~Pending

\* A client never takes one endpoint's answer for another's or a dead one's:
\* a value means the endpoint named in the metadata was live when it was
\* served, also when its process is gone and its pid and socket path belong to
\* another one; and "closed" by the registry means it was.
AnswersTrue ==
    /\ out.call \in {"ping", "call_op"} /\ out.what = "value" => out.truth = "live"
    /\ out.what = "EndpointNotFoundError" => out.truth \in {"closed", "lost"}
    /\ out.call = "connect" /\ out.what = "ok" /\ near => out.truth = "live"

\* The listener runs exactly while some endpoint holds a share of it, unless
\* its thread could not be created.
ListenerFollows ==
    /\ rc = Cardinality(Live \cap wired)
    /\ rc > 0 => lst # "off"
    /\ epFaults = 0 => (lst = "up") = (rc > 0)

\* "ENGINE: exclusive", "RUNTIME: singleton", "ENDPOINT: not with Engine":
\* which objects can be alive together, whatever the threads that made them.
PolicyMatrix == Owner!PolicyMatrix

\* HPX runs exactly while an Engine or a Runtime holds it, and is never started
\* a second time under them.
HpxFollowsOwners == Owner!HpxFollowsOwners /\ Owner!StartedOnce

\* Failed constructors and repeated shutdowns leave no claim on the owner, whose
\* counters stay in their types.
BooksMatchObjects == Owner!TypeOK /\ Owner!BooksMatchObjects

\* "the drain gate guarantees the engine outlives every in-flight dispatch",
\* and in_flight_ counts exactly the callers the drain has to wait for.
EngineOutlivesCalls == Bridge!TypeOK /\ Bridge!EngineOutlivesCalls /\ Bridge!InFlightExact

\* The shutdown's cancel_pending() never meets a bridged request.
BridgedNeverCancelled == Bridge!BridgedNeverCancelled

\* A Runtime that starts to shut down is gone in the end, however many bridged
\* calls are in flight and however many come after.
ShutdownCompletes == Bridge!ShutdownCompletes

\* Nobody who waits in the package waits for ever.
EveryWaitEnds == CallsReturn /\ ShutdownCompletes

=============================================================================
