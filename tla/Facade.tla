------------------------------- MODULE Facade -------------------------------
(* The Python objects of rayx (Engine, Future, SyntheticActor) and            *)
(* rayx.runtime (Runtime, RuntimeFuture, ActorHandle), as one driver thread   *)
(* uses them, over abstract lanes.  The lanes' own protocol is the subject of *)
(* ServiceLane and RuntimeLane; here a lane is a queue with one request in    *)
(* service, and what matters is what the calls return, raise and leave behind *)
(* while the lanes run.  Both facades are driven by one thread ("single       *)
(* driver" in the engine's comments); a call blocks that thread.              *)
EXTENDS Validate, FiniteSets

CONSTANTS MaxFutures, \* requests the driver makes in all
          MaxDepth    \* values of max_queue_depth_per_lane are 1..MaxDepth

Futures == 1..MaxFutures
Actor == "act"              \* the one local actor of a Runtime
Lanes == {"op", Actor}
NoFuture == 0

VARIABLES
  kind,    \* "engine" or "runtime": which facade this behaviour is about
  cap,     \* the admission cap, 0 for None
  closed,  \* _closed; the native running_ falls in the same GIL section
  actor,   \* "none", "live", "released": the actor record and its handle
  queue,   \* lane -> admitted futures not yet in service
  active,  \* lane -> future in service, or NoFuture
  fut,     \* future -> its row and its Python object
  drv,     \* the call the driver is in
  gen      \* the as_completed generator: its inputs, in flight, ready, yielded

vars == <<kind, cap, closed, actor, queue, active, fut, drv, gen>>

NewFuture == [lane |-> "op", st |-> "none", op |-> "none", token |-> FALSE,
              asked |-> FALSE, late |-> FALSE, bad |-> FALSE,
              status |-> "none", retired |-> FALSE]

Idle == [call |-> "idle", on |-> {}, n |-> 0]
NoGenerator == [state |-> "none", inputs |-> {}, inflight |-> {}, ready |-> {}, out |-> <<>>]

Settled(f) == fut[f].st = "done"
Unsettled(F) == {f \in F : ~Settled(f)}
Made == {f \in Futures : fut[f].st # "none"}

Init ==
    /\ kind \in {"engine", "runtime"}
    /\ cap \in 0..MaxDepth
    /\ closed = FALSE
    /\ actor = "none"
    /\ queue = [l \in Lanes |-> <<>>]
    /\ active = [l \in Lanes |-> NoFuture]
    /\ fut = [f \in Futures |-> NewFuture]
    /\ drv = Idle
    /\ gen = NoGenerator

-----------------------------------------------------------------------------
(* Submission                                                                 *)

Free == Futures \ Made
NextFuture == CHOOSE f \in Free : \A g \in Free : f <= g

Admitted(l) == cap = 0 \/ Len(queue[l]) < cap

\* Enqueue one request on a lane, as the next future.
Enqueue(l, op, token, bad) ==
    /\ queue' = [queue EXCEPT ![l] = Append(@, NextFuture)]
    /\ fut' = [fut EXCEPT ![NextFuture] =
                 [NewFuture EXCEPT !.lane = l, !.st = "queued", !.op = op,
                                   !.token = token, !.bad = bad]]

\* Engine.submit: a rejected submit raises QueueFullError and makes no future;
\* a chunked request can be stopped while it runs.
Submit(chunks) ==
    /\ drv = Idle /\ kind = "engine" /\ ~closed /\ Free # {}
    /\ _validate_chunks(chunks) = "ok"
    /\ Admitted("op")
    /\ Enqueue("op", IF ValueOf(chunks) > 1 THEN "chunked" ELSE "single", TRUE, FALSE)
    /\ UNCHANGED <<kind, cap, closed, actor, active, drv, gen>>

\* Engine.submit_batch: refused under a cap; its futures carry no token.
SubmitBatch ==
    /\ drv = Idle /\ kind = "engine" /\ ~closed /\ Cardinality(Free) >= 2
    /\ cap = 0
    /\ LET f == NextFuture IN
         /\ queue' = [queue EXCEPT !["op"] = @ \o <<f, f + 1>>]
         /\ fut' = [g \in Futures |->
                      IF g \in {f, f + 1}
                      THEN [NewFuture EXCEPT !.st = "queued", !.op = "single"]
                      ELSE fut[g]]
    /\ UNCHANGED <<kind, cap, closed, actor, active, drv, gen>>

\* Operations whose body polls the stop checkpoint more than once.
Checkpointed(op_id, v) == \/ op_id = "busy_sum" /\ v[1] > 8192
                          \/ op_id = "park_ms" /\ v[1] > 10

\* Runtime.submit_operation: only validated arguments reach the engine.
SubmitOperation(op_id, args) ==
    LET v == [i \in DOMAIN args |-> ValueOf(args[i])] IN
    /\ drv = Idle /\ kind = "runtime" /\ ~closed /\ Free # {}
    /\ validate_call(op_id, args) = "ok"
    /\ Admitted("op")
    /\ Enqueue("op", IF op_id = "boom" THEN "boom"
                     ELSE IF Checkpointed(op_id, v) THEN "chunked" ELSE "single",
               TRUE, ~NativeAccepts(op_id, v))
    /\ UNCHANGED <<kind, cap, closed, actor, active, drv, gen>>

CreateActor(args) ==
    /\ drv = Idle /\ kind = "runtime" /\ ~closed /\ actor = "none"
    /\ validate_actor_create("counter", args) = "ok"
    /\ actor' = "live"
    /\ UNCHANGED <<kind, cap, closed, queue, active, fut, drv, gen>>

\* ActorHandle.call: refused on a released handle and on a closed Runtime.
ActorCall(method_id, args) ==
    /\ drv = Idle /\ kind = "runtime" /\ ~closed /\ actor = "live" /\ Free # {}
    /\ validate_actor_call("counter", method_id, args) = "ok"
    /\ Admitted(Actor)
    /\ Enqueue(Actor, IF method_id = "busy_get" THEN "chunked" ELSE "single", TRUE, FALSE)
    /\ UNCHANGED <<kind, cap, closed, actor, active, drv, gen>>

-----------------------------------------------------------------------------
(* Cancellation.  Winning means the token settles the cancellation: the row   *)
(* will say "cancelled".                                                      *)

\* A queued request can always be cancelled once; a running one only when its
\* body still has a checkpoint ahead.
Cancellable(f) ==
    /\ fut[f].token /\ ~fut[f].asked
    /\ \/ fut[f].st = "queued"
       \/ fut[f].st = "active" /\ fut[f].op = "chunked" /\ ~fut[f].late

\* Engine.cancel raises on a closed engine, a retired or a batch future;
\* RuntimeFuture.cancel may be called at any time.
Cancel(f) ==
    /\ drv = Idle /\ f \in Made
    /\ kind = "engine" => ~closed /\ ~fut[f].retired /\ fut[f].token
    /\ Cancellable(f)
    /\ fut' = [fut EXCEPT ![f].asked = TRUE]
    /\ UNCHANGED <<kind, cap, closed, actor, queue, active, drv, gen>>

\* cancel_pending() on a lane: every queued and running request is asked.
AskAll(F, l) ==
    [f \in Futures |-> IF F[f].lane = l /\ Cancellable(f)
                       THEN [F[f] EXCEPT !.asked = TRUE] ELSE F[f]]

-----------------------------------------------------------------------------
(* Blocking calls: the driver enters, and returns when the lanes let it       *)

\* wait(futures, num_returns): retired or duplicate futures and bad counts raise.
EnterWait(F, n) ==
    /\ drv = Idle /\ ~closed /\ F # {} /\ F \subseteq Made
    /\ n \in 1..Cardinality(F)
    /\ \A f \in F : ~fut[f].retired
    /\ drv' = [call |-> "wait", on |-> F, n |-> n]
    /\ UNCHANGED <<kind, cap, closed, actor, queue, active, fut, gen>>

\* wait(futures, timeout=0): the futures whose rows are there, at once.
poll(F) == F \ Unsettled(F)

WaitReturns ==
    /\ drv.call = "wait"
    /\ Cardinality(poll(drv.on)) >= drv.n
    /\ drv' = Idle
    /\ UNCHANGED <<kind, cap, closed, actor, queue, active, fut, gen>>

\* result() and get(): works on a closed facade too, once per future.
EnterResult(f) ==
    /\ drv = Idle /\ f \in Made /\ ~fut[f].retired
    /\ drv' = [call |-> "result", on |-> {f}, n |-> 1]
    /\ UNCHANGED <<kind, cap, closed, actor, queue, active, fut, gen>>

ResultReturns ==
    /\ drv.call = "result"
    /\ Unsettled(drv.on) = {}
    /\ fut' = [f \in Futures |-> IF f \in drv.on THEN [fut[f] EXCEPT !.retired = TRUE]
                                 ELSE fut[f]]
    /\ drv' = Idle
    /\ UNCHANGED <<kind, cap, closed, actor, queue, active, gen>>

\* Engine.shutdown drains to completion; Runtime.shutdown cancels first.
EnterShutdown ==
    /\ drv = Idle /\ ~closed
    /\ closed' = TRUE
    /\ fut' = IF kind = "runtime" THEN AskAll(AskAll(fut, Actor), "op") ELSE fut
    /\ drv' = [Idle EXCEPT !.call = "shutdown"]
    /\ UNCHANGED <<kind, cap, actor, queue, active, gen>>

\* The observable state of a lane.
lane_stats(l) == [queue_depth |-> Len(queue[l]), active |-> active[l] # NoFuture]

\* Faulty variant: a request that has left the queue is forgotten.
QueueDrained(l) == lane_stats(l).queue_depth = 0

Drained(l) == lane_stats(l) = [queue_depth |-> 0, active |-> FALSE]

ShutdownReturns ==
    /\ drv.call = "shutdown"
    /\ \A l \in Lanes : Drained(l)
    /\ actor' = IF actor = "live" THEN "released" ELSE actor
    /\ drv' = Idle
    /\ UNCHANGED <<kind, cap, closed, queue, active, fut, gen>>

\* release_actor: the same teardown for one actor's lane.
EnterRelease ==
    /\ drv = Idle /\ kind = "runtime" /\ ~closed /\ actor = "live"
    /\ fut' = AskAll(fut, Actor)
    /\ drv' = [Idle EXCEPT !.call = "release"]
    /\ UNCHANGED <<kind, cap, closed, actor, queue, active, gen>>

ReleaseReturns ==
    /\ drv.call = "release"
    /\ Drained(Actor)
    /\ actor' = "released"
    /\ drv' = Idle
    /\ UNCHANGED <<kind, cap, closed, queue, active, fut, gen>>

-----------------------------------------------------------------------------
(* as_completed: a lazy generator.  Between two next() calls the driver may   *)
(* do anything, retiring or cancelling futures the generator still holds, or  *)
(* closing the facade, after which its next wait() raises and ends it.        *)

AsCompleted(F) ==
    /\ drv = Idle /\ gen.state = "none" /\ F # {} /\ F \subseteq Made
    /\ gen' = [NoGenerator EXCEPT !.state = "live", !.inputs = F, !.inflight = F]
    /\ UNCHANGED <<kind, cap, closed, actor, queue, active, fut, drv>>

\* next(gen) while the last wait() left ready futures: yield one of them.
GenYield(f) ==
    /\ drv = Idle /\ gen.state = "live" /\ f \in gen.ready
    /\ gen' = [gen EXCEPT !.ready = @ \ {f}, !.out = Append(@, f)]
    /\ UNCHANGED <<kind, cap, closed, actor, queue, active, fut, drv>>

\* next(gen) with none ready and some in flight: wait for one more.
GenWait ==
    /\ drv = Idle /\ gen.state = "live" /\ gen.ready = {} /\ gen.inflight # {}
    /\ ~closed /\ \A f \in gen.inflight : ~fut[f].retired
    /\ drv' = [call |-> "gen", on |-> gen.inflight, n |-> 1]
    /\ UNCHANGED <<kind, cap, closed, actor, queue, active, fut, gen>>

\* Faulty variant: what is ready stays in inflight too.
GenKeepsInflight ==
    /\ drv.call = "gen"
    /\ poll(drv.on) # {}
    /\ gen' = [gen EXCEPT !.ready = poll(drv.on)]
    /\ drv' = Idle
    /\ UNCHANGED <<kind, cap, closed, actor, queue, active, fut>>

\* wait() returned: what is ready leaves inflight, and the first is yielded.
GenReady ==
    /\ drv.call = "gen"
    /\ poll(drv.on) # {}
    /\ gen' = [gen EXCEPT !.ready = poll(drv.on),
                          !.inflight = Unsettled(drv.on)]
    /\ drv' = Idle
    /\ UNCHANGED <<kind, cap, closed, actor, queue, active, fut>>

\* The wait() inside raises (closed facade, future retired meanwhile).
GenRaises ==
    /\ drv = Idle /\ gen.state = "live" /\ gen.ready = {} /\ gen.inflight # {}
    /\ closed \/ \E f \in gen.inflight : fut[f].retired
    /\ gen' = [gen EXCEPT !.state = "raised"]
    /\ UNCHANGED <<kind, cap, closed, actor, queue, active, fut, drv>>

GenStops ==
    /\ drv = Idle /\ gen.state = "live" /\ gen.ready = {} /\ gen.inflight = {}
    /\ gen' = [gen EXCEPT !.state = "done"]
    /\ UNCHANGED <<kind, cap, closed, actor, queue, active, fut, drv>>

-----------------------------------------------------------------------------
(* The synthetic actor owns an Engine and forwards every call to it.          *)

\* Everything a driver does with futures, whichever facade made them.
FutureCalls ==
    \/ \E f \in Futures : Cancel(f) \/ EnterResult(f) \/ GenYield(f)
    \/ \E n \in Futures : EnterWait({f \in Made : ~fut[f].retired}, n)
    \/ AsCompleted(Made)
    \/ EnterShutdown \/ EnterRelease \/ GenWait \/ GenRaises \/ GenStops

\* serve.remote and serve.remote_batch.
_SyntheticServeMethod(counts) == SubmitBatch \/ \E n \in counts : Submit(<<"int", n>>)

SyntheticActor(counts) == kind = "engine" /\ (_SyntheticServeMethod(counts) \/ FutureCalls)

-----------------------------------------------------------------------------
(* The lanes: external to this module, see ServiceLane and RuntimeLane        *)

\* A request leaves the queue; a cancelled one is skipped with its row.
LaneStart(l) ==
    /\ queue[l] # <<>> /\ active[l] = NoFuture
    /\ LET f == Head(queue[l]) IN
         IF fut[f].asked
         THEN /\ fut' = [fut EXCEPT ![f].st = "done", ![f].status = "cancelled"]
              /\ UNCHANGED active
         ELSE /\ fut' = [fut EXCEPT ![f].st = "active"]
              /\ active' = [active EXCEPT ![l] = f]
    /\ queue' = [queue EXCEPT ![l] = Tail(@)]
    /\ UNCHANGED <<kind, cap, closed, actor, drv, gen>>

\* The last checkpoint of a chunked body passes without a stop request.
LaneLastChunk(l) ==
    /\ active[l] # NoFuture
    /\ fut[active[l]].op = "chunked" /\ ~fut[active[l]].late /\ ~fut[active[l]].asked
    /\ fut' = [fut EXCEPT ![active[l]].late = TRUE]
    /\ UNCHANGED <<kind, cap, closed, actor, queue, active, drv, gen>>

LaneFinish(l) ==
    /\ active[l] # NoFuture
    /\ LET f == active[l] IN
         /\ fut[f].op = "chunked" => fut[f].asked \/ fut[f].late
         /\ fut' = [fut EXCEPT ![f].st = "done",
                       ![f].status = IF fut[f].op = "boom" \/ fut[f].bad THEN "failed"
                                     ELSE IF fut[f].asked THEN "cancelled"
                                     ELSE "completed"]
    /\ active' = [active EXCEPT ![l] = NoFuture]
    /\ UNCHANGED <<kind, cap, closed, actor, queue, drv, gen>>

Lane(l) == LaneStart(l) \/ LaneLastChunk(l) \/ LaneFinish(l)
Return == WaitReturns \/ ResultReturns \/ ShutdownReturns \/ ReleaseReturns \/ GenReady

-----------------------------------------------------------------------------
(* What a row tells the caller: OperationResult.value                         *)
value(f) == CASE fut[f].status = "completed" -> "value"
              [] fut[f].status = "cancelled" -> "OperationCancelledError"
              [] OTHER -> "OperationFailedError"

=============================================================================
