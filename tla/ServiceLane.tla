---------------------------- MODULE ServiceLane ----------------------------
(***************************************************************************)
(* One serialized service lane of the synthetic engine (class ServiceLane  *)
(* of hpx_impl/service_lane.hpp; class HpxLane has the same control on HPX *)
(* primitives).  Clients push requests under the lane mutex mu_ and then   *)
(* notify the condition variable; one worker pops them in order, runs them *)
(* chunk by chunk and fulfils their promises; any client may cancel a      *)
(* request through its token, whose mutex is not the lane's; the           *)
(* destructor stops the lane, wakes the worker and joins it.               *)
(*                                                                         *)
(* Each critical section is one step, and so is each statement outside one *)
(* that another thread can observe: the notify after a push, the set_value *)
(* after the token's phase was flipped, the clearing of active_.           *)
(***************************************************************************)
EXTENDS Integers, Sequences

CONSTANTS
    Requests,        \* identities of the requests of one run
    NoRequest,       \* "no request": an idle client, a worker without an item
    Clients,         \* threads that submit and cancel
    ChunkCounts,     \* values of Request::chunks that are submitted
    WorkModes,       \* values of Request::work_mode that are submitted
    Bounded,         \* TRUE: the owner submits with try_submit only
    MaxQueueDepth,   \* the owner's cap (used when Bounded)
    BulkSize         \* bound on a group given to submit_bulk

ASSUME LaneAssumption ==
    /\ NoRequest \notin Requests
    /\ ChunkCounts \subseteq Int
    /\ WorkModes \subseteq {"sleep", "spin", "unsupported"}
    /\ Bounded \in BOOLEAN
    /\ MaxQueueDepth \in Nat
    /\ BulkSize \in Nat

VARIABLES
    admission,    \* per request: "new", "admitted" or "rejected"
    req,          \* per request: the submitted Request
    tok,          \* per request: its CancelToken
    promise,      \* per request: what its promise holds
    wins,         \* per request: the cancel() calls on it that return true
    enqueue_ns,   \* per request: time of its push, read under mu_
    now,          \* the clock behind enqueue_ns
    queue,        \* queue_
    active,       \* active_
    stop,         \* stop_
    pc,           \* the worker's control point in run() and service()
    item,         \* the worker's item
    c,            \* service(): chunk counter
    res,          \* the Result that service() built
    cpc,          \* per client: control point in submit*/cancel
    carg,         \* per client: the request it submits or cancels
    dtor          \* progress of ~ServiceLane

requestVars == <<admission, req, tok, promise, wins, enqueue_ns, now>>
workerVars == <<pc, item, c, res>>
clientVars == <<cpc, carg>>
vars == <<admission, req, tok, promise, wins, enqueue_ns, now,
          queue, active, stop, pc, item, c, res, cpc, carg, dtor>>
-----------------------------------------------------------------------------
(* The token of a request (class CancelToken): every method is one critical *)
(* section under the token's own mutex m_, so each is an operator from the  *)
(* token before the call to the token after it, with a companion that gives *)
(* what the call returns.  Setting the promise is the caller's next step.   *)

Phase == {"Queued", "Running", "StopRequested", "Cancelled", "Completed"}

Token == [phase : Phase, cancellable : BOOLEAN]

NewToken == [phase |-> "Queued", cancellable |-> FALSE]

\* cancel(): the branch that settles the request here and now.
FulfillNow(t) == t.phase = "Queued"

\* cancel(): the branch that only asks the lane to stop at a boundary.
StopRequestable(t) == t.phase = "Running" /\ t.cancellable

\* What cancel() returns.
CancelReturns(t) == FulfillNow(t) \/ StopRequestable(t)

\* The token after a cancel() that returns true (any other leaves it alone).
AfterCancel(t) ==
    [phase |-> IF FulfillNow(t) THEN "Cancelled" ELSE "StopRequested",
     cancellable |-> t.cancellable]

\* Faulty variant: begin_service() ignores that a queued cancel has won.
BeginIgnoresCancel(t) == TRUE

\* begin_service(chunks) returns false only if a queued cancel has won.
BeginReturns(t) == t.phase # "Cancelled"

AfterBegin(t, chunks) == [phase |-> "Running", cancellable |-> chunks > 1]

\* stop_at_boundary(next_is_final): TRUE when the lane must stop now.
StopReturns(t) == t.phase = "StopRequested"

\* Faulty variant: the final boundary leaves the token cancellable.
FinalBoundaryStaysOpen(t, next_is_final) ==
    [t EXCEPT !.phase = IF StopReturns(t) THEN "Cancelled" ELSE @]

AfterBoundary(t, next_is_final) ==
    IF StopReturns(t)
    THEN [phase |-> "Cancelled", cancellable |-> t.cancellable]
    ELSE [phase |-> t.phase, cancellable |-> t.cancellable /\ ~next_is_final]

AfterMarkCompleted(t) ==
    [phase |-> IF t.phase = "Running" THEN "Completed" ELSE t.phase,
     cancellable |-> t.cancellable]

\* is_cancelled(): cancellation is guaranteed, whether or not the row is set.
IsCancelled(t) == t.phase \in {"Cancelled", "StopRequested"}
-----------------------------------------------------------------------------
Supported == {"sleep", "spin"}

Request == [chunks : Int, work_mode : WorkModes \cup Supported, cancelable : BOOLEAN]

\* The fields of a Result that the lane decides.
Row(status, n) == [status |-> status, chunks_completed |-> n]
Result == [status : {"completed", "cancelled", "failed"}, chunks_completed : Nat]

\* A promise is empty, holds a Result, or was set a second time, which throws
\* promise_already_satisfied in the thread that does it.
Empty == Row("empty", 0)
SetTwice == Row("set_twice", 0)

SetValue(r, row) ==
    promise' = [promise EXCEPT ![r] = IF @ = Empty THEN row ELSE SetTwice]

Settled(r) == promise[r] # Empty

\* n of service(): the chunk count with its defensive lower bound.
EffectiveChunks(r) == IF req[r].chunks < 1 THEN 1 ELSE req[r].chunks

Init ==
    /\ admission = [r \in Requests |-> "new"]
    /\ req = [r \in Requests |->
                [chunks |-> 1, work_mode |-> "sleep", cancelable |-> FALSE]]
    /\ tok = [r \in Requests |-> NewToken]
    /\ promise = [r \in Requests |-> Empty]
    /\ wins = [r \in Requests |-> 0]
    /\ enqueue_ns = [r \in Requests |-> 0]
    /\ now = 0
    /\ queue = <<>>
    /\ active = FALSE
    /\ stop = FALSE
    /\ pc = "loop" /\ item = NoRequest /\ c = 0 /\ res = Empty
    /\ cpc = [k \in Clients |-> "idle"]
    /\ carg = [k \in Clients |-> NoRequest]
    /\ dtor = "alive"
-----------------------------------------------------------------------------
(* The client side.  A lane object is used only while it is alive.         *)

\* The statements of submit() and of an admitted try_submit() up to the unlock.
Push(k, r, q) ==
    /\ admission' = [admission EXCEPT ![r] = "admitted"]
    /\ req' = [req EXCEPT ![r] = q]
    /\ queue' = Append(queue, r)
    /\ now' = now + 1
    /\ enqueue_ns' = [enqueue_ns EXCEPT ![r] = now + 1]
    /\ cpc' = [cpc EXCEPT ![k] = "notify"]
    /\ carg' = [carg EXCEPT ![k] = r]

CanSubmit(k, r) ==
    /\ dtor = "alive"
    /\ cpc[k] = "idle"
    /\ admission[r] = "new"

Submit(k, r, q) ==
    /\ ~Bounded
    /\ CanSubmit(k, r)
    /\ Push(k, r, q)
    /\ UNCHANGED <<tok, promise, wins, active, stop, pc, item, c, res, dtor>>

\* Faulty variant: the cap test of try_submit() is off by one.
TrySubmitOneOver(k, r, q) ==
    /\ Bounded
    /\ CanSubmit(k, r)
    /\ Len(queue) <= MaxQueueDepth
    /\ Push(k, r, q)
    /\ UNCHANGED <<tok, promise, wins, active, stop, pc, item, c, res, dtor>>

\* try_submit(): the depth is tested under the lock that covers the push; a
\* rejected request leaves nothing behind on the lane.
TrySubmit(k, r, q) ==
    /\ Bounded
    /\ CanSubmit(k, r)
    /\ \/ /\ Len(queue) < MaxQueueDepth
          /\ Push(k, r, q)
       \/ /\ Len(queue) >= MaxQueueDepth
          /\ admission' = [admission EXCEPT ![r] = "rejected"]
          /\ UNCHANGED <<req, queue, now, enqueue_ns, cpc, carg>>
    /\ UNCHANGED <<tok, promise, wins, active, stop, pc, item, c, res, dtor>>

\* submit_bulk(): a group of token-less requests, one lock and one notify.
SubmitBulk(k, group, q) ==
    /\ ~Bounded
    /\ dtor = "alive"
    /\ cpc[k] = "idle"
    /\ \A i \in DOMAIN group : admission[group[i]] = "new"
    /\ ~q.cancelable
    /\ admission' = [r \in Requests |->
                       IF \E i \in DOMAIN group : group[i] = r
                       THEN "admitted" ELSE admission[r]]
    /\ req' = [r \in Requests |->
                 IF \E i \in DOMAIN group : group[i] = r THEN q ELSE req[r]]
    /\ enqueue_ns' = [r \in Requests |->
                        IF \E i \in DOMAIN group : group[i] = r
                        THEN now + (CHOOSE i \in DOMAIN group : group[i] = r)
                        ELSE enqueue_ns[r]]
    /\ now' = now + Len(group)
    /\ queue' = queue \o group
    /\ cpc' = [cpc EXCEPT ![k] = "notify"]
    /\ UNCHANGED <<tok, promise, wins, active, stop, pc, item, c, res, carg, dtor>>

\* Faulty variant: the notify does not reach a worker that waits.
NotifyLost(k) ==
    /\ cpc[k] = "notify"
    /\ cpc' = [cpc EXCEPT ![k] = "idle"]
    /\ carg' = [carg EXCEPT ![k] = NoRequest]
    /\ UNCHANGED <<requestVars, queue, active, stop, workerVars, dtor>>

\* cv_.notify_one(), after the unlock: it wakes the worker if it is waiting.
Notify(k) ==
    /\ cpc[k] = "notify"
    /\ pc' = IF pc = "waiting" THEN "loop" ELSE pc
    /\ cpc' = [cpc EXCEPT ![k] = "idle"]
    /\ carg' = [carg EXCEPT ![k] = NoRequest]
    /\ UNCHANGED <<requestVars, queue, active, stop, item, c, res, dtor>>

\* The submit call has returned the token, so its future can be cancelled.
TokenReturned(r) ==
    /\ admission[r] = "admitted"
    /\ req[r].cancelable
    /\ \A k \in Clients : ~(cpc[k] = "notify" /\ carg[k] = r)

\* A cancel() that returns true: the phase flip under the token's mutex.  A
\* cancel() that returns false changes nothing and is not a step.  The token
\* outlives the lane, so there is no condition on dtor.
Cancel(k, r) ==
    /\ cpc[k] = "idle"
    /\ TokenReturned(r)
    /\ CancelReturns(tok[r])
    /\ tok' = [tok EXCEPT ![r] = AfterCancel(@)]
    /\ wins' = [wins EXCEPT ![r] = @ + 1]
    /\ IF FulfillNow(tok[r])
       THEN /\ cpc' = [cpc EXCEPT ![k] = "fulfill"]
            /\ carg' = [carg EXCEPT ![k] = r]
       ELSE UNCHANGED clientVars
    /\ UNCHANGED <<admission, req, promise, enqueue_ns, now,
                   queue, active, stop, pc, item, c, res, dtor>>

\* The rest of a cancel() that won in the queue: set_value outside the lock.
CancelFulfill(k) ==
    /\ cpc[k] = "fulfill"
    /\ SetValue(carg[k], Row("cancelled", 0))
    /\ cpc' = [cpc EXCEPT ![k] = "idle"]
    /\ carg' = [carg EXCEPT ![k] = NoRequest]
    /\ UNCHANGED <<admission, req, tok, wins, enqueue_ns, now,
                   queue, active, stop, pc, item, c, res, dtor>>
-----------------------------------------------------------------------------
(* The worker: run() and service().                                        *)

\* cv_.wait with a false predicate: the lock is released and the worker sleeps.
WorkerWait ==
    /\ pc = "loop"
    /\ ~stop /\ queue = <<>>
    /\ pc' = "waiting"
    /\ UNCHANGED <<requestVars, queue, active, stop, item, c, res, clientVars, dtor>>

WorkerExit ==
    /\ pc = "loop"
    /\ stop /\ queue = <<>>
    /\ pc' = "exited"
    /\ UNCHANGED <<requestVars, queue, active, stop, item, c, res, clientVars, dtor>>

\* Faulty variants of the pop: from the back, and without setting active_.
PopFromBack ==
    /\ pc = "loop"
    /\ queue # <<>>
    /\ item' = queue[Len(queue)]
    /\ queue' = SubSeq(queue, 1, Len(queue) - 1)
    /\ active' = TRUE
    /\ pc' = "begin"
    /\ UNCHANGED <<requestVars, stop, c, res, clientVars, dtor>>

PopInactive ==
    /\ pc = "loop"
    /\ queue # <<>>
    /\ item' = Head(queue)
    /\ queue' = Tail(queue)
    /\ pc' = "begin"
    /\ UNCHANGED <<requestVars, active, stop, c, res, clientVars, dtor>>

WorkerPop ==
    /\ pc = "loop"
    /\ queue # <<>>
    /\ item' = Head(queue)
    /\ queue' = Tail(queue)
    /\ active' = TRUE
    /\ pc' = "begin"
    /\ UNCHANGED <<requestVars, stop, c, res, clientVars, dtor>>

\* Faulty variant: a skipped request stays the worker's item.
SkipKeepsItem ==
    /\ pc = "begin"
    /\ req[item].cancelable
    /\ ~BeginReturns(tok[item])
    /\ active' = FALSE
    /\ pc' = "loop"
    /\ UNCHANGED <<requestVars, queue, stop, item, c, res, clientVars, dtor>>

\* begin_service(): a request whose queued cancel won is skipped.
WorkerSkip ==
    /\ pc = "begin"
    /\ req[item].cancelable
    /\ ~BeginReturns(tok[item])
    /\ active' = FALSE
    /\ item' = NoRequest
    /\ pc' = "loop"
    /\ UNCHANGED <<requestVars, queue, stop, c, res, clientVars, dtor>>

WorkerBegin ==
    /\ pc = "begin"
    /\ req[item].cancelable => BeginReturns(tok[item])
    /\ tok' = IF req[item].cancelable
              THEN [tok EXCEPT ![item] = AfterBegin(@, req[item].chunks)]
              ELSE tok
    /\ c' = 0
    /\ pc' = "service"
    /\ UNCHANGED <<admission, req, promise, wins, enqueue_ns, now,
                   queue, active, stop, item, res, clientVars, dtor>>

\* service(), entry: an unsupported work mode throws and becomes a failed row.
\* The catch block does not touch the token.
ServiceEntry ==
    /\ pc = "service"
    /\ IF req[item].work_mode \in Supported
       THEN pc' = "chunk" /\ res' = res
       ELSE pc' = "fulfill" /\ res' = Row("failed", 0)
    /\ UNCHANGED <<requestVars, queue, active, stop, item, c, clientVars, dtor>>

\* One active chunk and the parked gap behind it; neither looks at the token.
RunChunk ==
    /\ pc = "chunk"
    /\ c' = c + 1
    /\ pc' = IF c + 1 < EffectiveChunks(item) THEN "boundary" ELSE "mark"
    /\ UNCHANGED <<requestVars, queue, active, stop, item, res, clientVars, dtor>>

\* The chunk boundary: stop_at_boundary() for a request with a token.
Boundary ==
    /\ pc = "boundary"
    /\ IF req[item].cancelable
       THEN LET next_is_final == c = EffectiveChunks(item) - 1
            IN  /\ tok' = [tok EXCEPT ![item] = AfterBoundary(@, next_is_final)]
                /\ IF StopReturns(tok[item])
                   THEN pc' = "fulfill" /\ res' = Row("cancelled", c)
                   ELSE pc' = "chunk" /\ res' = res
       ELSE pc' = "chunk" /\ UNCHANGED <<tok, res>>
    /\ UNCHANGED <<admission, req, promise, wins, enqueue_ns, now,
                   queue, active, stop, item, c, clientVars, dtor>>

\* All chunks ran: mark_completed() and a completed row.
MarkCompleted ==
    /\ pc = "mark"
    /\ tok' = IF req[item].cancelable
              THEN [tok EXCEPT ![item] = AfterMarkCompleted(@)]
              ELSE tok
    /\ res' = Row("completed", EffectiveChunks(item))
    /\ pc' = "fulfill"
    /\ UNCHANGED <<admission, req, promise, wins, enqueue_ns, now,
                   queue, active, stop, item, c, clientVars, dtor>>

WorkerFulfill ==
    /\ pc = "fulfill"
    /\ SetValue(item, res)
    /\ pc' = "clear"
    /\ UNCHANGED <<admission, req, tok, wins, enqueue_ns, now,
                   queue, active, stop, item, c, res, clientVars, dtor>>

\* active_ is cleared by a store of its own, after the promise was set.
WorkerClear ==
    /\ pc = "clear"
    /\ active' = FALSE
    /\ item' = NoRequest /\ c' = 0 /\ res' = Empty
    /\ pc' = "loop"
    /\ UNCHANGED <<requestVars, queue, stop, clientVars, dtor>>
-----------------------------------------------------------------------------
(* ~ServiceLane: no submit is in progress and none follows.                *)

\* Faulty variant: the destructor joins without waking the worker.
DtorStopSilently ==
    /\ dtor = "alive"
    /\ \A k \in Clients : cpc[k] # "notify"
    /\ stop' = TRUE
    /\ dtor' = "join"
    /\ UNCHANGED <<requestVars, queue, active, workerVars, clientVars>>

DtorStop ==
    /\ dtor = "alive"
    /\ \A k \in Clients : cpc[k] # "notify"
    /\ stop' = TRUE
    /\ dtor' = "notify"
    /\ UNCHANGED <<requestVars, queue, active, workerVars, clientVars>>

DtorNotify ==
    /\ dtor = "notify"
    /\ pc' = IF pc = "waiting" THEN "loop" ELSE pc
    /\ dtor' = "join"
    /\ UNCHANGED <<requestVars, queue, active, stop, item, c, res, clientVars>>

DtorJoin ==
    /\ dtor = "join"
    /\ pc = "exited"
    /\ dtor' = "joined"
    /\ UNCHANGED <<requestVars, queue, active, stop, workerVars, clientVars>>
-----------------------------------------------------------------------------
Inputs == [chunks : ChunkCounts, work_mode : WorkModes, cancelable : BOOLEAN]

\* Groups of distinct requests, at most BulkSize of them.
Groups == {g \in UNION {[1..n -> Requests] : n \in 1..BulkSize} :
             \A i, j \in DOMAIN g : g[i] = g[j] => i = j}

Worker ==
    \/ WorkerWait \/ WorkerExit \/ WorkerPop \/ WorkerSkip \/ WorkerBegin
    \/ ServiceEntry \/ RunChunk \/ Boundary \/ MarkCompleted
    \/ WorkerFulfill \/ WorkerClear

Dtor == DtorStop \/ DtorNotify \/ DtorJoin

Next ==
    \/ Worker
    \/ Dtor
    \/ \E k \in Clients :
         \/ Notify(k)
         \/ CancelFulfill(k)
         \/ \E r \in Requests : Cancel(k, r)
         \/ \E r \in Requests, q \in Inputs : Submit(k, r, q)
         \/ \E r \in Requests, q \in Inputs : TrySubmit(k, r, q)
         \/ \E g \in Groups, q \in Inputs : SubmitBulk(k, g, q)

\* The threads of the process keep running: the worker, a client between two
\* statements of one call, and a destructor that has begun.  Nothing forces a
\* client to call, or the owner to destroy the lane.
Fairness ==
    /\ WF_vars(Worker)
    /\ WF_vars(DtorNotify \/ DtorJoin)
    /\ \A k \in Clients : WF_vars(Notify(k)) /\ WF_vars(CancelFulfill(k))

Spec == Init /\ [][Next]_vars
FairSpec == Spec /\ Fairness
-----------------------------------------------------------------------------
(* Properties.                                                             *)

ResultOrEmpty == Result \cup {Empty, SetTwice}

RequestTypes ==
    /\ admission \in [Requests -> {"new", "admitted", "rejected"}]
    /\ req \in [Requests -> Request]
    /\ tok \in [Requests -> Token]
    /\ promise \in [Requests -> ResultOrEmpty]
    /\ wins \in [Requests -> Nat]
    /\ enqueue_ns \in [Requests -> Nat]
    /\ now \in Nat

QueueType == queue \in Seq(Requests)

FlagTypes ==
    /\ active \in BOOLEAN
    /\ stop \in BOOLEAN
    /\ dtor \in {"alive", "notify", "join", "joined"}

ThreadTypes ==
    /\ pc \in {"loop", "waiting", "begin", "service", "chunk", "boundary",
               "mark", "fulfill", "clear", "exited"}
    /\ item \in Requests \cup {NoRequest}
    /\ item = NoRequest <=> pc \in {"loop", "waiting", "exited"}
    /\ c \in Nat
    /\ res \in ResultOrEmpty
    /\ cpc \in [Clients -> {"idle", "notify", "fulfill"}]
    /\ carg \in [Clients -> Requests \cup {NoRequest}]

\* Types of the requests' state, the lane's fields and the threads' locals;
\* the worker holds an item exactly between its pop and the end of its loop.
TypeOK == RequestTypes /\ QueueType /\ FlagTypes /\ ThreadTypes

\* A promise is set at most once, although the thread that cancels and the
\* worker both hold it and neither sets it under a lock (cancel(), run()).
PromiseSetOnce == \A r \in Requests : promise[r] # SetTwice

\* "True means guaranteed-to-stop": at most one cancel() of a request returns
\* true, and the row of a request with a supported work mode says "cancelled"
\* exactly when one did.
CancelIffOneWin ==
    \A r \in Requests :
        /\ wins[r] <= 1
        /\ Settled(r) /\ req[r].work_mode \in Supported =>
              (promise[r].status = "cancelled" <=> wins[r] = 1)

\* Result::chunks_completed: the chunks the worker really ran; all of them in a
\* completed row (at least one); in a cancelled row fewer than all, and none
\* exactly when the queued cancel won.
ChunksAccounted ==
    /\ pc \in {"fulfill", "clear"} => res.chunks_completed = c
    /\ \A r \in Requests :
        /\ promise[r].status = "completed" =>
              /\ promise[r].chunks_completed >= 1
              /\ promise[r].chunks_completed >= req[r].chunks
              /\ req[r].chunks >= 1 => promise[r].chunks_completed = req[r].chunks
        /\ promise[r].status = "cancelled" =>
              /\ promise[r].chunks_completed = 0 \/ promise[r].chunks_completed < req[r].chunks
              /\ promise[r].chunks_completed = 0 <=> ~tok[r].cancellable

\* A client has won a queued cancel of r and is about to set its promise.
BeingCancelled(r) == \E k \in Clients : cpc[k] = "fulfill" /\ carg[k] = r

\* The worker has started r, or has settled it.
StartedByWorker(r) ==
    \/ item = r /\ pc \notin {"begin"}
    \/ Settled(r) /\ promise[r] # Row("cancelled", 0)

\* "exactly one request at a time, in submission order": when the worker has
\* started a request, every request pushed before it is settled, or is being
\* settled by the client that cancelled it in the queue.
SubmissionOrder ==
    \A r, s \in Requests :
        /\ admission[r] = "admitted" /\ admission[s] = "admitted"
        /\ enqueue_ns[r] < enqueue_ns[s]
        /\ StartedByWorker(s)
        => Settled(r) \/ BeingCancelled(r)

\* What a stats() snapshot may be used for: if it shows an empty queue and an
\* inactive lane, no admitted request is still in the lane's hands.
IdleMeansSettled ==
    queue = <<>> /\ ~active =>
        \A r \in Requests : admission[r] = "admitted" => Settled(r) \/ BeingCancelled(r)

\* What the lane reports is what it did: the rows' chunk counts and stats().
ReportsTrue == ChunksAccounted /\ IdleMeansSettled

\* try_submit() keeps the queue within the cap whatever the interleaving of
\* clients, and a request it rejects leaves no trace in the lane.
AdmissionBounded ==
    /\ Bounded => Len(queue) <= MaxQueueDepth
    /\ \A r \in Requests : admission[r] = "rejected" =>
          ~Settled(r) /\ item # r /\ \A i \in DOMAIN queue : queue[i] # r

\* cancel() "returns true iff THIS call settles a cancellation": no row other
\* than a cancelled one belongs to a request whose cancel() returned true,
\* whatever its work mode.
CancelTrueMeansCancelled ==
    \A r \in Requests : Settled(r) /\ wins[r] > 0 => promise[r].status = "cancelled"

\* Every admitted request is eventually settled, also when it is cancelled or
\* the lane is being destroyed: no wake-up is lost between push and notify.
EveryRequestSettles ==
    \A r \in Requests : admission[r] = "admitted" ~> Settled(r)

\* The destructor terminates: stop_ and notify_all reach the worker, which
\* drains the queue and exits.
DestructionCompletes == dtor # "alive" ~> dtor = "joined"
-----------------------------------------------------------------------------
(* The abstract lane: the rows the clients see.                            *)
Abstract == INSTANCE Settlement WITH
    admitted  <- {r \in Requests : admission[r] = "admitted"},
    committed <- {r \in Requests : wins[r] > 0},
    outcome   <- [r \in Requests |-> IF Settled(r) THEN promise[r].status ELSE "none"]

\* The lane implements Settlement: every row is settled once, and as cancelled
\* exactly when a cancel() of the request had returned true before.
ImplementsSettlement == Abstract!SSpec
=============================================================================
