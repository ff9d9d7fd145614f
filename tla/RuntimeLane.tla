---------------------------- MODULE RuntimeLane ----------------------------
(***************************************************************************)
(* One lane of rayx.runtime (class RuntimeLane of runtime_lane.hpp) in its *)
(* two modes.  A SerialBlocking lane runs one operation at a time, waits   *)
(* for it and retires it before the next pop.  An AsyncNonBlocking lane    *)
(* starts an Async operation, keeps popping while at most max_inflight_    *)
(* run, and lets a continuation fulfil the promise and give the slot back; *)
(* Inline operations run on its consumer.                                  *)
(*                                                                         *)
(* Clients are the threads that submit (the Python driver and the endpoint *)
(* bridge) or cancel.  The teardown thread does what shutdown() and        *)
(* release_actor() of the engine do to one lane: cancel_pending(), which   *)
(* collects tokens under mu_ and cancels them outside it, then             *)
(* stop_and_join().  Each critical section is one step, and so is each     *)
(* statement outside one that another thread can observe.                  *)
(***************************************************************************)
EXTENDS Integers, Sequences, FiniteSets

CONSTANTS
    Requests,         \* identities of the submitted operations
    NoRequest,        \* "none": an idle client, a consumer without an item
    Clients,          \* threads that submit and cancel
    Items,            \* [checkpoint_count, policy] of the submitted operations
    Modes,            \* lane modes that are constructed
    MaxInflight,      \* max_inflight_ (AsyncNonBlocking)
    MaxQueueDepth,    \* the engine's cap per lane, -1 when it has none
    DispatchFaults    \* TRUE: the executor may fail to run an Async operation

ASSUME RuntimeLaneAssumption ==
    /\ NoRequest \notin Requests
    /\ Items \subseteq [checkpoint_count : Nat \ {0}, policy : {"Inline", "Async"}]
    /\ \A i \in Items : i.policy = "Inline" => i.checkpoint_count = 1
    /\ Modes \subseteq {"SerialBlocking", "AsyncNonBlocking"}
    /\ MaxInflight \in Nat \ {0}
    /\ MaxQueueDepth \in Nat \cup {-1}
    /\ DispatchFaults \in BOOLEAN

VARIABLES
    admission,       \* per request: "new", "admitted" or "rejected"
    itm,             \* per request: its checkpoint count and dispatch policy
    tok,             \* per request: its RuntimeCancelToken
    promise,         \* per request: the status its promise holds
    wins,            \* per request: the cancel() calls on it that return true
    pushed,          \* the requests in the order of their push (history)
    mode,            \* mode_, fixed when the lane is constructed
    queue,           \* queue_
    stop,            \* stop_
    active,          \* active_
    active_tok,      \* the request of active_tok_
    inflight,        \* inflight_
    inflight_toks,   \* the requests of inflight_toks_
    pc,              \* the consumer's control point in run_serial/run_nonblocking
    item,            \* the consumer's item
    op,              \* per request: control point of its execution
    c,               \* per request: chunks its body has run
    res,             \* per request: status of the RuntimeResult built for it
    cpc, carg,       \* per client: control point and request
    sd,              \* control point of the teardown thread
    sdtoks           \* cancel_pending(): tokens still to cancel

requestVars == <<admission, itm, tok, promise, wins, pushed>>
laneVars == <<mode, queue, stop, active, active_tok, inflight, inflight_toks>>
opVars == <<op, c, res>>
clientVars == <<cpc, carg>>
teardownVars == <<sd, sdtoks>>
vars == <<admission, itm, tok, promise, wins, pushed,
          mode, queue, stop, active, active_tok, inflight, inflight_toks,
          pc, item, op, c, res, cpc, carg, sd, sdtoks>>
-----------------------------------------------------------------------------
(* The token of an operation (class RuntimeCancelToken of                  *)
(* runtime_cancel.hpp): a method is one critical section under the token's *)
(* mutex m_, an operator from the token before the call to the token after *)
(* it, and one that gives the call's result.  It is armed by the           *)
(* checkpoint count of the operation.                                      *)

Phases == {"Queued", "Running", "StopRequested", "Cancelled", "Completed"}

Tokens == [phase : Phases, cancellable : BOOLEAN]

\* A token after arm(): wired to its promise, waiting in the queue.
ArmedToken == [phase |-> "Queued", cancellable |-> FALSE]

\* cancel(): TRUE when it fulfils the promise itself.
CancelFulfills(t) == t.phase = "Queued"

CancelSucceeds(t) == CancelFulfills(t) \/ (t.phase = "Running" /\ t.cancellable)

\* The token after a cancel() that returned true.
Cancelled(t) ==
    [phase |-> IF CancelFulfills(t) THEN "Cancelled" ELSE "StopRequested",
     cancellable |-> t.cancellable]

\* begin_service() returns false when a queued cancel has won.
MayBegin(t) == t.phase # "Cancelled"

\* Faulty variant: every running operation is cancellable.
BegunAlwaysArmed(t, checkpoint_count) == [phase |-> "Running", cancellable |-> TRUE]

Begun(t, checkpoint_count) ==
    [phase |-> "Running", cancellable |-> checkpoint_count > 1]

\* stop_at_boundary(): TRUE when the operation must stop now.
MustStop(t) == t.phase = "StopRequested"

\* Faulty variant: the last boundary leaves the token cancellable.
BoundaryNeverCloses(t, next_is_final) ==
    [t EXCEPT !.phase = IF MustStop(t) THEN "Cancelled" ELSE @]

AtBoundary(t, next_is_final) ==
    IF MustStop(t)
    THEN [phase |-> "Cancelled", cancellable |-> t.cancellable]
    ELSE [phase |-> t.phase, cancellable |-> t.cancellable /\ ~next_is_final]

\* mark_finished(): a completed or failed operation.
Finished(t) ==
    [phase |-> IF t.phase = "Running" THEN "Completed" ELSE t.phase,
     cancellable |-> t.cancellable]

\* is_cancelled(): cancellation is guaranteed.
CancelSettled(t) == t.phase \in {"Cancelled", "StopRequested"}
-----------------------------------------------------------------------------
Serial == mode = "SerialBlocking"

\* A promise that is set a second time throws in the thread that does it.
SetValue(r, status) ==
    promise' = [promise EXCEPT ![r] = IF @ = "empty" THEN status ELSE "set_twice"]

Settled(r) == promise[r] # "empty"

\* notify_one or notify_all, as far as the consumer is concerned.
WakeConsumer == pc' = IF pc = "waiting" THEN "loop" ELSE pc

Init ==
    /\ admission = [r \in Requests |-> "new"]
    /\ itm = [r \in Requests |-> [checkpoint_count |-> 1, policy |-> "Async"]]
    /\ tok = [r \in Requests |-> ArmedToken]
    /\ promise = [r \in Requests |-> "empty"]
    /\ wins = [r \in Requests |-> 0]
    /\ pushed = <<>>
    /\ mode \in Modes
    /\ queue = <<>> /\ stop = FALSE
    /\ active = FALSE /\ active_tok = NoRequest
    /\ inflight = 0 /\ inflight_toks = <<>>
    /\ pc = "loop" /\ item = NoRequest
    /\ op = [r \in Requests |-> "idle"]
    /\ c = [r \in Requests |-> 0]
    /\ res = [r \in Requests |-> "empty"]
    /\ cpc = [k \in Clients |-> "idle"]
    /\ carg = [k \in Clients |-> NoRequest]
    /\ sd = "alive" /\ sdtoks = <<>>
-----------------------------------------------------------------------------
(* Clients.                                                                *)

\* try_submit() is used when the engine has a cap, submit() when it has none.
QueueFull == MaxQueueDepth >= 0 /\ Len(queue) >= MaxQueueDepth

\* Faulty variant: a push at the front of the queue.
PushedFirst(r) == <<r>> \o queue

\* queue_.push_back()
PushedBack(r) == Append(queue, r)

\* submit() and an admitted try_submit(), up to the unlock.  The driver does
\* not submit to a lane it tears down, and the bridge is drained before.
Submit(k, r, i) ==
    /\ sd = "alive"
    /\ cpc[k] = "idle"
    /\ admission[r] = "new"
    /\ ~QueueFull
    /\ admission' = [admission EXCEPT ![r] = "admitted"]
    /\ itm' = [itm EXCEPT ![r] = i]
    /\ queue' = PushedBack(r)
    /\ pushed' = Append(pushed, r)
    /\ cpc' = [cpc EXCEPT ![k] = "notify"]
    /\ carg' = [carg EXCEPT ![k] = r]
    /\ UNCHANGED <<tok, promise, wins, mode, stop, active, active_tok, inflight,
                   inflight_toks, pc, item, opVars, teardownVars>>

\* try_submit() on a full lane: nothing is created.
Reject(k, r) ==
    /\ sd = "alive"
    /\ cpc[k] = "idle"
    /\ admission[r] = "new"
    /\ QueueFull
    /\ admission' = [admission EXCEPT ![r] = "rejected"]
    /\ UNCHANGED <<itm, tok, promise, wins, pushed, laneVars, pc, item, opVars,
                   clientVars, teardownVars>>

\* cv_.notify_one(), after the unlock.
Notify(k) ==
    /\ cpc[k] = "notify"
    /\ WakeConsumer
    /\ cpc' = [cpc EXCEPT ![k] = "idle"]
    /\ carg' = [carg EXCEPT ![k] = NoRequest]
    /\ UNCHANGED <<requestVars, laneVars, item, opVars, teardownVars>>

\* RuntimeFuture.cancel() that returns true: the flip under the token's mutex.
\* A client has the token once its submit has returned.
Cancel(k, r) ==
    /\ cpc[k] = "idle"
    /\ admission[r] = "admitted"
    /\ \A m \in Clients : ~(cpc[m] = "notify" /\ carg[m] = r)
    /\ CancelSucceeds(tok[r])
    /\ tok' = [tok EXCEPT ![r] = Cancelled(@)]
    /\ wins' = [wins EXCEPT ![r] = @ + 1]
    /\ IF CancelFulfills(tok[r])
       THEN /\ cpc' = [cpc EXCEPT ![k] = "fulfill"]
            /\ carg' = [carg EXCEPT ![k] = r]
       ELSE UNCHANGED clientVars
    /\ UNCHANGED <<admission, itm, promise, pushed, laneVars, pc, item, opVars,
                   teardownVars>>

CancelFulfill(k) ==
    /\ cpc[k] = "fulfill"
    /\ SetValue(carg[k], "cancelled")
    /\ cpc' = [cpc EXCEPT ![k] = "idle"]
    /\ carg' = [carg EXCEPT ![k] = NoRequest]
    /\ UNCHANGED <<admission, itm, tok, wins, pushed, laneVars, pc, item, opVars,
                   teardownVars>>
-----------------------------------------------------------------------------
(* The consumer thread.                                                    *)

\* The wait predicate, apart from stop_.
Runnable == queue # <<>> /\ (Serial \/ inflight < MaxInflight)

WorkerWait ==
    /\ pc = "loop"
    /\ ~stop /\ ~Runnable
    /\ pc' = "waiting"
    /\ UNCHANGED <<requestVars, laneVars, item, opVars, clientVars, teardownVars>>

WorkerExit ==
    /\ pc = "loop"
    /\ stop /\ queue = <<>>
    /\ pc' = "exited"
    /\ UNCHANGED <<requestVars, laneVars, item, opVars, clientVars, teardownVars>>

\* Faulty variant: a pop that ignores the in-flight cap and records nothing.
PopBare ==
    /\ pc = "loop"
    /\ queue # <<>>
    /\ item' = Head(queue)
    /\ queue' = Tail(queue)
    /\ pc' = "begin"
    /\ UNCHANGED <<requestVars, mode, stop, active, active_tok, inflight, inflight_toks,
                   opVars, clientVars, teardownVars>>

\* The pop; a serial lane sets active_ and active_tok_ under the same lock, a
\* non-blocking lane records nothing yet.
WorkerPop ==
    /\ pc = "loop"
    /\ queue # <<>>
    /\ stop \/ Runnable
    /\ item' = Head(queue)
    /\ queue' = Tail(queue)
    /\ IF Serial
       THEN active' = TRUE /\ active_tok' = Head(queue)
       ELSE UNCHANGED <<active, active_tok>>
    /\ pc' = "begin"
    /\ UNCHANGED <<requestVars, mode, stop, inflight, inflight_toks, opVars, clientVars,
                   teardownVars>>

\* begin_service() refused: the queued cancel fulfils the promise.
WorkerSkip ==
    /\ pc = "begin"
    /\ ~MayBegin(tok[item])
    /\ IF Serial
       THEN pc' = "clear" /\ UNCHANGED item
       ELSE pc' = "loop" /\ item' = NoRequest
    /\ UNCHANGED <<requestVars, laneVars, opVars, clientVars, teardownVars>>

\* begin_service(), and the consumer runs the operation itself: inline, or in
\* a serial lane with hpx::async(...).get().
WorkerRun ==
    /\ pc = "begin"
    /\ MayBegin(tok[item])
    /\ Serial \/ itm[item].policy = "Inline"
    /\ tok' = [tok EXCEPT ![item] = Begun(@, itm[item].checkpoint_count)]
    /\ op' = [op EXCEPT ![item] = "body"]
    /\ pc' = "busy"
    /\ UNCHANGED <<admission, itm, promise, wins, pushed, laneVars, item, c, res,
                   clientVars, teardownVars>>

\* begin_service() of an operation that a non-blocking lane will dispatch.
WorkerBegin ==
    /\ pc = "begin"
    /\ MayBegin(tok[item])
    /\ ~Serial /\ itm[item].policy = "Async"
    /\ tok' = [tok EXCEPT ![item] = Begun(@, itm[item].checkpoint_count)]
    /\ pc' = "dispatch"
    /\ UNCHANGED <<admission, itm, promise, wins, pushed, laneVars, item, opVars,
                   clientVars, teardownVars>>

\* The in-flight slot is taken under mu_ and the body is launched.
WorkerDispatch ==
    /\ pc = "dispatch"
    /\ inflight' = inflight + 1
    /\ inflight_toks' = Append(inflight_toks, item)
    /\ op' = [op EXCEPT ![item] = "body"]
    /\ item' = NoRequest
    /\ pc' = "loop"
    /\ UNCHANGED <<requestVars, mode, queue, stop, active, active_tok, c, res, clientVars,
                   teardownVars>>
-----------------------------------------------------------------------------
(* The execution of one operation: on the consumer, or on a task of the    *)
(* executor with its continuation.                                         *)

\* The body throws, or the executor fails: a failed result.  Operations with
\* more than one checkpoint do not throw.
OpFail(r) ==
    /\ op[r] = "body" /\ c[r] = 0
    /\ \/ itm[r].checkpoint_count = 1
       \/ DispatchFaults
    /\ res' = [res EXCEPT ![r] = "failed"]
    /\ op' = [op EXCEPT ![r] = "mark"]
    /\ UNCHANGED <<requestVars, laneVars, pc, item, c, clientVars, teardownVars>>

\* One chunk of the body.
OpChunk(r) ==
    /\ op[r] = "body"
    /\ c' = [c EXCEPT ![r] = @ + 1]
    /\ IF c[r] + 1 < itm[r].checkpoint_count
       THEN op' = [op EXCEPT ![r] = "boundary"] /\ res' = res
       ELSE op' = [op EXCEPT ![r] = "mark"] /\ res' = [res EXCEPT ![r] = "completed"]
    /\ UNCHANGED <<requestVars, laneVars, pc, item, clientVars, teardownVars>>

\* The StopCheckpoint the lane bound: stop_at_boundary() before a chunk.
OpBoundary(r) ==
    /\ op[r] = "boundary"
    /\ tok' = [tok EXCEPT ![r] = AtBoundary(@, c[r] = itm[r].checkpoint_count - 1)]
    /\ IF MustStop(tok[r])
       THEN op' = [op EXCEPT ![r] = "set"] /\ res' = [res EXCEPT ![r] = "cancelled"]
       ELSE op' = [op EXCEPT ![r] = "body"] /\ res' = res
    /\ UNCHANGED <<admission, itm, promise, wins, pushed, laneVars, pc, item, c,
                   clientVars, teardownVars>>

\* mark_finished() of an outcome that is not "cancelled".
OpMark(r) ==
    /\ op[r] = "mark"
    /\ tok' = [tok EXCEPT ![r] = Finished(@)]
    /\ op' = [op EXCEPT ![r] = "set"]
    /\ UNCHANGED <<admission, itm, promise, wins, pushed, laneVars, pc, item, c, res,
                   clientVars, teardownVars>>

OpSet(r) ==
    /\ op[r] = "set"
    /\ SetValue(r, res[r])
    /\ op' = [op EXCEPT ![r] = "retire"]
    /\ UNCHANGED <<admission, itm, tok, wins, pushed, laneVars, pc, item, c, res,
                   clientVars, teardownVars>>

\* The consumer goes on after an operation it ran itself.
WorkerRetire ==
    /\ pc = "busy"
    /\ op[item] = "retire"
    /\ op' = [op EXCEPT ![item] = "done"]
    /\ IF Serial
       THEN pc' = "clear" /\ UNCHANGED item
       ELSE pc' = "loop" /\ item' = NoRequest
    /\ UNCHANGED <<requestVars, laneVars, c, res, clientVars, teardownVars>>

\* clear_active(): active_tok_ under mu_, then active_ by a store of its own.
WorkerClearTok ==
    /\ pc = "clear"
    /\ active_tok' = NoRequest
    /\ pc' = "clear_active"
    /\ UNCHANGED <<requestVars, mode, queue, stop, active, inflight, inflight_toks, item,
                   opVars, clientVars, teardownVars>>

WorkerClearActive ==
    /\ pc = "clear_active"
    /\ active' = FALSE
    /\ item' = NoRequest
    /\ pc' = "loop"
    /\ UNCHANGED <<requestVars, mode, queue, stop, active_tok, inflight, inflight_toks,
                   opVars, clientVars, teardownVars>>

\* The vector without its i-th element.
Erased(s, i) == [j \in 1..(Len(s) - 1) |-> IF j < i THEN s[j] ELSE s[j + 1]]

\* The loop over inflight_toks_: the first entry that is r's is erased.
EraseToken(r) ==
    \E i \in DOMAIN inflight_toks :
        /\ inflight_toks[i] = r
        /\ \A j \in DOMAIN inflight_toks : inflight_toks[j] = r => i <= j
        /\ inflight_toks' = Erased(inflight_toks, i)

\* Faulty variant: a continuation gives its slot back without a notify.
OpReleaseSilently(r) ==
    /\ op[r] = "retire"
    /\ op' = [op EXCEPT ![r] = "done"]
    /\ inflight' = inflight - 1
    /\ EraseToken(r)
    /\ UNCHANGED <<requestVars, mode, queue, stop, active, active_tok, pc, item, c, res,
                   clientVars, teardownVars>>

\* The end of a continuation: the slot is given back, the token dropped and
\* everyone who waits on cv_ notified, in one critical section.
OpRelease(r) ==
    /\ op[r] = "retire"
    /\ op' = [op EXCEPT ![r] = "done"]
    /\ inflight' = inflight - 1
    /\ EraseToken(r)
    /\ WakeConsumer
    /\ sd' = IF sd = "drain_wait" THEN "drain" ELSE sd
    /\ UNCHANGED <<requestVars, mode, queue, stop, active, active_tok, item, c, res,
                   clientVars, sdtoks>>
-----------------------------------------------------------------------------
(* The teardown thread: cancel_pending(), then stop_and_join().            *)

\* cancel_pending(), under mu_: the tokens of the queue, of the service slot
\* and of the operations in flight.
PendingTokens ==
    queue \o (IF active_tok = NoRequest THEN <<>> ELSE <<active_tok>>) \o inflight_toks

CancelPendingCollect ==
    /\ sd = "alive"
    /\ \A k \in Clients : cpc[k] # "notify"
    /\ sdtoks' = PendingTokens
    /\ sd' = "cancel"
    /\ UNCHANGED <<requestVars, laneVars, pc, item, opVars, clientVars>>

\* t->cancel() of the next collected token, outside mu_.
CancelPendingNext ==
    /\ sd = "cancel"
    /\ sdtoks # <<>>
    /\ LET r == Head(sdtoks)
       IN  /\ IF CancelSucceeds(tok[r])
              THEN /\ tok' = [tok EXCEPT ![r] = Cancelled(@)]
                   /\ wins' = [wins EXCEPT ![r] = @ + 1]
              ELSE UNCHANGED <<tok, wins>>
           /\ IF CancelFulfills(tok[r])
              THEN sd' = "fulfill" /\ UNCHANGED sdtoks
              ELSE sd' = sd /\ sdtoks' = Tail(sdtoks)
    /\ UNCHANGED <<admission, itm, promise, pushed, laneVars, pc, item, opVars, clientVars>>

CancelPendingFulfill ==
    /\ sd = "fulfill"
    /\ SetValue(Head(sdtoks), "cancelled")
    /\ sdtoks' = Tail(sdtoks)
    /\ sd' = "cancel"
    /\ UNCHANGED <<admission, itm, tok, wins, pushed, laneVars, pc, item, opVars, clientVars>>

\* stop_and_join(): stop_ under mu_.
StopSet ==
    /\ sd = "cancel"
    /\ sdtoks = <<>>
    /\ stop' = TRUE
    /\ sd' = "notify"
    /\ UNCHANGED <<requestVars, mode, queue, active, active_tok, inflight, inflight_toks,
                   pc, item, opVars, clientVars, sdtoks>>

StopNotify ==
    /\ sd = "notify"
    /\ WakeConsumer
    /\ sd' = "join"
    /\ UNCHANGED <<requestVars, laneVars, item, opVars, clientVars, sdtoks>>

\* Faulty variant: the teardown does not wait for the continuations.
StopJoinOnly ==
    /\ sd = "join"
    /\ pc = "exited"
    /\ sd' = "done"
    /\ UNCHANGED <<requestVars, laneVars, pc, item, opVars, clientVars, sdtoks>>

StopJoin ==
    /\ sd = "join"
    /\ pc = "exited"
    /\ sd' = IF Serial THEN "done" ELSE "drain"
    /\ UNCHANGED <<requestVars, laneVars, pc, item, opVars, clientVars, sdtoks>>

\* The wait of stop_and_join() for inflight_ == 0.
StopDrain ==
    /\ sd = "drain"
    /\ sd' = IF inflight = 0 THEN "done" ELSE "drain_wait"
    /\ UNCHANGED <<requestVars, laneVars, pc, item, opVars, clientVars, sdtoks>>
-----------------------------------------------------------------------------
Worker ==
    \/ WorkerWait \/ WorkerExit \/ WorkerPop \/ WorkerSkip \/ WorkerRun
    \/ WorkerBegin \/ WorkerDispatch \/ WorkerRetire
    \/ WorkerClearTok \/ WorkerClearActive

Execution(r) ==
    \/ OpFail(r) \/ OpChunk(r) \/ OpBoundary(r) \/ OpMark(r) \/ OpSet(r) \/ OpRelease(r)

Teardown ==
    \/ CancelPendingNext \/ CancelPendingFulfill
    \/ StopSet \/ StopNotify \/ StopJoin \/ StopDrain

Next ==
    \/ Worker
    \/ CancelPendingCollect
    \/ Teardown
    \/ \E r \in Requests : Execution(r)
    \/ \E k \in Clients :
         \/ Notify(k)
         \/ CancelFulfill(k)
         \/ \E r \in Requests : Cancel(k, r) \/ Reject(k, r)
         \/ \E r \in Requests, i \in Items : Submit(k, r, i)

\* HPX keeps running the consumer, the launched bodies and a teardown that has
\* begun, and a client finishes a call it has made; calls are never forced.
Fairness ==
    /\ WF_vars(Worker)
    /\ WF_vars(Teardown)
    /\ \A r \in Requests : WF_vars(Execution(r))
    /\ \A k \in Clients : WF_vars(Notify(k) \/ CancelFulfill(k))

Spec == Init /\ [][Next]_vars
FairSpec == Spec /\ Fairness
-----------------------------------------------------------------------------
(* Properties.                                                             *)

Statuses == {"empty", "completed", "cancelled", "failed", "set_twice"}

RequestTypes ==
    /\ admission \in [Requests -> {"new", "admitted", "rejected"}]
    /\ itm \in [Requests -> [checkpoint_count : Nat \ {0}, policy : {"Inline", "Async"}]]
    /\ tok \in [Requests -> Tokens]
    /\ promise \in [Requests -> Statuses]
    /\ wins \in [Requests -> Nat]
    /\ pushed \in Seq(Requests)

LaneTypes ==
    /\ mode \in Modes
    /\ queue \in Seq(Requests)
    /\ stop \in BOOLEAN
    /\ active \in BOOLEAN
    /\ active_tok \in Requests \cup {NoRequest}
    /\ inflight \in Int
    /\ inflight_toks \in Seq(Requests)

ThreadTypes ==
    /\ pc \in {"loop", "waiting", "begin", "dispatch", "busy", "clear",
               "clear_active", "exited"}
    /\ item \in Requests \cup {NoRequest}
    /\ item = NoRequest <=> pc \in {"loop", "waiting", "exited"}
    /\ op \in [Requests -> {"idle", "body", "boundary", "mark", "set", "retire", "done"}]
    /\ c \in [Requests -> Nat]
    /\ res \in [Requests -> Statuses]
    /\ cpc \in [Clients -> {"idle", "notify", "fulfill"}]
    /\ carg \in [Clients -> Requests \cup {NoRequest}]
    /\ sd \in {"alive", "cancel", "fulfill", "notify", "join", "drain",
               "drain_wait", "done"}
    /\ sdtoks \in Seq(Requests)
    /\ sd = "fulfill" => sdtoks # <<>>

\* Types of the requests, the lane's fields and the threads' locals; the
\* consumer holds an item exactly between its pop and the end of its loop.
TypeOK == RequestTypes /\ LaneTypes /\ ThreadTypes

\* A promise is set once, although a cancelling client, the teardown thread,
\* the consumer and a continuation may all reach the same request.
PromiseSetOnce == \A r \in Requests : promise[r] # "set_twice"

\* At most one cancel() of an operation returns true, from whichever thread,
\* and the operation ends as "cancelled" exactly when one did, unless the
\* executor failed to run it.
CancelIffOneWin ==
    \A r \in Requests :
        /\ wins[r] <= 1
        /\ Settled(r) => \/ promise[r] = "cancelled" <=> wins[r] = 1
                         \/ DispatchFaults /\ promise[r] = "failed"

\* Both: an operation has one outcome, and it is the one cancel() announced.
SettledAsAnnounced == PromiseSetOnce /\ CancelIffOneWin

\* A thread has won a queued cancel of r and is about to set its promise.
BeingCancelled(r) ==
    \/ \E k \in Clients : cpc[k] = "fulfill" /\ carg[k] = r
    \/ sd = "fulfill" /\ Head(sdtoks) = r

\* "Submission order stays FIFO": when an operation has started, each one that
\* was pushed before it has started too or was cancelled in the queue; in a
\* serial lane it is settled, so completion is FIFO as well.
StartsInOrder ==
    \A i, j \in DOMAIN pushed :
        i < j /\ op[pushed[j]] # "idle" =>
            LET r == pushed[i]
            IN  IF Serial
                THEN Settled(r) \/ BeingCancelled(r)
                ELSE op[r] # "idle" \/ Settled(r) \/ BeingCancelled(r)

\* A queue capped by try_submit() stays within the cap.
QueueBounded == MaxQueueDepth >= 0 => Len(queue) <= MaxQueueDepth

\* Async operations whose body or continuation has not finished.
InFlight == {r \in Requests : itm[r].policy = "Async" /\ op[r] \notin {"idle", "done"}}

\* "max_inflight_ bounds concurrent in-flight Async ops per lane", also while
\* the lane stops, when the consumer no longer looks at the bound.
InflightBounded == ~Serial => Cardinality(InFlight) <= MaxInflight /\ inflight = Cardinality(InFlight)

\* The state keeps its types and its bounds: what try_submit() admits and what
\* the consumer starts.
BoundsKept == TypeOK /\ QueueBounded /\ InflightBounded

\* stats() of a serial lane: empty and inactive means nothing is in its hands.
IdleMeansSettled ==
    Serial /\ queue = <<>> /\ ~active =>
        \A r \in Requests : admission[r] = "admitted" => Settled(r) \/ BeingCancelled(r)

\* "the lane is destroyed only after no continuation can touch it": when
\* stop_and_join() returns, every operation has run to the end of its
\* continuation and every admitted one is settled or being settled.
JoinedMeansQuiet ==
    sd = "done" =>
        /\ \A r \in Requests : op[r] \in {"idle", "done"}
        /\ \A r \in Requests : admission[r] = "admitted" => Settled(r) \/ BeingCancelled(r)

\* "asks in-flight checkpointed ops to stop", which bounds the teardown by one
\* checkpoint stride: once cancel_pending() has returned, no operation runs on
\* that could stop at a checkpoint and was not asked to.
StopAsksEveryone ==
    sd \in {"notify", "join", "drain", "drain_wait"} =>
        \A r \in Requests : ~(tok[r].phase = "Running" /\ tok[r].cancellable)

\* The same of serial lanes, whose service slot is recorded by the pop itself.
SerialStopAsksEveryone == Serial => StopAsksEveryone

\* What shutdown and its callers rely on: an idle lane owes nothing, a joined
\* one is quiet, and a serial one has been asked to stop as a whole.
TeardownSafe == IdleMeansSettled /\ JoinedMeansQuiet /\ SerialStopAsksEveryone

\* Every admitted operation is eventually settled, and a teardown that has
\* begun returns: no wake-up is lost between the threads that share cv_.
EveryRequestSettles == \A r \in Requests : admission[r] = "admitted" ~> Settled(r)
TeardownCompletes == sd # "alive" ~> sd = "done"
Progress == EveryRequestSettles /\ TeardownCompletes
-----------------------------------------------------------------------------
Abstract == INSTANCE Settlement WITH
    admitted  <- {r \in Requests : admission[r] = "admitted"},
    committed <- {r \in Requests : wins[r] > 0},
    outcome   <- [r \in Requests |-> IF Settled(r) THEN promise[r] ELSE "none"]

\* A runtime lane promises its clients what a service lane does: one outcome
\* per admitted operation, "cancelled" exactly when a cancel() had succeeded.
ImplementsSettlement == Abstract!SSpec
=============================================================================
