------------------------- MODULE ServiceLaneProofs -------------------------
(***************************************************************************)
(* Proofs about ServiceLane, for every set of requests and clients, every  *)
(* chunk count and every cap.                                              *)
(***************************************************************************)
EXTENDS ServiceLane, TLAPS

\* Control points at which the worker is between begin_service() and set_value.
InService == {"service", "chunk", "boundary", "mark", "fulfill"}

\* A request nobody has submitted has a fresh token and an empty promise.
NewUntouched ==
    \A r \in Requests : admission[r] # "admitted" =>
        tok[r] = NewToken /\ promise[r] = Empty /\ wins[r] = 0

\* cancel() returned true exactly when the token says so.
WinsMatchToken ==
    \A r \in Requests : wins[r] = IF IsCancelled(tok[r]) THEN 1 ELSE 0

\* A token-less request keeps its initial token.
TokenlessIdle ==
    \A r \in Requests : ~req[r].cancelable => tok[r] = NewToken

\* A token that was never begun is not cancellable; a stop is requested only
\* while it is; and a request whose token waits has an empty promise.
TokenShape ==
    \A r \in Requests :
        /\ tok[r].phase = "Queued" => ~tok[r].cancellable
        /\ tok[r].phase = "StopRequested" => tok[r].cancellable
        /\ req[r].cancelable /\ tok[r].phase = "Queued" => promise[r] = Empty

\* Requests in the queue are admitted, distinct, not the worker's, and their
\* service has not begun.
QueueWaiting ==
    /\ \A i, j \in DOMAIN queue : queue[i] = queue[j] => i = j
    /\ \A i \in DOMAIN queue :
         /\ admission[queue[i]] = "admitted"
         /\ queue[i] # item
         /\ tok[queue[i]].phase \in {"Queued", "Cancelled"}
         /\ ~tok[queue[i]].cancellable
         /\ promise[queue[i]] = Empty \/ tok[queue[i]].phase = "Cancelled"

\* The worker's item and the state its token is in at each control point.
WorkerItem ==
    /\ item # NoRequest => admission[item] = "admitted"
    /\ pc = "begin" =>
         /\ tok[item].phase \in {"Queued", "Cancelled"}
         /\ ~tok[item].cancellable
         /\ promise[item] = Empty \/ tok[item].phase = "Cancelled"
    /\ pc \in InService => promise[item] = Empty
    /\ pc \in InService \ {"service", "fulfill"} => req[item].work_mode \in Supported
    /\ pc \in {"service", "chunk", "boundary"} /\ req[item].cancelable =>
         tok[item].phase \in {"Running", "StopRequested"}
    /\ pc = "service" => c = 0
    /\ pc = "service" /\ req[item].cancelable /\ tok[item].cancellable =>
         req[item].chunks > 1
    /\ pc \in {"chunk", "boundary"} => c < EffectiveChunks(item)
    /\ pc = "chunk" /\ c + 1 = EffectiveChunks(item) => ~tok[item].cancellable
    /\ pc = "mark" /\ req[item].cancelable =>
         tok[item].phase = "Running" /\ ~tok[item].cancellable
    /\ pc = "fulfill" =>
         \/ /\ res.status = "completed" /\ res \in Result
            /\ req[item].cancelable => tok[item].phase = "Completed"
         \/ /\ res.status = "cancelled" /\ res \in Result
            /\ req[item].cancelable
            /\ tok[item].phase = "Cancelled" /\ tok[item].cancellable
         \/ /\ res.status = "failed" /\ res \in Result
            /\ req[item].work_mode \notin Supported
            /\ req[item].cancelable => tok[item].phase \in {"Running", "StopRequested"}

\* A client that won a queued cancel is the only one, and the promise waits
\* for it.
Cancellers ==
    \A k \in Clients : cpc[k] = "fulfill" =>
        /\ carg[k] \in Requests
        /\ admission[carg[k]] = "admitted"
        /\ req[carg[k]].cancelable
        /\ tok[carg[k]].phase = "Cancelled"
        /\ ~tok[carg[k]].cancellable
        /\ promise[carg[k]] = Empty
        /\ \A m \in Clients : cpc[m] = "fulfill" /\ carg[m] = carg[k] => m = k

\* What a settled row says about its token.
RowsMatchTokens ==
    \A r \in Requests : Settled(r) =>
        \/ /\ promise[r].status = "completed"
           /\ req[r].cancelable => tok[r].phase = "Completed"
        \/ /\ promise[r].status = "cancelled"
           /\ req[r].cancelable /\ tok[r].phase = "Cancelled"
        \/ /\ promise[r].status = "failed"
           /\ req[r].work_mode \notin Supported

LaneInv ==
    /\ TypeOK
    /\ NewUntouched
    /\ WinsMatchToken
    /\ TokenlessIdle
    /\ TokenShape
    /\ QueueWaiting
    /\ WorkerItem
    /\ Cancellers
    /\ RowsMatchTokens
-----------------------------------------------------------------------------
LEMMA InputsAreRequests == Inputs \subseteq Request
  BY LaneAssumption DEF Inputs, Request, Supported

LEMMA GroupsAreSequences ==
  ASSUME NEW g \in Groups
  PROVE  /\ g \in Seq(Requests)
         /\ \A i, j \in DOMAIN g : g[i] = g[j] => i = j
         /\ \A i \in DOMAIN g : g[i] \in Requests
         /\ DOMAIN g = 1..Len(g)
  BY LaneAssumption DEF Groups

\* The token's operations stay within the token's type.
LEMMA TokenClosed ==
  \A t \in Token :
     /\ AfterCancel(t) \in Token
     /\ \A n \in Int : AfterBegin(t, n) \in Token
     /\ \A f \in BOOLEAN : AfterBoundary(t, f) \in Token
     /\ AfterMarkCompleted(t) \in Token
  BY DEF Token, Phase, AfterCancel, AfterBegin, AfterBoundary, AfterMarkCompleted

\* The rows the lane builds, and the two marks of a promise, are typed.
LEMMA RowsTyped ==
  /\ Empty \in ResultOrEmpty
  /\ SetTwice \in ResultOrEmpty
  /\ Result \subseteq ResultOrEmpty
  /\ \A n \in Nat : /\ Row("completed", n) \in Result
                    /\ Row("cancelled", n) \in Result
                    /\ Row("failed", n) \in Result
  BY DEF ResultOrEmpty, Result, Row

\* The initial state is typed.
LEMMA InitTyped == Init => TypeOK
<1> SUFFICES ASSUME Init PROVE TypeOK
  OBVIOUS
<1>1. req \in [Requests -> Request] /\ tok \in [Requests -> Token]
  BY DEF Init, Request, Supported, NewToken, Token, Phase
<1>2. RequestTypes
  BY <1>1, RowsTyped DEF Init, RequestTypes
<1>3. QueueType /\ FlagTypes
  <2>1. QueueType  BY DEF Init, QueueType
  <2>2. FlagTypes  BY DEF Init, FlagTypes
  <2> QED BY <2>1, <2>2
<1>4. ThreadTypes
  BY RowsTyped DEF Init, ThreadTypes
<1> QED
  BY <1>2, <1>3, <1>4 DEF TypeOK

\* Every variable keeps its type: what the lane, the tokens and the threads of
\* a client, the worker and the destructor may hold.
THEOREM TypeCorrect == Spec => []TypeOK
<1>1. Init => TypeOK
  BY InitTyped
<1>2. TypeOK /\ [Next]_vars => TypeOK'
  <2> SUFFICES ASSUME TypeOK, [Next]_vars PROVE TypeOK'
    BY DEF TypeOK
  <2> USE DEF TypeOK
  <2>1. ASSUME NEW k \in Clients, NEW r \in Requests, NEW q \in Inputs,
               Submit(k, r, q) \/ TrySubmit(k, r, q)
        PROVE  TypeOK'
    <3>1. q \in Request
      BY InputsAreRequests
    <3>2. FlagTypes'
      BY <2>1 DEF FlagTypes, Submit, TrySubmit
    <3>3. CASE Push(k, r, q)
      <4>1. UNCHANGED <<tok, promise, wins, pc, item, c, res>>
        BY <2>1 DEF Submit, TrySubmit
      <4>2. RequestTypes'
        BY <3>1, <3>3, <4>1 DEF RequestTypes, Push
      <4>3. QueueType'
        BY <3>3 DEF QueueType, Push
      <4>4. ThreadTypes'
        BY <3>3, <4>1 DEF ThreadTypes, Push
      <4> QED BY <3>2, <4>2, <4>3, <4>4
    <3>4. CASE ~Push(k, r, q)
      <4>1. /\ UNCHANGED <<tok, promise, wins, pc, item, c, res, req, queue, now, enqueue_ns, cpc, carg>>
            /\ admission' = [admission EXCEPT ![r] = "rejected"]
        BY <2>1, <3>4 DEF Submit, TrySubmit
      <4> QED BY <3>2, <4>1 DEF RequestTypes, QueueType, ThreadTypes
    <3> QED BY <3>3, <3>4
  <2>3. ASSUME NEW k \in Clients, NEW g \in Groups, NEW q \in Inputs, SubmitBulk(k, g, q)
        PROVE  TypeOK'
    <3>1. /\ g \in Seq(Requests) /\ Len(g) \in Nat /\ DOMAIN g = 1..Len(g)
          /\ q \in Request
      BY GroupsAreSequences, InputsAreRequests
    <3>2. \A r \in Requests : (\E i \in DOMAIN g : g[i] = r) =>
             (CHOOSE i \in DOMAIN g : g[i] = r) \in Nat
      BY <3>1
    <3>3. RequestTypes'
      <4>1. admission' \in [Requests -> {"new", "admitted", "rejected"}]
        BY <2>3 DEF RequestTypes, SubmitBulk
      <4>2. req' \in [Requests -> Request]
        BY <2>3, <3>1 DEF RequestTypes, SubmitBulk
      <4>3. enqueue_ns' \in [Requests -> Nat] /\ now' \in Nat
        <5>1. now' \in Nat
          BY <2>3, <3>1 DEF RequestTypes, SubmitBulk
        <5>2. ASSUME NEW r \in Requests
              PROVE  (IF \E i \in DOMAIN g : g[i] = r
                      THEN now + (CHOOSE i \in DOMAIN g : g[i] = r) ELSE enqueue_ns[r]) \in Nat
          <6> DEFINE first == CHOOSE i \in DOMAIN g : g[i] = r
          <6>1. now \in Nat /\ enqueue_ns[r] \in Nat
            BY DEF RequestTypes
          <6>2. CASE \E i \in DOMAIN g : g[i] = r
            <7>1. first \in Nat
              BY <3>2, <6>2, Zenon
            <7> HIDE DEF first
            <7>2. now + first \in Nat
              BY <6>1, <7>1
            <7> QED BY <6>2, <7>2 DEF first
          <6>3. CASE ~\E i \in DOMAIN g : g[i] = r
            BY <6>1, <6>3
          <6> QED BY <6>2, <6>3
        <5>3. enqueue_ns' \in [Requests -> Nat]
          BY <2>3, <5>2 DEF SubmitBulk
        <5> QED BY <5>1, <5>3
      <4>4. UNCHANGED <<tok, promise, wins>>
        BY <2>3 DEF SubmitBulk
      <4> QED BY <4>1, <4>2, <4>3, <4>4 DEF RequestTypes
    <3>4. QueueType' /\ FlagTypes'
      <4>1. QueueType'  BY <2>3, <3>1 DEF QueueType, SubmitBulk
      <4>2. FlagTypes'  BY <2>3 DEF FlagTypes, SubmitBulk
      <4> QED BY <4>1, <4>2
    <3>5. ThreadTypes'
      BY <2>3 DEF ThreadTypes, SubmitBulk
    <3> QED BY <3>3, <3>4, <3>5
  <2>4. ASSUME NEW k \in Clients, Notify(k)
        PROVE  TypeOK'
    BY <2>4 DEF RequestTypes, QueueType, FlagTypes, ThreadTypes, Notify, requestVars
  <2>5. ASSUME NEW k \in Clients, NEW r \in Requests, Cancel(k, r)
        PROVE  TypeOK'
    <3>1. tok' \in [Requests -> Token]
      BY <2>5, TokenClosed DEF RequestTypes, Cancel
    <3>2. RequestTypes' /\ QueueType' /\ FlagTypes'
      BY <2>5, <3>1 DEF RequestTypes, QueueType, FlagTypes, Cancel
    <3>3. ThreadTypes'
      BY <2>5 DEF ThreadTypes, Cancel, clientVars
    <3> QED BY <3>2, <3>3
  <2>6. ASSUME NEW k \in Clients, CancelFulfill(k)
        PROVE  TypeOK'
    BY <2>6, RowsTyped DEF RequestTypes, QueueType, FlagTypes, ThreadTypes, CancelFulfill, SetValue
  <2>7. CASE Worker
    <3> USE DEF RequestTypes, QueueType, FlagTypes, ThreadTypes, requestVars, clientVars
    <3>1. CASE WorkerWait    BY <3>1 DEF WorkerWait
    <3>2. CASE WorkerExit    BY <3>2 DEF WorkerExit
    <3>3. CASE WorkerPop     BY <3>3, LaneAssumption DEF WorkerPop
    <3>4. CASE WorkerSkip    BY <3>4 DEF WorkerSkip
    <3>5. CASE WorkerBegin
      <4>1. tok' \in [Requests -> Token]
        <5>1. \A r \in Requests : AfterBegin(tok[r], req[r].chunks) \in Token
          BY DEF AfterBegin, Token, Phase
        <5>2. tok' = [tok EXCEPT ![item] = AfterBegin(@, req[item].chunks)] \/ tok' = tok
          BY <3>5 DEF WorkerBegin
        <5>3. pc = "begin" /\ item \in Requests
          BY <3>5 DEF WorkerBegin
        <5>4. AfterBegin(tok[item], req[item].chunks) \in Token
          BY <5>1, <5>3
        <5>5. tok \in [Requests -> Token]
          OBVIOUS
        <5> HIDE DEF TypeOK, RequestTypes, QueueType, FlagTypes, ThreadTypes
        <5> QED BY <5>2, <5>3, <5>4, <5>5
      <4> QED BY <3>5, <4>1 DEF WorkerBegin
    <3>6. CASE ServiceEntry  BY <3>6, RowsTyped DEF ServiceEntry
    <3>7. CASE RunChunk      BY <3>7 DEF RunChunk
    <3>8. CASE Boundary
      <4>1. tok' \in [Requests -> Token]
        <5>1. (c = EffectiveChunks(item) - 1) \in BOOLEAN
          OBVIOUS
        <5>2. \A r \in Requests :
                 AfterBoundary(tok[r], c = EffectiveChunks(item) - 1) \in Token
          BY <5>1, TokenClosed
        <5>3. item \in Requests /\ tok \in [Requests -> Token]
          BY <3>8 DEF Boundary
        <5>4. \/ tok' = tok
              \/ tok' = [tok EXCEPT ![item] = AfterBoundary(@, c = EffectiveChunks(item) - 1)]
          BY <3>8 DEF Boundary
        <5>5. AfterBoundary(tok[item], c = EffectiveChunks(item) - 1) \in Token
          BY <5>2, <5>3, Zenon
        <5> HIDE DEF TypeOK, RequestTypes, QueueType, FlagTypes, ThreadTypes
        <5> QED BY <5>3, <5>4, <5>5
      <4> QED BY <3>8, <4>1, RowsTyped DEF Boundary
    <3>9. CASE MarkCompleted
      <4>1. EffectiveChunks(item) \in Nat
        BY <3>9 DEF MarkCompleted, EffectiveChunks, Request
      <4> QED BY <3>9, <4>1, RowsTyped DEF MarkCompleted, AfterMarkCompleted, Token, Phase
    <3>10. CASE WorkerFulfill BY <3>10, RowsTyped DEF WorkerFulfill, SetValue
    <3>11. CASE WorkerClear   BY <3>11, RowsTyped DEF WorkerClear
    <3> QED BY <2>7, <3>1, <3>2, <3>3, <3>4, <3>5, <3>6, <3>7, <3>8, <3>9, <3>10, <3>11 DEF Worker
  <2>8. CASE Dtor
    BY <2>8 DEF RequestTypes, QueueType, FlagTypes, ThreadTypes, Dtor, DtorStop, DtorNotify, DtorJoin,
                requestVars, clientVars, workerVars
  <2>9. CASE UNCHANGED vars
    BY <2>9 DEF RequestTypes, QueueType, FlagTypes, ThreadTypes, vars
  <2> QED
    BY <2>1, <2>3, <2>4, <2>5, <2>6, <2>7, <2>8, <2>9 DEF Next
<1>3. QED
  BY <1>1, <1>2, PTL DEF Spec
-----------------------------------------------------------------------------
LEMMA TailFacts ==
  ASSUME NEW S, NEW q \in Seq(S), q # <<>>
  PROVE  /\ Head(q) = q[1] /\ 1 \in DOMAIN q /\ Head(q) \in S
         /\ \A i \in DOMAIN Tail(q) : i + 1 \in DOMAIN q /\ Tail(q)[i] = q[i + 1] /\ i \in Int
         /\ \A i \in DOMAIN q : i \in Int
  OBVIOUS

LEMMA AppendFacts ==
  ASSUME NEW S, NEW q \in Seq(S), NEW e \in S
  PROVE  \A i \in DOMAIN Append(q, e) :
            \/ i \in DOMAIN q /\ Append(q, e)[i] = q[i]
            \/ i = Len(q) + 1 /\ Append(q, e)[i] = e
  OBVIOUS

LEMMA ConcatFacts ==
  ASSUME NEW S, NEW q \in Seq(S), NEW g \in Seq(S)
  PROVE  \A i \in DOMAIN (q \o g) :
            \/ i \in DOMAIN q /\ (q \o g)[i] = q[i]
            \/ /\ i \notin DOMAIN q /\ i - Len(q) \in DOMAIN g
               /\ (q \o g)[i] = g[i - Len(q)] /\ i \in Int /\ Len(q) \in Int
  OBVIOUS

LEMMA QueueMembers == QueueType => \A i \in DOMAIN queue : queue[i] \in Requests
  BY DEF QueueType

\* A step that leaves requests, queue and item alone, keeps the worker where
\* it waits and starts no cancellation keeps the invariant.
LEMMA IdleStep ==
  ASSUME LaneInv, TypeOK, TypeOK',
         UNCHANGED <<admission, req, tok, promise, wins, queue, item, c, res>>,
         \/ pc' = pc
         \/ pc \in {"loop", "waiting", "exited"} /\ pc' \in {"loop", "waiting", "exited"},
         \A k \in Clients : cpc'[k] = "fulfill" => cpc[k] = "fulfill" /\ carg'[k] = carg[k]
  PROVE  LaneInv'
<1>1. NewUntouched' /\ WinsMatchToken' /\ TokenlessIdle'
  BY DEF LaneInv, NewUntouched, WinsMatchToken, TokenlessIdle
<1>2. TokenShape' /\ RowsMatchTokens'
  BY DEF LaneInv, TokenShape, RowsMatchTokens, Settled
<1>3. QueueWaiting'
  BY DEF LaneInv, QueueWaiting
<1>4. WorkerItem'
  BY DEF LaneInv, WorkerItem, InService, EffectiveChunks
<1>5. Cancellers'
  BY DEF LaneInv, Cancellers
<1> QED BY <1>1, <1>2, <1>3, <1>4, <1>5 DEF LaneInv

\* A cancel() that returns true.
LEMMA CancelStep ==
  ASSUME LaneInv, TypeOK, TypeOK', NEW k \in Clients, NEW r \in Requests, Cancel(k, r)
  PROVE  LaneInv'
<1> USE DEF LaneInv, TypeOK, RequestTypes, ThreadTypes
<1>1. /\ admission[r] = "admitted" /\ req[r].cancelable
      /\ \A s \in Requests : s # r => tok'[s] = tok[s] /\ wins'[s] = wins[s]
      /\ wins'[r] = wins[r] + 1
      /\ tok'[r].cancellable = tok[r].cancellable
      /\ UNCHANGED <<admission, req, promise, queue, pc, item, c, res>>
  BY DEF Cancel, TokenReturned, AfterCancel
<1>2. \/ /\ tok[r].phase = "Queued" /\ tok'[r].phase = "Cancelled"
         /\ cpc' = [cpc EXCEPT ![k] = "fulfill"] /\ carg' = [carg EXCEPT ![k] = r]
      \/ /\ tok[r].phase = "Running" /\ tok[r].cancellable /\ tok'[r].phase = "StopRequested"
         /\ UNCHANGED <<cpc, carg>>
  BY DEF Cancel, CancelReturns, FulfillNow, StopRequestable, AfterCancel, clientVars
<1>3. NewUntouched' /\ TokenlessIdle' /\ WinsMatchToken'
  BY <1>1, <1>2 DEF NewUntouched, TokenlessIdle, WinsMatchToken, IsCancelled
<1>4. TokenShape'
  BY <1>1, <1>2 DEF TokenShape
<1>5. QueueWaiting'
  BY <1>1, <1>2, QueueMembers DEF QueueWaiting
<1>6. WorkerItem'
  BY <1>1, <1>2, LaneAssumption DEF WorkerItem, TokenShape, InService, EffectiveChunks
<1>7. Cancellers'
  BY <1>1, <1>2 DEF Cancellers, TokenShape
<1>8. RowsMatchTokens'
  BY <1>1, <1>2 DEF RowsMatchTokens, TokenShape, Settled
<1> QED BY <1>3, <1>4, <1>5, <1>6, <1>7, <1>8

\* The set_value of a queued cancel.
LEMMA CancelFulfillStep ==
  ASSUME LaneInv, TypeOK, TypeOK', NEW k \in Clients, CancelFulfill(k)
  PROVE  LaneInv'
<1> USE DEF LaneInv, TypeOK, RequestTypes, ThreadTypes
<1> DEFINE r == carg[k]
<1>1. /\ r \in Requests /\ admission[r] = "admitted" /\ req[r].cancelable
      /\ tok[r].phase = "Cancelled" /\ ~tok[r].cancellable
      /\ promise[r] = Empty
  BY DEF CancelFulfill, Cancellers
<1>2. /\ \A s \in Requests : s # r => promise'[s] = promise[s]
      /\ promise'[r] = Row("cancelled", 0)
      /\ UNCHANGED <<admission, req, tok, wins, queue, pc, item, c, res>>
      /\ cpc' = [cpc EXCEPT ![k] = "idle"] /\ carg' = [carg EXCEPT ![k] = NoRequest]
      /\ cpc[k] = "fulfill"
  BY <1>1 DEF CancelFulfill, SetValue
<1> HIDE DEF r
<1>3. NewUntouched' /\ TokenlessIdle' /\ WinsMatchToken'
  BY <1>1, <1>2 DEF NewUntouched, TokenlessIdle, WinsMatchToken, IsCancelled
<1>4. TokenShape'
  BY <1>1, <1>2 DEF TokenShape
<1>5. QueueWaiting'
  BY <1>1, <1>2, QueueMembers DEF QueueWaiting
<1>6. WorkerItem'
  <2>1. pc \in InService => item # r
    BY <1>1 DEF WorkerItem, InService, TokenlessIdle, NewToken
  <2> QED BY <1>1, <1>2, <2>1, LaneAssumption DEF WorkerItem, InService, EffectiveChunks
<1>7. Cancellers'
  BY <1>1, <1>2 DEF Cancellers, r
<1>8. RowsMatchTokens'
  <2>1. promise'[r].status = "cancelled"
    BY <1>2 DEF Row
  <2> QED BY <1>1, <1>2, <2>1 DEF RowsMatchTokens, Settled
<1> QED BY <1>3, <1>4, <1>5, <1>6, <1>7, <1>8

\* run() takes the head of the queue.
LEMMA PopStep ==
  ASSUME LaneInv, TypeOK, TypeOK', WorkerPop
  PROVE  LaneInv'
<1> USE DEF LaneInv, TypeOK, RequestTypes, ThreadTypes
<1>1. /\ UNCHANGED <<admission, req, tok, promise, wins, c, res, cpc, carg>>
      /\ item' = Head(queue) /\ queue' = Tail(queue) /\ pc' = "begin"
      /\ item = NoRequest /\ queue # <<>>
  BY DEF WorkerPop, requestVars, clientVars
<1>2. /\ Head(queue) = queue[1] /\ 1 \in DOMAIN queue /\ Head(queue) \in Requests
      /\ \A i \in DOMAIN Tail(queue) :
            i + 1 \in DOMAIN queue /\ Tail(queue)[i] = queue[i + 1] /\ i \in Int
      /\ \A i \in DOMAIN queue : i \in Int
  BY <1>1, TailFacts DEF QueueType
<1>3. NewUntouched' /\ TokenlessIdle' /\ WinsMatchToken'
  BY <1>1 DEF NewUntouched, TokenlessIdle, WinsMatchToken
<1>4. TokenShape' /\ RowsMatchTokens' /\ Cancellers'
  BY <1>1 DEF TokenShape, RowsMatchTokens, Cancellers, Settled
<1>5. QueueWaiting'
  <2>1. \A i \in DOMAIN Tail(queue) : Tail(queue)[i] # Head(queue)
    <3> SUFFICES ASSUME NEW i \in DOMAIN Tail(queue), Tail(queue)[i] = Head(queue) PROVE FALSE
      OBVIOUS
    <3>1. i + 1 = 1
      BY <1>2 DEF QueueWaiting
    <3>2. i >= 1
      BY <1>1 DEF QueueType
    <3> QED BY <3>1, <3>2, <1>2
  <2>2. \A i, j \in DOMAIN Tail(queue) : Tail(queue)[i] = Tail(queue)[j] => i = j
    <3> SUFFICES ASSUME NEW i \in DOMAIN Tail(queue), NEW j \in DOMAIN Tail(queue),
                        Tail(queue)[i] = Tail(queue)[j]
                 PROVE  i = j
      OBVIOUS
    <3>1. i + 1 = j + 1
      BY <1>2 DEF QueueWaiting
    <3> QED BY <3>1, <1>2
  <2> QED BY <1>1, <1>2, <2>1, <2>2 DEF QueueWaiting
<1>6. WorkerItem'
  BY <1>1, <1>2 DEF WorkerItem, QueueWaiting, InService
<1> QED BY <1>3, <1>4, <1>5, <1>6

\* A queued cancel had won: the worker drops the item.
LEMMA SkipStep ==
  ASSUME LaneInv, TypeOK, TypeOK', WorkerSkip
  PROVE  LaneInv'
<1> USE DEF LaneInv, TypeOK, RequestTypes, ThreadTypes
<1>1. /\ UNCHANGED <<admission, req, tok, promise, wins, queue, c, res, cpc, carg>>
      /\ item' = NoRequest /\ pc' = "loop"
  BY DEF WorkerSkip, requestVars, clientVars
<1>2. NewUntouched' /\ TokenlessIdle' /\ WinsMatchToken'
  BY <1>1 DEF NewUntouched, TokenlessIdle, WinsMatchToken
<1>3. TokenShape' /\ RowsMatchTokens' /\ Cancellers'
  BY <1>1 DEF TokenShape, RowsMatchTokens, Cancellers, Settled
<1>4. QueueWaiting'
  BY <1>1, QueueMembers, LaneAssumption DEF QueueWaiting
<1>5. WorkerItem'
  BY <1>1 DEF WorkerItem, InService
<1> QED BY <1>2, <1>3, <1>4, <1>5

\* begin_service() returned true, or there is no token.
LEMMA BeginStep ==
  ASSUME LaneInv, TypeOK, TypeOK', WorkerBegin
  PROVE  LaneInv'
<1> USE DEF LaneInv, TypeOK, RequestTypes, ThreadTypes
<1>1. /\ UNCHANGED <<admission, req, promise, wins, queue, item, res, cpc, carg>>
      /\ pc = "begin" /\ pc' = "service" /\ c' = 0
      /\ item \in Requests /\ admission[item] = "admitted"
      /\ \A s \in Requests : s # item => tok'[s] = tok[s]
  BY DEF WorkerBegin, clientVars, WorkerItem
<1>2. /\ promise[item] = Empty
      /\ tok[item].phase = "Queued" /\ ~tok[item].cancellable
      /\ \/ /\ req[item].cancelable /\ tok'[item].phase = "Running"
            /\ tok'[item].cancellable = (req[item].chunks > 1)
         \/ ~req[item].cancelable /\ tok'[item] = tok[item]
  <2>1. tok[item].phase = "Queued" /\ ~tok[item].cancellable
    BY <1>1 DEF WorkerBegin, BeginReturns, WorkerItem, TokenlessIdle, NewToken
  <2>2. promise[item] = Empty
    BY <1>1, <2>1 DEF WorkerItem
  <2>3. CASE req[item].cancelable
    <3>1. tok'[item] = AfterBegin(tok[item], req[item].chunks)
      BY <1>1, <2>3 DEF WorkerBegin
    <3> QED BY <2>1, <2>2, <2>3, <3>1 DEF AfterBegin
  <2>4. CASE ~req[item].cancelable
    <3>1. tok' = tok
      BY <2>4 DEF WorkerBegin
    <3> QED BY <2>1, <2>2, <2>4, <3>1
  <2> QED BY <2>3, <2>4
<1>3. NewUntouched' /\ TokenlessIdle' /\ WinsMatchToken'
  BY <1>1, <1>2 DEF NewUntouched, TokenlessIdle, WinsMatchToken, IsCancelled
<1>4. TokenShape' /\ RowsMatchTokens'
  BY <1>1, <1>2 DEF TokenShape, RowsMatchTokens, Settled
<1>5. Cancellers'
  BY <1>1, <1>2 DEF Cancellers
<1>6. QueueWaiting'
  BY <1>1, <1>2, QueueMembers DEF QueueWaiting
<1>7. WorkerItem'
  BY <1>1, <1>2 DEF WorkerItem, InService
<1> QED BY <1>3, <1>4, <1>5, <1>6, <1>7

\* service() is entered, runs a chunk, or the item is dropped: tokens and
\* promises stay as they are.
LEMMA ServiceStep ==
  ASSUME LaneInv, TypeOK, TypeOK', ServiceEntry \/ RunChunk \/ WorkerClear
  PROVE  LaneInv'
<1> USE DEF LaneInv, TypeOK, RequestTypes, ThreadTypes
<1>1. UNCHANGED <<admission, req, tok, promise, wins, queue, cpc, carg>>
  BY DEF ServiceEntry, RunChunk, WorkerClear, requestVars, clientVars
<1>2. NewUntouched' /\ TokenlessIdle' /\ WinsMatchToken'
  BY <1>1 DEF NewUntouched, TokenlessIdle, WinsMatchToken
<1>3. TokenShape' /\ RowsMatchTokens' /\ Cancellers'
  BY <1>1 DEF TokenShape, RowsMatchTokens, Cancellers, Settled
<1>4. item' = item \/ item' = NoRequest
  BY DEF ServiceEntry, RunChunk, WorkerClear
<1>5. QueueWaiting'
  BY <1>1, <1>4, QueueMembers, LaneAssumption DEF QueueWaiting
<1>6. CASE ServiceEntry
  <2>1. /\ pc = "service" /\ c' = c /\ item' = item /\ item \in Requests
        /\ \/ req[item].work_mode \in Supported /\ pc' = "chunk"
           \/ /\ req[item].work_mode \notin Supported
              /\ pc' = "fulfill" /\ res' = Row("failed", 0)
    BY <1>6 DEF ServiceEntry
  <2>2. res' = Row("failed", 0) => res'.status = "failed" /\ res' \in Result
    <3>1. Row("failed", 0) \in Result
      BY RowsTyped
    <3>2. Row("failed", 0).status = "failed"
      BY DEF Row
    <3> QED BY <3>1, <3>2
  <2>3. /\ EffectiveChunks(item) >= 1 /\ EffectiveChunks(item) \in Int
        /\ 1 = EffectiveChunks(item) => req[item].chunks <= 1
    BY <2>1 DEF EffectiveChunks, Request
  <2>4. req[item].chunks \in Int /\ c = 0
    BY <2>1 DEF Request, WorkerItem
  <2>5. EffectiveChunks(item)' = EffectiveChunks(item)
    BY <1>1, <2>1 DEF EffectiveChunks
  <2>6. ~req[item].cancelable => ~tok[item].cancellable
    BY <2>1 DEF TokenlessIdle, NewToken
  <2>7. WorkerItem'
    BY <1>1, <2>1, <2>2, <2>3, <2>4, <2>5, <2>6 DEF WorkerItem, InService
  <2> QED BY <1>2, <1>3, <1>5, <2>7
<1>7. CASE RunChunk
  <2>1. /\ pc = "chunk" /\ c' = c + 1 /\ item' = item /\ item \in Requests
        /\ pc' = IF c + 1 < EffectiveChunks(item) THEN "boundary" ELSE "mark"
    BY <1>7 DEF RunChunk
  <2>2. EffectiveChunks(item) \in Int /\ EffectiveChunks(item)' = EffectiveChunks(item)
    BY <1>1, <2>1 DEF EffectiveChunks, Request
  <2>3. WorkerItem'
    BY <1>1, <2>1, <2>2 DEF WorkerItem, InService, TokenShape
  <2> QED BY <1>2, <1>3, <1>5, <2>3
<1>8. CASE WorkerClear
  <2>1. item' = NoRequest /\ pc' = "loop"
    BY <1>8 DEF WorkerClear
  <2>2. WorkerItem'
    BY <2>1 DEF WorkerItem, InService
  <2> QED BY <1>2, <1>3, <1>5, <2>2
<1> QED BY <1>6, <1>7, <1>8

\* The chunk boundary.
LEMMA BoundaryStep ==
  ASSUME LaneInv, TypeOK, TypeOK', Boundary
  PROVE  LaneInv'
<1> USE DEF LaneInv, TypeOK, RequestTypes, ThreadTypes
<1>1. /\ UNCHANGED <<admission, req, promise, wins, queue, item, c, cpc, carg>>
      /\ pc = "boundary" /\ item \in Requests /\ admission[item] = "admitted"
      /\ promise[item] = Empty /\ req[item].work_mode \in Supported
      /\ c < EffectiveChunks(item)
      /\ req[item].cancelable => tok[item].phase \in {"Running", "StopRequested"}
  BY DEF Boundary, clientVars, WorkerItem, InService
<1>2. \A s \in Requests : s # item => tok'[s] = tok[s]
  BY <1>1 DEF Boundary
<1>3. EffectiveChunks(item) \in Int /\ EffectiveChunks(item)' = EffectiveChunks(item)
  BY <1>1 DEF EffectiveChunks, Request
<1>4. \/ /\ ~req[item].cancelable /\ tok'[item] = tok[item] /\ pc' = "chunk"
      \/ /\ req[item].cancelable /\ tok[item].phase = "StopRequested" /\ pc' = "fulfill"
         /\ res' = Row("cancelled", c)
         /\ tok'[item].phase = "Cancelled" /\ tok'[item].cancellable = tok[item].cancellable
      \/ /\ req[item].cancelable /\ tok[item].phase = "Running" /\ pc' = "chunk"
         /\ tok'[item].phase = "Running"
         /\ tok'[item].cancellable = (tok[item].cancellable /\ ~(c = EffectiveChunks(item) - 1))
  <2>1. CASE ~req[item].cancelable
    BY <2>1 DEF Boundary
  <2>2. CASE req[item].cancelable
    <3>1. tok'[item] = AfterBoundary(tok[item], c = EffectiveChunks(item) - 1)
      BY <1>1, <2>2 DEF Boundary
    <3>2. IF tok[item].phase = "StopRequested"
          THEN pc' = "fulfill" /\ res' = Row("cancelled", c)
          ELSE pc' = "chunk"
      BY <2>2 DEF Boundary, StopReturns
    <3> QED BY <1>1, <2>2, <3>1, <3>2 DEF AfterBoundary, StopReturns
  <2> QED BY <2>1, <2>2
<1>5. res' = Row("cancelled", c) => res'.status = "cancelled" /\ res' \in Result
  <2>1. Row("cancelled", c) \in Result
    BY RowsTyped
  <2>2. Row("cancelled", c).status = "cancelled"
    BY DEF Row
  <2> QED BY <2>1, <2>2
<1>6. NewUntouched' /\ TokenlessIdle' /\ WinsMatchToken'
  BY <1>1, <1>2, <1>4 DEF NewUntouched, TokenlessIdle, WinsMatchToken, IsCancelled
<1>7. TokenShape' /\ RowsMatchTokens'
  BY <1>1, <1>2, <1>4 DEF TokenShape, RowsMatchTokens, Settled
<1>8. Cancellers'
  BY <1>1, <1>2, <1>4 DEF Cancellers
<1>9. QueueWaiting'
  BY <1>1, <1>2, QueueMembers DEF QueueWaiting
<1>10. ~req[item].cancelable => ~tok[item].cancellable
  BY <1>1 DEF TokenlessIdle, NewToken
<1>11. WorkerItem'
  <2>1. CASE pc' = "chunk"
    <3>1. c + 1 = EffectiveChunks(item) => ~tok'[item].cancellable
      <4>1. c + 1 = EffectiveChunks(item) => c = EffectiveChunks(item) - 1
        BY <1>3
      <4>2. c = EffectiveChunks(item) - 1 => ~tok'[item].cancellable
        BY <1>4, <1>10, <2>1, Zenon
      <4> QED BY <4>1, <4>2, Zenon
    <3>2. req[item].cancelable => tok'[item].phase = "Running"
      BY <1>4, <2>1
    <3> QED BY <1>1, <1>3, <2>1, <3>1, <3>2 DEF WorkerItem, InService
  <2>2. CASE pc' = "fulfill"
    <3>1. tok'[item].cancellable
      BY <1>1, <1>4, <2>2 DEF TokenShape
    <3> QED BY <1>1, <1>4, <1>5, <2>2, <3>1 DEF WorkerItem, InService
  <2> QED BY <1>4, <2>1, <2>2
<1> QED BY <1>6, <1>7, <1>8, <1>9, <1>11

\* All chunks ran.
LEMMA MarkStep ==
  ASSUME LaneInv, TypeOK, TypeOK', MarkCompleted
  PROVE  LaneInv'
<1> USE DEF LaneInv, TypeOK, RequestTypes, ThreadTypes
<1>1. /\ UNCHANGED <<admission, req, promise, wins, queue, item, c, cpc, carg>>
      /\ pc = "mark" /\ pc' = "fulfill"
      /\ item \in Requests /\ admission[item] = "admitted"
      /\ promise[item] = Empty
      /\ res' = Row("completed", EffectiveChunks(item))
  BY DEF MarkCompleted, clientVars, WorkerItem, InService
<1>2. \A s \in Requests : s # item => tok'[s] = tok[s]
  BY <1>1 DEF MarkCompleted
<1>3. \/ ~req[item].cancelable /\ tok'[item] = tok[item]
      \/ /\ req[item].cancelable /\ tok[item].phase = "Running" /\ ~tok[item].cancellable
         /\ tok'[item].phase = "Completed" /\ tok'[item].cancellable = tok[item].cancellable
  BY <1>1 DEF MarkCompleted, AfterMarkCompleted, WorkerItem
<1>4. res'.status = "completed" /\ res' \in Result
  <2>1. EffectiveChunks(item) \in Nat
    BY <1>1 DEF EffectiveChunks, Request
  <2>2. Row("completed", EffectiveChunks(item)) \in Result
    BY <2>1, RowsTyped
  <2>3. Row("completed", EffectiveChunks(item)).status = "completed"
    BY DEF Row
  <2> QED BY <1>1, <2>2, <2>3
<1>5. NewUntouched' /\ TokenlessIdle' /\ WinsMatchToken'
  BY <1>1, <1>2, <1>3 DEF NewUntouched, TokenlessIdle, WinsMatchToken, IsCancelled
<1>6. TokenShape' /\ RowsMatchTokens'
  <2>1. TokenShape'
    <3> SUFFICES ASSUME NEW s \in Requests
                 PROVE  /\ tok'[s].phase = "Queued" => ~tok'[s].cancellable
                        /\ tok'[s].phase = "StopRequested" => tok'[s].cancellable
                        /\ req[s].cancelable /\ tok'[s].phase = "Queued" => promise[s] = Empty
      BY <1>1 DEF TokenShape
    <3>1. CASE s = item
      BY <3>1, <1>3 DEF TokenShape
    <3>2. CASE s # item
      BY <3>2, <1>2 DEF TokenShape
    <3> QED BY <3>1, <3>2
  <2>2. \A s \in Requests : promise[s] # Empty => tok'[s] = tok[s]
    BY <1>1, <1>2
  <2>3. RowsMatchTokens'
    BY <1>1, <2>2 DEF RowsMatchTokens, Settled
  <2> QED BY <2>1, <2>3
<1>7. Cancellers'
  BY <1>1, <1>2, <1>3 DEF Cancellers
<1>8. QueueWaiting'
  BY <1>1, <1>2, QueueMembers DEF QueueWaiting
<1>9. WorkerItem'
  BY <1>1, <1>3, <1>4 DEF WorkerItem, InService
<1> QED BY <1>5, <1>6, <1>7, <1>8, <1>9

\* The set_value of the worker.
LEMMA FulfillStep ==
  ASSUME LaneInv, TypeOK, TypeOK', WorkerFulfill
  PROVE  LaneInv'
<1> USE DEF LaneInv, TypeOK, RequestTypes, ThreadTypes
<1>1. /\ UNCHANGED <<admission, req, tok, wins, queue, item, c, res, cpc, carg>>
      /\ pc = "fulfill" /\ pc' = "clear"
      /\ item \in Requests /\ admission[item] = "admitted" /\ promise[item] = Empty
  BY DEF WorkerFulfill, clientVars, WorkerItem, InService
<1>2. /\ \A s \in Requests : s # item => promise'[s] = promise[s]
      /\ promise'[item] = res
  BY <1>1 DEF WorkerFulfill, SetValue
<1>3. \/ /\ res.status = "completed"
         /\ req[item].cancelable => tok[item].phase = "Completed"
      \/ /\ res.status = "cancelled" /\ req[item].cancelable
         /\ tok[item].phase = "Cancelled" /\ tok[item].cancellable
      \/ /\ res.status = "failed" /\ req[item].work_mode \notin Supported
         /\ req[item].cancelable => tok[item].phase \in {"Running", "StopRequested"}
  BY <1>1 DEF WorkerItem
<1>4. NewUntouched' /\ TokenlessIdle' /\ WinsMatchToken'
  BY <1>1, <1>2 DEF NewUntouched, TokenlessIdle, WinsMatchToken
<1>5. TokenShape' /\ RowsMatchTokens'
  BY <1>1, <1>2, <1>3 DEF TokenShape, RowsMatchTokens, Settled
<1>6. Cancellers'
  BY <1>1, <1>2, <1>3 DEF Cancellers
<1>7. QueueWaiting'
  BY <1>1, <1>2, QueueMembers DEF QueueWaiting
<1>8. WorkerItem'
  BY <1>1 DEF WorkerItem, InService
<1> QED BY <1>4, <1>5, <1>6, <1>7, <1>8

\* submit() and try_submit(): one push, or a rejection.
LEMMA SubmitStep ==
  ASSUME LaneInv, TypeOK, TypeOK', NEW k \in Clients, NEW r \in Requests,
         NEW q, Submit(k, r, q) \/ TrySubmit(k, r, q)
  PROVE  LaneInv'
<1> USE DEF LaneInv, TypeOK, RequestTypes, ThreadTypes
<1>1. /\ UNCHANGED <<tok, promise, wins, pc, item, c, res>>
      /\ admission[r] = "new" /\ cpc[k] = "idle"
  BY DEF Submit, TrySubmit, CanSubmit
<1>2. tok[r] = NewToken /\ promise[r] = Empty /\ item # r
  BY <1>1, LaneAssumption DEF NewUntouched, WorkerItem
<1>3. CASE Push(k, r, q)
  <2>1. /\ \A s \in Requests : s # r => admission'[s] = admission[s] /\ req'[s] = req[s]
        /\ admission'[r] = "admitted"
        /\ queue' = Append(queue, r)
        /\ cpc' = [cpc EXCEPT ![k] = "notify"] /\ carg' = [carg EXCEPT ![k] = r]
    BY <1>3 DEF Push
  <2>2. NewUntouched' /\ TokenlessIdle' /\ WinsMatchToken'
    BY <1>1, <1>2, <2>1 DEF NewUntouched, TokenlessIdle, WinsMatchToken
  <2>3. TokenShape' /\ RowsMatchTokens'
    BY <1>1, <1>2, <2>1 DEF TokenShape, RowsMatchTokens, Settled
  <2>4. Cancellers'
    <3>1. \A m \in Clients : cpc'[m] = "fulfill" => cpc[m] = "fulfill" /\ carg'[m] = carg[m]
      BY <2>1
    <3>2. \A m \in Clients : cpc[m] = "fulfill" => carg[m] \in Requests /\ carg[m] # r
      BY <1>1 DEF Cancellers
    <3> QED BY <1>1, <2>1, <3>1, <3>2 DEF Cancellers
  <2>5. QueueWaiting'
    <3>a. \A i \in DOMAIN Append(queue, r) :
            \/ i \in DOMAIN queue /\ Append(queue, r)[i] = queue[i]
            \/ i = Len(queue) + 1 /\ Append(queue, r)[i] = r
      <4>1. queue \in Seq(Requests)
        BY DEF QueueType
      <4> HIDE DEF LaneInv, TypeOK
      <4> QED BY <4>1, AppendFacts
    <3>b. \A i \in DOMAIN queue : queue[i] # r /\ queue[i] \in Requests
      BY <1>1, QueueMembers DEF QueueWaiting
    <3>1. \A i \in DOMAIN queue' :
            \/ i \in DOMAIN queue /\ queue'[i] = queue[i] /\ queue[i] # r /\ queue[i] \in Requests
            \/ i = Len(queue) + 1 /\ queue'[i] = r
      BY <2>1, <3>a, <3>b, Zenon
    <3>2. tok[r].phase = "Queued" /\ ~tok[r].cancellable
      BY <1>2 DEF NewToken
    <3>3. \A i, j \in DOMAIN queue' : queue'[i] = queue'[j] => i = j
      <4>1. \A i, j \in DOMAIN queue : queue[i] = queue[j] => i = j
        BY DEF QueueWaiting
      <4>2. SUFFICES ASSUME NEW i \in DOMAIN queue', NEW j \in DOMAIN queue', queue'[i] = queue'[j]
                   PROVE  i = j
        OBVIOUS
      <4>3. CASE queue'[i] = r
        <5>1. i = Len(queue) + 1 /\ j = Len(queue) + 1
          BY <3>1, <4>2, <4>3, Zenon
        <5> QED BY <5>1
      <4>4. CASE queue'[i] # r
        <5>1. i \in DOMAIN queue /\ queue'[i] = queue[i]
          BY <3>1, <4>4, Zenon
        <5>2. j \in DOMAIN queue /\ queue'[j] = queue[j]
          BY <3>1, <4>2, <4>4, Zenon
        <5> QED BY <4>1, <4>2, <5>1, <5>2, Zenon
      <4> QED BY <4>3, <4>4
    <3>4. ASSUME NEW i \in DOMAIN queue'
          PROVE  /\ admission'[queue'[i]] = "admitted"
                 /\ queue'[i] # item
                 /\ tok[queue'[i]].phase \in {"Queued", "Cancelled"}
                 /\ ~tok[queue'[i]].cancellable
                 /\ promise[queue'[i]] = Empty \/ tok[queue'[i]].phase = "Cancelled"
      <4>1. CASE i \in DOMAIN queue /\ queue'[i] = queue[i] /\ queue[i] # r /\ queue[i] \in Requests
        BY <2>1, <4>1 DEF QueueWaiting
      <4>2. CASE queue'[i] = r
        BY <1>2, <2>1, <3>2, <4>2
      <4> QED BY <3>1, <4>1, <4>2
    <3> QED BY <1>1, <3>3, <3>4 DEF QueueWaiting
  <2>6. WorkerItem'
    <3>1. item \in Requests => req'[item] = req[item] /\ admission'[item] = admission[item]
      BY <1>2, <2>1
    <3> QED BY <1>1, <3>1 DEF WorkerItem, InService, EffectiveChunks
  <2> QED BY <2>2, <2>3, <2>4, <2>5, <2>6
<1>4. CASE ~Push(k, r, q)
  <2>1. /\ UNCHANGED <<req, queue, cpc, carg>>
        /\ \A s \in Requests : s # r => admission'[s] = admission[s]
        /\ admission'[r] = "rejected"
    BY <1>4 DEF Submit, TrySubmit
  <2>2. NewUntouched' /\ TokenlessIdle' /\ WinsMatchToken'
    BY <1>1, <1>2, <2>1 DEF NewUntouched, TokenlessIdle, WinsMatchToken
  <2>3. TokenShape' /\ RowsMatchTokens'
    BY <1>1, <2>1 DEF TokenShape, RowsMatchTokens, Settled
  <2>4. Cancellers'
    BY <1>1, <2>1 DEF Cancellers
  <2>5. QueueWaiting'
    BY <1>1, <2>1, QueueMembers DEF QueueWaiting
  <2>6. WorkerItem'
    BY <1>1, <1>2, <2>1 DEF WorkerItem, InService, EffectiveChunks
  <2> QED BY <2>2, <2>3, <2>4, <2>5, <2>6
<1> QED BY <1>3, <1>4

\* submit_bulk(): a group without tokens.
LEMMA BulkStep ==
  ASSUME LaneInv, TypeOK, TypeOK', NEW k \in Clients, NEW g \in Groups,
         NEW q, SubmitBulk(k, g, q)
  PROVE  LaneInv'
<1> USE DEF LaneInv, TypeOK, RequestTypes, ThreadTypes
<1> DEFINE In(r) == \E i \in DOMAIN g : g[i] = r
<1>1. /\ UNCHANGED <<tok, promise, wins, pc, item, c, res, carg>>
      /\ queue' = queue \o g /\ cpc' = [cpc EXCEPT ![k] = "notify"]
      /\ \A r \in Requests :
           /\ In(r) => admission[r] = "new" /\ admission'[r] = "admitted" /\ req'[r] = q
           /\ ~In(r) => admission'[r] = admission[r] /\ req'[r] = req[r]
      /\ \A i \in DOMAIN g : In(g[i])
  BY DEF SubmitBulk
<1>2. /\ g \in Seq(Requests)
      /\ \A i, j \in DOMAIN g : g[i] = g[j] => i = j
      /\ \A i \in DOMAIN g : g[i] \in Requests
  BY GroupsAreSequences
<1> HIDE DEF In
<1>3. \A r \in Requests : In(r) => tok[r] = NewToken /\ promise[r] = Empty /\ item # r
  BY <1>1, LaneAssumption DEF NewUntouched, WorkerItem
<1>4. NewUntouched' /\ TokenlessIdle' /\ WinsMatchToken'
  BY <1>1, <1>3 DEF NewUntouched, TokenlessIdle, WinsMatchToken
<1>5. TokenShape' /\ RowsMatchTokens'
  BY <1>1, <1>3 DEF TokenShape, RowsMatchTokens, Settled
<1>6. Cancellers'
  BY <1>1, <1>3 DEF Cancellers
<1>7. QueueWaiting'
  <2>1. \A i \in DOMAIN queue' :
          \/ /\ i \in DOMAIN queue /\ queue'[i] = queue[i]
             /\ queue[i] \in Requests /\ ~In(queue[i])
          \/ /\ i - Len(queue) \in DOMAIN g /\ queue'[i] = g[i - Len(queue)]
             /\ i \in Int /\ Len(queue) \in Int
    <3>1. \A i \in DOMAIN (queue \o g) :
            \/ i \in DOMAIN queue /\ (queue \o g)[i] = queue[i]
            \/ /\ i \notin DOMAIN queue /\ i - Len(queue) \in DOMAIN g
               /\ (queue \o g)[i] = g[i - Len(queue)] /\ i \in Int /\ Len(queue) \in Int
      BY <1>2, ConcatFacts DEF QueueType
    <3>2. \A i \in DOMAIN queue : queue[i] \in Requests /\ ~In(queue[i])
      <4>1. \A i \in DOMAIN queue : queue[i] \in Requests /\ admission[queue[i]] = "admitted"
        BY QueueMembers DEF QueueWaiting
      <4>2. \A r \in Requests : In(r) => admission[r] # "admitted"
        BY <1>1
      <4> QED BY <4>1, <4>2, Zenon
    <3> QED BY <1>1, <3>1, <3>2, Zenon
  <2>2. \A r \in Requests : In(r) => tok[r].phase = "Queued" /\ ~tok[r].cancellable
    BY <1>3 DEF NewToken
  <2>3. \A i, j \in DOMAIN queue' : queue'[i] = queue'[j] => i = j
    <3> SUFFICES ASSUME NEW i \in DOMAIN queue', NEW j \in DOMAIN queue', queue'[i] = queue'[j]
                 PROVE  i = j
      OBVIOUS
    <3>1. CASE i \in DOMAIN queue /\ queue'[i] = queue[i] /\ ~In(queue[i])
      BY <1>1, <2>1, <3>1 DEF QueueWaiting
    <3>2. CASE /\ i - Len(queue) \in DOMAIN g /\ queue'[i] = g[i - Len(queue)]
               /\ i \in Int /\ Len(queue) \in Int
      <4>a. In(g[i - Len(queue)])
        BY <1>1, <3>2, Zenon
      <4>1. In(queue'[j])
        BY <3>2, <4>a, Zenon
      <4>2. j - Len(queue) \in DOMAIN g /\ queue'[j] = g[j - Len(queue)] /\ j \in Int
        BY <2>1, <4>1, Zenon
      <4>3. i - Len(queue) = j - Len(queue)
        BY <1>2, <3>2, <4>2, Zenon
      <4> QED BY <3>2, <4>2, <4>3, SMT
    <3> QED BY <2>1, <3>1, <3>2
  <2>4. \A i \in DOMAIN queue' :
           /\ admission'[queue'[i]] = "admitted"
           /\ queue'[i] # item
           /\ tok[queue'[i]].phase \in {"Queued", "Cancelled"}
           /\ ~tok[queue'[i]].cancellable
           /\ promise[queue'[i]] = Empty \/ tok[queue'[i]].phase = "Cancelled"
    <3> SUFFICES ASSUME NEW i \in DOMAIN queue'
                 PROVE  /\ admission'[queue'[i]] = "admitted"
                        /\ queue'[i] # item
                        /\ tok[queue'[i]].phase \in {"Queued", "Cancelled"}
                        /\ ~tok[queue'[i]].cancellable
                        /\ promise[queue'[i]] = Empty \/ tok[queue'[i]].phase = "Cancelled"
      OBVIOUS
    <3>1. CASE i \in DOMAIN queue /\ queue'[i] = queue[i] /\ queue[i] \in Requests /\ ~In(queue[i])
      BY <1>1, <3>1 DEF QueueWaiting
    <3>2. CASE i - Len(queue) \in DOMAIN g /\ queue'[i] = g[i - Len(queue)]
      <4> DEFINE r == g[i - Len(queue)]
      <4>1. r \in Requests /\ In(r)
        BY <1>1, <1>2, <3>2, Zenon
      <4>2. queue'[i] = r
        BY <3>2
      <4> HIDE DEF r
      <4>3. /\ admission'[r] = "admitted" /\ r # item /\ promise[r] = Empty
            /\ tok[r].phase = "Queued" /\ ~tok[r].cancellable
        BY <1>1, <1>3, <2>2, <4>1
      <4> QED BY <4>2, <4>3
    <3> QED BY <2>1, <3>1, <3>2
  <2> QED BY <1>1, <2>3, <2>4 DEF QueueWaiting
<1>8. WorkerItem'
  <2>1. item \in Requests => req'[item] = req[item] /\ admission'[item] = admission[item]
    BY <1>1, <1>3
  <2> QED BY <1>1, <2>1 DEF WorkerItem, InService, EffectiveChunks
<1> QED BY <1>4, <1>5, <1>6, <1>7, <1>8

\* The inductive invariant of the lane.
LEMMA LaneInvariant == Spec => []LaneInv
<1>1. Init => LaneInv
  <2> SUFFICES ASSUME Init PROVE LaneInv
    OBVIOUS
  <2>1. NewUntouched /\ WinsMatchToken /\ TokenlessIdle /\ TokenShape
    BY DEF Init, NewUntouched, WinsMatchToken, TokenlessIdle, TokenShape, NewToken, IsCancelled
  <2>2. QueueWaiting
    BY DEF Init, QueueWaiting
  <2>3. WorkerItem
    BY DEF Init, WorkerItem, InService
  <2>4. Cancellers /\ RowsMatchTokens
    BY DEF Init, Cancellers, RowsMatchTokens, Settled
  <2> QED BY <2>1, <2>2, <2>3, <2>4, InitTyped DEF LaneInv
<1>2. LaneInv /\ TypeOK /\ TypeOK' /\ [Next]_vars => LaneInv'
  <2> SUFFICES ASSUME LaneInv, TypeOK, TypeOK', [Next]_vars PROVE LaneInv'
    OBVIOUS
  <2>1. CASE WorkerWait \/ WorkerExit
    <3>1. UNCHANGED <<admission, req, tok, promise, wins, queue, item, c, res, cpc, carg>>
      BY <2>1 DEF WorkerWait, WorkerExit, requestVars, clientVars
    <3>2. pc = "loop" /\ pc' \in {"waiting", "exited"}
      BY <2>1 DEF WorkerWait, WorkerExit
    <3> QED BY <3>1, <3>2, IdleStep
  <2>2. CASE Dtor
    <3>1. UNCHANGED <<admission, req, tok, promise, wins, queue, item, c, res, cpc, carg>>
      BY <2>2 DEF Dtor, DtorStop, DtorNotify, DtorJoin, requestVars, clientVars, workerVars
    <3>2. pc' = pc \/ (pc = "waiting" /\ pc' = "loop")
      BY <2>2 DEF Dtor, DtorStop, DtorNotify, DtorJoin, workerVars
    <3> QED BY <3>1, <3>2, IdleStep
  <2>3. ASSUME NEW k \in Clients, Notify(k) PROVE LaneInv'
    <3>1. UNCHANGED <<admission, req, tok, promise, wins, queue, item, c, res>>
      BY <2>3 DEF Notify, requestVars
    <3>2. pc' = pc \/ (pc = "waiting" /\ pc' = "loop")
      BY <2>3 DEF Notify
    <3>3. \A m \in Clients : cpc'[m] = "fulfill" => cpc[m] = "fulfill" /\ carg'[m] = carg[m]
      BY <2>3 DEF Notify, TypeOK, ThreadTypes
    <3> QED BY <3>1, <3>2, <3>3, IdleStep
  <2>4. CASE UNCHANGED vars
    <3>1. UNCHANGED <<admission, req, tok, promise, wins, queue, item, c, res, pc, cpc, carg>>
      BY <2>4 DEF vars
    <3> QED BY <3>1, IdleStep
  <2>5. CASE WorkerPop      BY <2>5, PopStep
  <2>6. CASE WorkerSkip     BY <2>6, SkipStep
  <2>7. CASE WorkerBegin    BY <2>7, BeginStep
  <2>8. CASE ServiceEntry \/ RunChunk \/ WorkerClear  BY <2>8, ServiceStep
  <2>9. CASE Boundary       BY <2>9, BoundaryStep
  <2>10. CASE MarkCompleted BY <2>10, MarkStep
  <2>11. CASE WorkerFulfill BY <2>11, FulfillStep
  <2>12. ASSUME NEW k \in Clients, CancelFulfill(k) PROVE LaneInv'
    BY <2>12, CancelFulfillStep
  <2>13. ASSUME NEW k \in Clients, NEW r \in Requests, Cancel(k, r) PROVE LaneInv'
    BY <2>13, CancelStep
  <2>14. ASSUME NEW k \in Clients, NEW r \in Requests, NEW q \in Inputs,
                Submit(k, r, q) \/ TrySubmit(k, r, q)
         PROVE  LaneInv'
    BY <2>14, SubmitStep
  <2>15. ASSUME NEW k \in Clients, NEW g \in Groups, NEW q \in Inputs, SubmitBulk(k, g, q)
         PROVE  LaneInv'
    BY <2>15, BulkStep
  <2> QED
    BY <2>1, <2>2, <2>3, <2>4, <2>5, <2>6, <2>7, <2>8, <2>9, <2>10, <2>11, <2>12, <2>13,
       <2>14, <2>15 DEF Next, Worker
<1>3. QED
  BY <1>1, <1>2, TypeCorrect, PTL DEF Spec
-----------------------------------------------------------------------------
\* Neither the worker nor a cancelling client ever sets a promise that is
\* already set (run() and cancel() both call set_value outside any lock).
THEOREM PromiseOnce == Spec => []PromiseSetOnce
<1>1. SetTwice # Empty /\ SetTwice.status = "set_twice"
  BY DEF SetTwice, Empty, Row
<1>2. LaneInv => PromiseSetOnce
  <2> SUFFICES ASSUME LaneInv, NEW r \in Requests, promise[r] = SetTwice PROVE FALSE
    BY DEF PromiseSetOnce
  <2>1. Settled(r) /\ promise[r].status = "set_twice"
    BY <1>1 DEF Settled
  <2> QED BY <2>1 DEF LaneInv, RowsMatchTokens
<1> QED BY <1>2, LaneInvariant, PTL

\* At most one cancel() of a request returns true, and a request whose work
\* mode the lane supports ends as "cancelled" exactly when one did.
THEOREM CancelHonoured == Spec => []CancelIffOneWin
<1>1. LaneInv => CancelIffOneWin
  <2> SUFFICES ASSUME LaneInv, NEW r \in Requests
               PROVE  /\ wins[r] <= 1
                      /\ Settled(r) /\ req[r].work_mode \in Supported =>
                            (promise[r].status = "cancelled" <=> wins[r] = 1)
    BY DEF CancelIffOneWin
  <2>1. wins[r] = IF IsCancelled(tok[r]) THEN 1 ELSE 0
    BY DEF LaneInv, WinsMatchToken
  <2>2. wins[r] <= 1
    BY <2>1
  <2>3. ASSUME Settled(r), req[r].work_mode \in Supported
        PROVE  promise[r].status = "cancelled" <=> IsCancelled(tok[r])
    <3>1. ~req[r].cancelable => ~IsCancelled(tok[r])
      BY DEF LaneInv, TokenlessIdle, NewToken, IsCancelled
    <3> QED BY <2>3, <3>1 DEF LaneInv, RowsMatchTokens, IsCancelled
  <2> QED BY <2>1, <2>2, <2>3
<1> QED BY <1>1, LaneInvariant, PTL
-----------------------------------------------------------------------------
(* Refinement.  The abstract step behind each step of the lane.            *)

Admitted == {r \in Requests : admission[r] = "admitted"}
Committed == {r \in Requests : wins[r] > 0}
Outcomes == [r \in Requests |-> IF Settled(r) THEN promise[r].status ELSE "none"]

LEMMA StutterStep ==
  ASSUME UNCHANGED <<promise, wins>>, Admitted' = Admitted
  PROVE  UNCHANGED Abstract!svars
<1>1. UNCHANGED <<Admitted, Committed, Outcomes>>
  BY DEF Committed, Outcomes, Settled
<1> QED BY <1>1 DEF Abstract!svars, Admitted, Committed, Outcomes

LEMMA AdmitStep ==
  ASSUME NEW G \in SUBSET Requests, UNCHANGED <<promise, wins>>,
         G \cap Admitted = {}, Admitted' = Admitted \cup G
  PROVE  Abstract!SNext
<1>1. UNCHANGED <<Committed, Outcomes>>
  BY DEF Committed, Outcomes, Settled
<1>2. Abstract!Admit(G)
  BY <1>1 DEF Abstract!Admit, Admitted, Committed, Outcomes
<1> QED BY <1>2 DEF Abstract!SNext

LEMMA CommitStep ==
  ASSUME NEW r \in Requests, UNCHANGED <<promise, admission>>,
         r \in Admitted, wins[r] = 0, promise[r] = Empty,
         Committed' = Committed \cup {r}
  PROVE  Abstract!SNext
<1>1. UNCHANGED <<Admitted, Outcomes>> /\ Outcomes[r] = "none" /\ r \notin Committed
  BY DEF Admitted, Committed, Outcomes, Settled
<1>2. Abstract!CommitCancel(r)
  BY <1>1 DEF Abstract!CommitCancel, Admitted, Committed, Outcomes
<1> QED BY <1>2 DEF Abstract!SNext

LEMMA SettleStep ==
  ASSUME NEW r \in Requests, UNCHANGED <<wins, admission>>,
         r \in Admitted, promise[r] = Empty,
         NEW row \in Result, promise' = [promise EXCEPT ![r] = row],
         promise \in [Requests -> ResultOrEmpty],
         row.status = "cancelled" <=> r \in Committed
  PROVE  Abstract!SNext
<1>1. row # Empty /\ row.status \in {"completed", "cancelled", "failed"}
  BY DEF Result, Empty, Row
<1>2. UNCHANGED <<Admitted, Committed>> /\ Outcomes[r] = "none"
  BY DEF Admitted, Committed, Outcomes, Settled
<1>3. Outcomes' = [Outcomes EXCEPT ![r] = row.status]
  BY <1>1 DEF Outcomes, Settled
<1>4. Abstract!Settle(r, row.status)
  BY <1>2, <1>3 DEF Abstract!Settle, Admitted, Committed, Outcomes
<1> QED BY <1>1, <1>4 DEF Abstract!SNext, Abstract!Outcome

LEMMA RefinementStep ==
  ASSUME WorkModes \subseteq Supported, LaneInv, TypeOK, TypeOK', [Next]_vars
  PROVE  Abstract!SNext \/ UNCHANGED Abstract!svars
<1> USE DEF TypeOK, RequestTypes, ThreadTypes
<1>1. CASE WorkerWait \/ WorkerExit \/ WorkerPop \/ WorkerSkip \/ WorkerBegin
           \/ ServiceEntry \/ RunChunk \/ Boundary \/ MarkCompleted \/ WorkerClear
  <2>1. UNCHANGED <<promise, wins, admission>>
    BY <1>1 DEF WorkerWait, WorkerExit, WorkerPop, WorkerSkip, WorkerBegin, ServiceEntry,
                RunChunk, Boundary, MarkCompleted, WorkerClear, requestVars
  <2> QED BY <2>1, StutterStep DEF Admitted
<1>2. CASE Dtor
  <2>1. UNCHANGED <<promise, wins, admission>>
    BY <1>2 DEF Dtor, DtorStop, DtorNotify, DtorJoin, requestVars
  <2> QED BY <2>1, StutterStep DEF Admitted
<1>3. CASE UNCHANGED vars
  <2>1. UNCHANGED <<promise, wins, admission>>
    BY <1>3 DEF vars
  <2> QED BY <2>1, StutterStep DEF Admitted
<1>4. ASSUME NEW k \in Clients, Notify(k)
      PROVE  UNCHANGED Abstract!svars
  <2>1. UNCHANGED <<promise, wins, admission>>
    BY <1>4 DEF Notify, requestVars
  <2> QED BY <2>1, StutterStep DEF Admitted
<1>5. ASSUME NEW k \in Clients, NEW r \in Requests, NEW q \in Inputs,
             Submit(k, r, q) \/ TrySubmit(k, r, q)
      PROVE  Abstract!SNext \/ UNCHANGED Abstract!svars
  <2>1. UNCHANGED <<promise, wins>> /\ admission[r] = "new"
    BY <1>5 DEF Submit, TrySubmit, CanSubmit
  <2>2. CASE admission' = [admission EXCEPT ![r] = "admitted"]
    <3>1. {r} \cap Admitted = {} /\ Admitted' = Admitted \cup {r}
      BY <2>1, <2>2 DEF Admitted
    <3>2. {r} \in SUBSET Requests
      OBVIOUS
    <3> QED BY <2>1, <3>1, <3>2, AdmitStep
  <2>3. CASE admission' = [admission EXCEPT ![r] = "rejected"]
    <3>1. Admitted' = Admitted
      BY <2>1, <2>3 DEF Admitted
    <3> QED BY <2>1, <3>1, StutterStep
  <2> QED BY <1>5, <2>2, <2>3 DEF Submit, TrySubmit, Push
<1>6. ASSUME NEW k \in Clients, NEW g \in Groups, NEW q \in Inputs, SubmitBulk(k, g, q)
      PROVE  Abstract!SNext
  <2> DEFINE G == {r \in Requests : \E i \in DOMAIN g : g[i] = r}
  <2>1. UNCHANGED <<promise, wins>> /\ \A r \in G : admission[r] = "new"
    BY <1>6 DEF SubmitBulk
  <2>2. \A r \in Requests : admission'[r] = IF r \in G THEN "admitted" ELSE admission[r]
    BY <1>6 DEF SubmitBulk
  <2>3. G \cap Admitted = {} /\ Admitted' = Admitted \cup G
    BY <2>1, <2>2 DEF Admitted
  <2>4. G \in SUBSET Requests
    OBVIOUS
  <2> HIDE DEF G
  <2> QED BY <2>1, <2>3, <2>4, AdmitStep
<1>7. ASSUME NEW k \in Clients, NEW r \in Requests, Cancel(k, r)
      PROVE  Abstract!SNext
  <2>1. /\ UNCHANGED <<promise, admission>>
        /\ admission[r] = "admitted" /\ req[r].cancelable
        /\ tok[r].phase = "Queued" \/ (tok[r].phase = "Running" /\ tok[r].cancellable)
        /\ wins' = [wins EXCEPT ![r] = @ + 1]
    BY <1>7 DEF Cancel, TokenReturned, CancelReturns, FulfillNow, StopRequestable
  <2>2. wins[r] = 0
    BY <2>1 DEF LaneInv, WinsMatchToken, IsCancelled
  <2>3. promise[r] = Empty
    BY <2>1 DEF LaneInv, TokenShape, RowsMatchTokens, Settled, Request
  <2>4. Committed' = Committed \cup {r}
    BY <2>1, <2>2 DEF Committed
  <2>5. r \in Admitted
    BY <2>1 DEF Admitted
  <2> QED BY <2>1, <2>2, <2>3, <2>4, <2>5, CommitStep
<1>8. ASSUME NEW k \in Clients, CancelFulfill(k)
      PROVE  Abstract!SNext
  <2> DEFINE r == carg[k]
  <2>1. /\ r \in Requests /\ admission[r] = "admitted" /\ promise[r] = Empty
        /\ tok[r].phase = "Cancelled"
    BY <1>8 DEF CancelFulfill, LaneInv, Cancellers
  <2>2. /\ UNCHANGED <<wins, admission>>
        /\ promise' = [promise EXCEPT ![r] = Row("cancelled", 0)]
    BY <1>8, <2>1 DEF CancelFulfill, SetValue
  <2>3. r \in Committed /\ r \in Admitted
    BY <2>1 DEF LaneInv, WinsMatchToken, IsCancelled, Committed, Admitted
  <2>4. Row("cancelled", 0) \in Result /\ Row("cancelled", 0).status = "cancelled"
    BY RowsTyped DEF Row
  <2> HIDE DEF r
  <2> QED BY <2>1, <2>2, <2>3, <2>4, SettleStep
<1>9. CASE WorkerFulfill
  <2>1. /\ pc = "fulfill" /\ item \in Requests
        /\ admission[item] = "admitted" /\ promise[item] = Empty
        /\ res \in Result
    BY <1>9 DEF WorkerFulfill, LaneInv, WorkerItem, InService
  <2>2. /\ UNCHANGED <<wins, admission>>
        /\ promise' = [promise EXCEPT ![item] = res]
    BY <1>9, <2>1 DEF WorkerFulfill, SetValue
  <2>3. req[item].work_mode \in Supported
    BY <2>1 DEF Request
  <2>4. ~req[item].cancelable => ~IsCancelled(tok[item])
    BY <2>1 DEF LaneInv, TokenlessIdle, NewToken, IsCancelled
  <2>5. res.status = "cancelled" <=> IsCancelled(tok[item])
    BY <2>1, <2>3, <2>4 DEF LaneInv, WorkerItem, IsCancelled
  <2>6. item \in Admitted /\ (item \in Committed <=> IsCancelled(tok[item]))
    BY <2>1 DEF LaneInv, WinsMatchToken, Committed, Admitted
  <2> QED BY <2>1, <2>2, <2>5, <2>6, SettleStep
<1> QED
  BY <1>1, <1>2, <1>3, <1>4, <1>5, <1>6, <1>7, <1>8, <1>9 DEF Next, Worker

\* When every submitted work mode is supported, the lane implements its
\* abstract specification: each admitted request is settled once, and as
\* "cancelled" exactly when a cancel() of it had returned true before.
THEOREM LaneRefinesSettlement ==
  ASSUME WorkModes \subseteq Supported
  PROVE  Spec => ImplementsSettlement
<1>1. Init => Abstract!SInit
  BY DEF Init, Abstract!SInit, Settled
<1>2. LaneInv /\ TypeOK /\ TypeOK' /\ [Next]_vars => [Abstract!SNext]_(Abstract!svars)
  BY RefinementStep
<1> QED
  BY <1>1, <1>2, TypeCorrect, LaneInvariant, PTL DEF Spec, ImplementsSettlement, Abstract!SSpec
-----------------------------------------------------------------------------
(* Admission: the cap of the queue, and what a rejection leaves behind.      *)

\* The cap of the queue when the owner submits with try_submit only.
QueueCapped == Bounded => Len(queue) <= MaxQueueDepth

\* The cap survives every step.
LEMMA QueueStaysCapped == TypeOK /\ QueueCapped /\ [Next]_vars => QueueCapped'
<1> SUFFICES ASSUME TypeOK, QueueCapped, [Next]_vars, Bounded
             PROVE  Len(queue') <= MaxQueueDepth
  BY DEF QueueCapped
<1>1. queue \in Seq(Requests) /\ MaxQueueDepth \in Nat /\ Len(queue) <= MaxQueueDepth
  BY LaneAssumption DEF TypeOK, QueueType, QueueCapped
<1>2. CASE UNCHANGED queue
  BY <1>1, <1>2
<1>3. CASE queue # <<>> /\ queue' = Tail(queue)
  BY <1>1, <1>3
<1>4. ASSUME NEW r \in Requests, Len(queue) < MaxQueueDepth, queue' = Append(queue, r)
      PROVE  Len(queue') <= MaxQueueDepth
  BY <1>1, <1>4
<1>5. ASSUME NEW k \in Clients, NEW r \in Requests, NEW q \in Inputs,
             Submit(k, r, q) \/ TrySubmit(k, r, q)
      PROVE  \/ UNCHANGED queue
             \/ Len(queue) < MaxQueueDepth /\ queue' = Append(queue, r)
  BY <1>5 DEF Submit, TrySubmit, Push
<1>6. CASE Worker
  BY <1>2, <1>3, <1>6 DEF Worker, WorkerWait, WorkerExit, WorkerPop, WorkerSkip, WorkerBegin,
     ServiceEntry, RunChunk, Boundary, MarkCompleted, WorkerFulfill, WorkerClear
<1>7. CASE Dtor \/ UNCHANGED vars
  BY <1>2, <1>7 DEF Dtor, DtorStop, DtorNotify, DtorJoin, vars
<1>8. ASSUME NEW k \in Clients, \/ Notify(k) \/ CancelFulfill(k)
                                \/ \E r \in Requests : Cancel(k, r)
      PROVE  UNCHANGED queue
  BY <1>8 DEF Notify, CancelFulfill, Cancel
<1>9. ASSUME NEW k \in Clients, NEW g \in Groups, NEW q \in Inputs, SubmitBulk(k, g, q)
      PROVE  FALSE
  BY <1>9 DEF SubmitBulk
<1> QED
  BY <1>2, <1>4, <1>5, <1>6, <1>7, <1>8, <1>9 DEF Next

\* try_submit tests the depth under the lock that covers the push, so the queue
\* never passes the cap; a rejected request leaves nothing on the lane.
THEOREM AdmissionWithinCap == Spec => []AdmissionBounded
<1>1. Init => QueueCapped
  BY LaneAssumption DEF Init, QueueCapped
<1>2. LaneInv /\ QueueCapped => AdmissionBounded
  <2> SUFFICES ASSUME LaneInv, QueueCapped, NEW r \in Requests, admission[r] = "rejected"
               PROVE  /\ ~Settled(r) /\ item # r
                      /\ \A i \in DOMAIN queue : queue[i] # r
    BY DEF AdmissionBounded, QueueCapped
  <2>1. ~Settled(r)
    BY DEF LaneInv, NewUntouched, Settled
  <2>2. item # r
    BY LaneAssumption DEF LaneInv, WorkerItem
  <2>3. \A i \in DOMAIN queue : queue[i] # r
    BY DEF LaneInv, QueueWaiting
  <2> QED BY <2>1, <2>2, <2>3
<1> QED
  BY <1>1, <1>2, QueueStaysCapped, TypeCorrect, LaneInvariant, PTL DEF Spec
-----------------------------------------------------------------------------
(* The second invariant: chunk counts.                                       *)

\* Control points at which the chunk counter is about to become a row.
Counting == {"boundary", "mark", "fulfill", "clear"}

\* The chunk counter at each of these points.
ChunkCounter ==
    /\ pc = "boundary" => c >= 1
    /\ pc = "mark" => c = EffectiveChunks(item)
    /\ pc \in {"fulfill", "clear"} =>
         /\ res.chunks_completed = c
         /\ res.status = "completed" => c = EffectiveChunks(item)
         /\ res.status = "cancelled" => c >= 1 /\ c < EffectiveChunks(item)

\* The chunk count of every row, and for a cancelled one which cancel it was.
RowsCounted ==
    \A r \in Requests :
        /\ promise[r].status = "completed" =>
              promise[r].chunks_completed = EffectiveChunks(r)
        /\ promise[r].status = "cancelled" =>
              \/ promise[r].chunks_completed = 0 /\ ~tok[r].cancellable
              \/ /\ promise[r].chunks_completed >= 1
                 /\ promise[r].chunks_completed < EffectiveChunks(r)
                 /\ tok[r].cancellable

Counted == ChunkCounter /\ RowsCounted

\* A step that builds no row and touches neither the rows nor their tokens'
\* cancellable flags nor the parameters of an admitted request.
LEMMA CountedFrame ==
  ASSUME LaneInv, TypeOK, Counted, UNCHANGED promise,
         \A r \in Requests : tok'[r].cancellable = tok[r].cancellable,
         \A r \in Requests : admission[r] = "admitted" => req'[r] = req[r],
         UNCHANGED <<pc, item, c, res>> \/ pc' \notin Counting
  PROVE  Counted'
<1>1. \A r \in Requests : admission[r] = "admitted" =>
         EffectiveChunks(r)' = EffectiveChunks(r)
  BY DEF EffectiveChunks
<1>2. RowsCounted'
  <2> SUFFICES ASSUME NEW r \in Requests
               PROVE  /\ promise[r].status = "completed" =>
                            promise[r].chunks_completed = EffectiveChunks(r)'
                      /\ promise[r].status = "cancelled" =>
                            \/ promise[r].chunks_completed = 0 /\ ~tok'[r].cancellable
                            \/ /\ promise[r].chunks_completed >= 1
                               /\ promise[r].chunks_completed < EffectiveChunks(r)'
                               /\ tok'[r].cancellable
    BY DEF RowsCounted
  <2>1. CASE admission[r] = "admitted"
    BY <1>1, <2>1 DEF Counted, RowsCounted
  <2>2. CASE admission[r] # "admitted"
    BY <2>2 DEF LaneInv, NewUntouched, Empty, Row
  <2> QED BY <2>1, <2>2
<1>3. ChunkCounter'
  <2>1. CASE pc' \notin Counting
    BY <2>1 DEF ChunkCounter, Counting
  <2>2. CASE UNCHANGED <<pc, item, c, res>> /\ pc' \in Counting
    <3>1. item \in Requests /\ admission[item] = "admitted"
      BY <2>2 DEF TypeOK, ThreadTypes, LaneInv, WorkerItem, Counting
    <3>2. EffectiveChunks(item)' = EffectiveChunks(item)
      BY <1>1, <2>2, <3>1 DEF EffectiveChunks
    <3> QED BY <2>2, <3>2 DEF Counted, ChunkCounter
  <2> QED BY <2>1, <2>2
<1> QED BY <1>2, <1>3 DEF Counted

\* Chunk counts survive every step.
LEMMA CountedStep == LaneInv /\ TypeOK /\ TypeOK' /\ Counted /\ [Next]_vars => Counted'
<1> SUFFICES ASSUME LaneInv, TypeOK, TypeOK', Counted, [Next]_vars PROVE Counted'
  OBVIOUS
<1> USE DEF TypeOK, RequestTypes, ThreadTypes
<1>1. CASE WorkerWait \/ WorkerExit \/ WorkerPop \/ WorkerSkip \/ WorkerClear
  <2>1. UNCHANGED <<promise, tok, req>> /\ pc' \notin Counting
    BY <1>1 DEF WorkerWait, WorkerExit, WorkerPop, WorkerSkip, WorkerClear, requestVars, Counting
  <2> QED BY <2>1, CountedFrame
<1>2. CASE Dtor \/ UNCHANGED vars \/ \E k \in Clients : Notify(k)
  <2>1. UNCHANGED <<promise, tok, req, item, c, res>>
    BY <1>2 DEF Dtor, DtorStop, DtorNotify, DtorJoin, Notify, requestVars, workerVars, vars
  <2>2. pc' = pc \/ pc' = "loop"
    BY <1>2 DEF Dtor, DtorStop, DtorNotify, DtorJoin, Notify, workerVars, vars
  <2> QED BY <2>1, <2>2, CountedFrame DEF Counting
<1>3. CASE WorkerBegin
  <2>1. /\ UNCHANGED <<promise, req>> /\ pc' \notin Counting /\ item \in Requests
        /\ req[item].cancelable => tok[item].phase # "Cancelled"
        /\ pc = "begin"
    BY <1>3 DEF WorkerBegin, Counting, BeginReturns
  <2>2. \A r \in Requests : r # item => tok'[r] = tok[r]
    BY <1>3, <2>1 DEF WorkerBegin
  <2>3. ~req[item].cancelable => tok' = tok
    BY <1>3 DEF WorkerBegin
  <2>4. req[item].cancelable => promise[item] = Empty
    BY <2>1 DEF LaneInv, WorkerItem
  <2>5. RowsCounted'
    BY <2>1, <2>2, <2>3, <2>4 DEF Counted, RowsCounted, EffectiveChunks, Empty, Row
  <2>6. ChunkCounter'
    BY <2>1 DEF ChunkCounter, Counting
  <2> QED BY <2>5, <2>6 DEF Counted
<1>4. CASE ServiceEntry \/ RunChunk
  <2>1. UNCHANGED <<promise, tok, req, item>> /\ item \in Requests
    BY <1>4 DEF ServiceEntry, RunChunk, requestVars
  <2>2. RowsCounted'
    BY <2>1 DEF Counted, RowsCounted, EffectiveChunks
  <2>3. ChunkCounter'
    <3>1. CASE ServiceEntry
      BY <3>1 DEF ServiceEntry, ChunkCounter, LaneInv, WorkerItem, Row
    <3>2. CASE RunChunk
      <4>1. /\ c \in Nat /\ c < EffectiveChunks(item) /\ EffectiveChunks(item)' = EffectiveChunks(item)
            /\ EffectiveChunks(item) \in Int
        BY <2>1, <3>2 DEF RunChunk, LaneInv, WorkerItem, EffectiveChunks, Request
      <4> QED BY <3>2, <4>1 DEF RunChunk, ChunkCounter
    <3> QED BY <1>4, <3>1, <3>2
  <2> QED BY <2>2, <2>3 DEF Counted
<1>5. CASE Boundary
  <2>1. /\ UNCHANGED <<promise, req, item, c>> /\ pc = "boundary" /\ item \in Requests
        /\ promise[item] = Empty
    BY <1>5 DEF Boundary, LaneInv, WorkerItem, InService
  <2>2. \A r \in Requests : r # item => tok'[r] = tok[r]
    BY <1>5, <2>1 DEF Boundary
  <2>3. RowsCounted'
    BY <2>1, <2>2 DEF Counted, RowsCounted, EffectiveChunks, Empty, Row
  <2>4. \/ pc' = "chunk"
        \/ pc' = "fulfill" /\ res' = Row("cancelled", c)
    BY <1>5 DEF Boundary
  <2>5. c >= 1 /\ c < EffectiveChunks(item) /\ EffectiveChunks(item)' = EffectiveChunks(item)
    BY <2>1 DEF Counted, ChunkCounter, LaneInv, WorkerItem, EffectiveChunks
  <2>6. ChunkCounter'
    BY <2>1, <2>4, <2>5 DEF ChunkCounter, Row
  <2> QED BY <2>3, <2>6 DEF Counted
<1>6. CASE MarkCompleted
  <2>1. /\ UNCHANGED <<promise, req, item, c>> /\ pc = "mark" /\ item \in Requests
        /\ promise[item] = Empty
        /\ pc' = "fulfill" /\ res' = Row("completed", EffectiveChunks(item))
    BY <1>6 DEF MarkCompleted, LaneInv, WorkerItem, InService
  <2>2. \A r \in Requests : r # item => tok'[r] = tok[r]
    BY <1>6, <2>1 DEF MarkCompleted
  <2>3. RowsCounted'
    BY <2>1, <2>2 DEF Counted, RowsCounted, EffectiveChunks, Empty, Row
  <2>4. ChunkCounter'
    BY <2>1 DEF Counted, ChunkCounter, EffectiveChunks, Row
  <2> QED BY <2>3, <2>4 DEF Counted
<1>7. CASE WorkerFulfill
  <2>1. /\ UNCHANGED <<tok, req, item, c, res>> /\ pc = "fulfill" /\ pc' = "clear"
        /\ item \in Requests /\ promise[item] = Empty
        /\ promise' = [promise EXCEPT ![item] = res]
    BY <1>7 DEF WorkerFulfill, LaneInv, WorkerItem, InService, SetValue
  <2>2. /\ res.chunks_completed = c
        /\ res.status = "completed" => c = EffectiveChunks(item)
        /\ res.status = "cancelled" => c >= 1 /\ c < EffectiveChunks(item)
    BY <2>1 DEF Counted, ChunkCounter
  <2>3. res.status = "cancelled" => tok[item].cancellable
    BY <2>1 DEF LaneInv, WorkerItem
  <2>4. \A r \in Requests : promise'[r] = IF r = item THEN res ELSE promise[r]
    BY <2>1
  <2>5. \A r \in Requests : EffectiveChunks(r)' = EffectiveChunks(r)
    BY <2>1 DEF EffectiveChunks
  <2>6. RowsCounted'
    BY <2>1, <2>2, <2>3, <2>4, <2>5 DEF Counted, RowsCounted
  <2>7. ChunkCounter'
    BY <2>1, <2>2, <2>5 DEF ChunkCounter
  <2> QED BY <2>6, <2>7 DEF Counted
<1>8. ASSUME NEW k \in Clients, CancelFulfill(k) PROVE Counted'
  <2> DEFINE r == carg[k]
  <2>1. r \in Requests /\ promise[r] = Empty /\ ~tok[r].cancellable
    BY <1>8 DEF CancelFulfill, LaneInv, Cancellers
  <2>2. /\ UNCHANGED <<tok, req, pc, item, c, res>>
        /\ promise' = [promise EXCEPT ![r] = Row("cancelled", 0)]
    BY <1>8, <2>1 DEF CancelFulfill, SetValue
  <2> HIDE DEF r
  <2>3. \A s \in Requests : promise'[s] = IF s = r THEN Row("cancelled", 0) ELSE promise[s]
    BY <2>1, <2>2
  <2>4. RowsCounted'
    BY <2>1, <2>2, <2>3 DEF Counted, RowsCounted, EffectiveChunks, Row
  <2>5. ChunkCounter'
    BY <2>2 DEF Counted, ChunkCounter, EffectiveChunks
  <2> QED BY <2>4, <2>5 DEF Counted
<1>9. ASSUME NEW k \in Clients, NEW r \in Requests, Cancel(k, r) PROVE Counted'
  <2>1. /\ UNCHANGED <<promise, req, pc, item, c, res>>
        /\ tok' = [tok EXCEPT ![r] = AfterCancel(@)]
    BY <1>9 DEF Cancel
  <2>2. \A s \in Requests : tok'[s].cancellable = tok[s].cancellable
    BY <2>1 DEF AfterCancel
  <2> QED BY <2>1, <2>2, CountedFrame
<1>10. ASSUME NEW k \in Clients, NEW r \in Requests, NEW q \in Inputs,
              Submit(k, r, q) \/ TrySubmit(k, r, q)
       PROVE  Counted'
  <2>1. UNCHANGED <<promise, tok, pc, item, c, res>> /\ admission[r] = "new"
    BY <1>10 DEF Submit, TrySubmit, CanSubmit
  <2>2. \A s \in Requests : admission[s] = "admitted" => req'[s] = req[s]
    BY <1>10, <2>1 DEF Submit, TrySubmit, Push
  <2> QED BY <2>1, <2>2, CountedFrame
<1>11. ASSUME NEW k \in Clients, NEW g \in Groups, NEW q \in Inputs, SubmitBulk(k, g, q)
       PROVE  Counted'
  <2>1. UNCHANGED <<promise, tok, pc, item, c, res>>
    BY <1>11 DEF SubmitBulk
  <2>2. \A s \in Requests : admission[s] = "admitted" => req'[s] = req[s]
    BY <1>11 DEF SubmitBulk
  <2> QED BY <2>1, <2>2, CountedFrame
<1> QED
  BY <1>1, <1>2, <1>3, <1>4, <1>5, <1>6, <1>7, <1>8, <1>9, <1>10, <1>11 DEF Next, Worker
-----------------------------------------------------------------------------
(* Whose hands an admitted request is in.                                    *)

InQueue(r) == \E i \in DOMAIN queue : queue[i] = r

\* A queued cancel that has flipped its token is followed through by its client.
CancelInHand ==
    \A r \in Requests :
        tok[r].phase = "Cancelled" /\ ~tok[r].cancellable => Settled(r) \/ BeingCancelled(r)

\* Where an admitted request can be, and what active_ says about the worker.
InLanesHands ==
    /\ item # NoRequest => active
    /\ pc = "clear" => Settled(item)
    /\ \A r \in Requests : admission[r] = "admitted" =>
         Settled(r) \/ BeingCancelled(r) \/ item = r \/ InQueue(r)

Held == CancelInHand /\ InLanesHands

\* What Tail, Append and \o keep of a sequence.
LEMMA TailKeeps ==
  ASSUME NEW S, NEW q \in Seq(S), q # <<>>
  PROVE  \A i \in DOMAIN q : \/ q[i] = Head(q)
                             \/ i - 1 \in DOMAIN Tail(q) /\ Tail(q)[i - 1] = q[i]
<1> SUFFICES ASSUME NEW i \in DOMAIN q, i # 1
             PROVE  i - 1 \in DOMAIN Tail(q) /\ Tail(q)[i - 1] = q[i]
  OBVIOUS
<1>1. i \in Int /\ i - 1 \in 1..(Len(q) - 1) /\ DOMAIN Tail(q) = 1..(Len(q) - 1)
  OBVIOUS
<1>2. \A j \in 1..(Len(q) - 1) : Tail(q)[j] = q[j + 1]
  OBVIOUS
<1>3. (i - 1) + 1 = i
  BY <1>1
<1> QED BY <1>1, <1>2, <1>3

LEMMA AppendKeeps ==
  ASSUME NEW S, NEW q \in Seq(S), NEW e \in S
  PROVE  /\ \A i \in DOMAIN q : i \in DOMAIN Append(q, e) /\ Append(q, e)[i] = q[i]
         /\ Len(q) + 1 \in DOMAIN Append(q, e) /\ Append(q, e)[Len(q) + 1] = e
  OBVIOUS

LEMMA ConcatKeeps ==
  ASSUME NEW S, NEW q \in Seq(S), NEW g \in Seq(S)
  PROVE  /\ \A i \in DOMAIN q : i \in DOMAIN (q \o g) /\ (q \o g)[i] = q[i]
         /\ \A i \in DOMAIN g : Len(q) + i \in DOMAIN (q \o g) /\ (q \o g)[Len(q) + i] = g[i]
  OBVIOUS

\* Clients that are about to settle a request keep it while they do not move.
FulfillersStay == \A k \in Clients : cpc[k] = "fulfill" => cpc'[k] = "fulfill" /\ carg'[k] = carg[k]

LEMMA BeingCancelledStays ==
  ASSUME FulfillersStay, NEW r \in Requests, BeingCancelled(r)
  PROVE  BeingCancelled(r)'
BY DEF FulfillersStay, BeingCancelled

\* A step that moves no request and cancels none.
LEMMA HeldFrame ==
  ASSUME Held, FulfillersStay, UNCHANGED <<admission, promise, item, queue, active>>,
         \A r \in Requests : tok'[r].phase = "Cancelled" /\ ~tok'[r].cancellable =>
            tok[r].phase = "Cancelled" /\ ~tok[r].cancellable,
         pc' = pc \/ pc' # "clear"
  PROVE  Held'
<1>1. \A r \in Requests : (BeingCancelled(r) => BeingCancelled(r)') /\ (Settled(r)' <=> Settled(r))
                          /\ (InQueue(r)' <=> InQueue(r))
  BY BeingCancelledStays DEF Settled, InQueue
<1>2. CancelInHand'
  BY <1>1 DEF Held, CancelInHand
<1>3. InLanesHands'
  <2>1. pc' = "clear" => Settled(item)'
    BY DEF Held, InLanesHands, Settled
  <2> QED BY <1>1, <2>1 DEF Held, InLanesHands
<1> QED BY <1>2, <1>3 DEF Held

\* A step that pushes requests, or admits none.
LEMMA HeldPush ==
  ASSUME Held, TypeOK, FulfillersStay, UNCHANGED <<tok, promise, pc, item, active>>,
         \A i \in DOMAIN queue : i \in DOMAIN queue' /\ queue'[i] = queue[i],
         \A r \in Requests : admission'[r] = "admitted" => admission[r] = "admitted" \/ InQueue(r)'
  PROVE  Held'
<1>1. \A r \in Requests : (BeingCancelled(r) => BeingCancelled(r)') /\ (Settled(r)' <=> Settled(r))
  BY BeingCancelledStays DEF Settled
<1>2. \A r \in Requests : InQueue(r) => InQueue(r)'
  BY DEF InQueue
<1>3. CancelInHand'
  BY <1>1 DEF Held, CancelInHand
<1>4. InLanesHands'
  <2>1. pc' = "clear" => Settled(item)'
    BY DEF Held, InLanesHands, Settled
  <2> QED BY <1>1, <1>2, <2>1 DEF Held, InLanesHands
<1> QED BY <1>3, <1>4 DEF Held

\* No step loses a request.
LEMMA HeldStep == LaneInv /\ TypeOK /\ TypeOK' /\ Held /\ [Next]_vars => Held'
<1> SUFFICES ASSUME LaneInv, TypeOK, TypeOK', Held, [Next]_vars PROVE Held'
  OBVIOUS
<1> USE DEF TypeOK, RequestTypes, ThreadTypes
<1>1. CASE WorkerWait \/ WorkerExit \/ ServiceEntry \/ RunChunk \/ Dtor \/ UNCHANGED vars
  <2>1. UNCHANGED <<admission, promise, item, queue, active, tok, cpc, carg>>
    BY <1>1 DEF WorkerWait, WorkerExit, ServiceEntry, RunChunk, Dtor, DtorStop, DtorNotify,
                DtorJoin, requestVars, clientVars, workerVars, vars
  <2>2. pc' = pc \/ pc' # "clear"
    BY <1>1 DEF WorkerWait, WorkerExit, ServiceEntry, RunChunk, Dtor, DtorStop, DtorNotify,
                DtorJoin, workerVars, vars
  <2> QED BY <2>1, <2>2, HeldFrame DEF FulfillersStay
<1>2. ASSUME NEW k \in Clients, Notify(k) PROVE Held'
  <2>1. UNCHANGED <<admission, promise, item, queue, active, tok>> /\ (pc' = pc \/ pc' = "loop")
    BY <1>2 DEF Notify, requestVars
  <2>2. FulfillersStay
    BY <1>2 DEF Notify, FulfillersStay
  <2> QED BY <2>1, <2>2, HeldFrame
<1>3. CASE WorkerBegin \/ Boundary \/ MarkCompleted
  <2>1. /\ UNCHANGED <<admission, promise, item, queue, active, cpc, carg>> /\ pc' # "clear"
        /\ item \in Requests
    BY <1>3 DEF WorkerBegin, Boundary, MarkCompleted, clientVars
  <2>2. \A r \in Requests : r # item => tok'[r] = tok[r]
    BY <1>3, <2>1 DEF WorkerBegin, Boundary, MarkCompleted
  <2>3. tok'[item].phase = "Cancelled" /\ ~tok'[item].cancellable =>
            tok[item].phase = "Cancelled" /\ ~tok[item].cancellable
    <3>1. CASE WorkerBegin
      BY <2>1, <3>1 DEF WorkerBegin, AfterBegin
    <3>2. CASE Boundary
      <4>1. tok[item].phase = "StopRequested" => tok[item].cancellable
        BY <2>1 DEF LaneInv, TokenShape
      <4>2. CASE ~req[item].cancelable
        BY <3>2, <4>2 DEF Boundary
      <4>3. CASE req[item].cancelable /\ StopReturns(tok[item])
        <5>1. tok'[item] = [phase |-> "Cancelled", cancellable |-> tok[item].cancellable]
          BY <2>1, <3>2, <4>3 DEF Boundary, AfterBoundary
        <5> QED BY <4>1, <4>3, <5>1 DEF StopReturns
      <4>4. CASE req[item].cancelable /\ ~StopReturns(tok[item])
        <5>1. tok'[item].phase = tok[item].phase
          BY <2>1, <3>2, <4>4 DEF Boundary, AfterBoundary
        <5>2. tok[item].phase \in {"Running", "StopRequested"}
          BY <3>2, <4>4 DEF Boundary, LaneInv, WorkerItem
        <5> QED BY <5>1, <5>2
      <4> QED BY <4>2, <4>3, <4>4
    <3>3. CASE MarkCompleted
      BY <2>1, <3>3 DEF MarkCompleted, AfterMarkCompleted
    <3> QED BY <1>3, <3>1, <3>2, <3>3
  <2> QED BY <2>1, <2>2, <2>3, HeldFrame DEF FulfillersStay
<1>4. ASSUME NEW k \in Clients, NEW r \in Requests, Cancel(k, r) PROVE Held'
  <2>1. /\ UNCHANGED <<admission, promise, item, queue, active, pc>>
        /\ tok' = [tok EXCEPT ![r] = AfterCancel(@)]
        /\ cpc[k] = "idle"
    BY <1>4 DEF Cancel
  <2>2. FulfillersStay
    BY <1>4 DEF Cancel, FulfillersStay, clientVars
  <2>3. CASE FulfillNow(tok[r])
    <3>1. cpc' = [cpc EXCEPT ![k] = "fulfill"] /\ carg' = [carg EXCEPT ![k] = r]
      BY <1>4, <2>3 DEF Cancel
    <3>2. BeingCancelled(r)'
      BY <3>1 DEF BeingCancelled
    <3>3. \A s \in Requests : (BeingCancelled(s) => BeingCancelled(s)') /\ (Settled(s)' <=> Settled(s))
                              /\ (InQueue(s)' <=> InQueue(s))
      BY <2>1, <2>2, BeingCancelledStays DEF Settled, InQueue
    <3>4. CancelInHand'
      <4>1. \A s \in Requests : s # r => tok'[s] = tok[s]
        BY <2>1
      <4> QED BY <3>2, <3>3, <4>1 DEF Held, CancelInHand
    <3>5. InLanesHands'
      <4>1. pc' = "clear" => Settled(item)'
        BY <2>1 DEF Held, InLanesHands, Settled
      <4> QED BY <2>1, <3>3, <4>1 DEF Held, InLanesHands
    <3> QED BY <3>4, <3>5 DEF Held
  <2>4. CASE ~FulfillNow(tok[r])
    <3>1. \A s \in Requests : tok'[s] = tok[s] \/ tok'[s].phase = "StopRequested"
      BY <2>1, <2>4 DEF AfterCancel
    <3> QED BY <2>1, <2>2, <3>1, HeldFrame
  <2> QED BY <2>3, <2>4
<1>5. ASSUME NEW k \in Clients, CancelFulfill(k) PROVE Held'
  <2>0. PICK r \in Requests : r = carg[k]
    BY <1>5 DEF CancelFulfill, LaneInv, Cancellers
  <2>1. /\ UNCHANGED <<admission, tok, item, queue, active, pc>>
        /\ promise[r] = Empty /\ cpc[k] = "fulfill" /\ r = carg[k]
        /\ cpc' = [cpc EXCEPT ![k] = "idle"] /\ carg' = [carg EXCEPT ![k] = NoRequest]
        /\ promise' = [promise EXCEPT ![r] = Row("cancelled", 0)]
    BY <1>5, <2>0 DEF CancelFulfill, SetValue, LaneInv, Cancellers
  <2>2. Settled(r)' /\ \A s \in Requests : Settled(s) => Settled(s)'
    <3>1. Row("cancelled", 0) # Empty
      BY DEF Row, Empty
    <3>2. \A s \in Requests : promise'[s] = IF s = r THEN Row("cancelled", 0) ELSE promise[s]
      BY <2>1
    <3> QED BY <3>1, <3>2 DEF Settled
  <2>3. \A s \in Requests : BeingCancelled(s) => BeingCancelled(s)' \/ s = r
    BY <2>1 DEF BeingCancelled
  <2>4. \A s \in Requests : InQueue(s) => InQueue(s)'
    BY <2>1 DEF InQueue
  <2>5. pc' = "clear" => Settled(item)'
    BY <2>1, <2>2 DEF Held, InLanesHands
  <2>6. CancelInHand'
    BY <2>1, <2>2, <2>3 DEF Held, CancelInHand
  <2>7. InLanesHands'
    BY <2>1, <2>2, <2>3, <2>4, <2>5 DEF Held, InLanesHands
  <2> QED BY <2>6, <2>7 DEF Held
<1>6. CASE WorkerPop
  <2>1. /\ UNCHANGED <<admission, tok, promise, cpc, carg>> /\ item = NoRequest
        /\ active' = TRUE /\ item' = Head(queue) /\ queue' = Tail(queue) /\ pc' = "begin"
        /\ queue \in Seq(Requests) /\ queue # <<>>
    BY <1>6 DEF WorkerPop, QueueType, requestVars, clientVars
  <2>2. \A r \in Requests : InQueue(r) => InQueue(r)' \/ item' = r
    <3>1. \A i \in DOMAIN queue : \/ queue[i] = item'
                                  \/ i - 1 \in DOMAIN queue' /\ queue'[i - 1] = queue[i]
      BY <2>1, TailKeeps
    <3> QED BY <3>1 DEF InQueue
  <2>3. \A r \in Requests : (BeingCancelled(r) => BeingCancelled(r)') /\ (Settled(r)' <=> Settled(r))
                            /\ item # r
    BY <2>1, LaneAssumption DEF Settled, BeingCancelled
  <2>4. CancelInHand'
    BY <2>1, <2>3 DEF Held, CancelInHand
  <2>5. InLanesHands'
    BY <2>1, <2>2, <2>3 DEF Held, InLanesHands
  <2> QED BY <2>4, <2>5 DEF Held
<1>7. CASE WorkerSkip \/ WorkerClear
  <2>1. /\ UNCHANGED <<admission, tok, promise, cpc, carg, queue>> /\ item \in Requests
        /\ item' = NoRequest /\ pc' = "loop"
    BY <1>7 DEF WorkerSkip, WorkerClear, requestVars, clientVars
  <2>2. Settled(item) \/ BeingCancelled(item)
    <3>1. CASE WorkerSkip
      <4>1. tok[item].phase = "Cancelled" /\ ~tok[item].cancellable
        BY <3>1 DEF WorkerSkip, BeginReturns, LaneInv, WorkerItem
      <4> QED BY <2>1, <4>1 DEF Held, CancelInHand
    <3>2. CASE WorkerClear
      BY <3>2 DEF WorkerClear, Held, InLanesHands
    <3> QED BY <1>7, <3>1, <3>2
  <2>3. \A r \in Requests : (BeingCancelled(r) => BeingCancelled(r)') /\ (Settled(r)' <=> Settled(r))
                            /\ (InQueue(r)' <=> InQueue(r))
    BY <2>1 DEF Settled, BeingCancelled, InQueue
  <2>4. CancelInHand'
    BY <2>1, <2>3 DEF Held, CancelInHand
  <2>5. InLanesHands'
    BY <2>1, <2>2, <2>3 DEF Held, InLanesHands
  <2> QED BY <2>4, <2>5 DEF Held
<1>8. CASE WorkerFulfill
  <2>1. /\ UNCHANGED <<admission, tok, item, cpc, carg, queue, active>> /\ item \in Requests
        /\ promise[item] = Empty
    <3>1. pc = "fulfill" /\ UNCHANGED <<admission, tok, item, cpc, carg, queue, active>>
      BY <1>8 DEF WorkerFulfill, clientVars
    <3>2. item \in Requests
      BY <3>1
    <3>3. promise[item] = Empty
      BY <3>1 DEF LaneInv, WorkerItem, InService
    <3> QED BY <3>1, <3>2, <3>3
  <2>2. Settled(item)' /\ \A r \in Requests : Settled(r) => Settled(r)'
    <3>1. res # Empty
      <4>1. res.status \in {"completed", "cancelled", "failed"}
        BY <1>8 DEF WorkerFulfill, LaneInv, WorkerItem
      <4> QED BY <4>1 DEF Row, Empty
    <3>2. \A r \in Requests : promise'[r] = IF r = item THEN res ELSE promise[r]
      BY <1>8, <2>1 DEF WorkerFulfill, SetValue
    <3> QED BY <2>1, <3>1, <3>2 DEF Settled
  <2>3. \A r \in Requests : (BeingCancelled(r) => BeingCancelled(r)') /\ (InQueue(r)' <=> InQueue(r))
    BY <2>1 DEF BeingCancelled, InQueue
  <2>4. CancelInHand'
    BY <2>1, <2>2, <2>3 DEF Held, CancelInHand
  <2>5. InLanesHands'
    BY <2>1, <2>2, <2>3 DEF Held, InLanesHands
  <2> QED BY <2>4, <2>5 DEF Held
<1>9. ASSUME NEW k \in Clients, NEW r \in Requests, NEW q \in Inputs,
             Submit(k, r, q) \/ TrySubmit(k, r, q)
      PROVE  Held'
  <2>1. UNCHANGED <<tok, promise, pc, item, active>> /\ cpc[k] = "idle"
    BY <1>9 DEF Submit, TrySubmit, CanSubmit
  <2>2. CASE Push(k, r, q)
    <3>1. /\ queue \in Seq(Requests) /\ queue' = Append(queue, r)
          /\ admission' = [admission EXCEPT ![r] = "admitted"]
          /\ cpc' = [cpc EXCEPT ![k] = "notify"] /\ carg' = [carg EXCEPT ![k] = r]
      BY <2>2 DEF Push, QueueType
    <3>2. /\ \A i \in DOMAIN queue : i \in DOMAIN queue' /\ queue'[i] = queue[i]
          /\ Len(queue) + 1 \in DOMAIN queue' /\ queue'[Len(queue) + 1] = r
      BY <3>1, AppendKeeps, SMTT(30)
    <3>4. InQueue(r)'
      BY <3>2 DEF InQueue
    <3>5. FulfillersStay
      BY <2>1, <3>1 DEF FulfillersStay
    <3>6. \A s \in Requests : admission'[s] = "admitted" => admission[s] = "admitted" \/ InQueue(s)'
      BY <3>1, <3>4
    <3> QED BY <2>1, <3>2, <3>5, <3>6, HeldPush
  <2>3. CASE ~Push(k, r, q)
    <3>1. /\ UNCHANGED <<queue, cpc, carg>>
          /\ admission' = [admission EXCEPT ![r] = "rejected"]
      BY <1>9, <2>3 DEF Submit, TrySubmit
    <3>2. \A s \in Requests : admission'[s] = "admitted" => admission[s] = "admitted"
      BY <3>1
    <3> QED BY <2>1, <3>1, <3>2, HeldPush DEF FulfillersStay
  <2> QED BY <2>2, <2>3
<1>10. ASSUME NEW k \in Clients, NEW g \in Groups, NEW q \in Inputs, SubmitBulk(k, g, q)
       PROVE  Held'
  <2>1. /\ UNCHANGED <<tok, promise, pc, item, active, carg>> /\ cpc[k] = "idle"
        /\ queue \in Seq(Requests) /\ g \in Seq(Requests) /\ queue' = queue \o g
        /\ cpc' = [cpc EXCEPT ![k] = "notify"]
        /\ \A s \in Requests : admission'[s] = "admitted" =>
              admission[s] = "admitted" \/ \E i \in DOMAIN g : g[i] = s
    BY <1>10, GroupsAreSequences DEF SubmitBulk, QueueType
  <2>2. /\ \A i \in DOMAIN queue : i \in DOMAIN queue' /\ queue'[i] = queue[i]
        /\ \A i \in DOMAIN g : Len(queue) + i \in DOMAIN queue' /\ queue'[Len(queue) + i] = g[i]
    <3>1. queue \in Seq(Requests) /\ g \in Seq(Requests) /\ queue' = queue \o g
      BY <2>1
    <3> HIDE DEF TypeOK, RequestTypes, ThreadTypes
    <3> QED BY ONLY <3>1, ConcatKeeps
  <2>4. \A s \in Requests : admission'[s] = "admitted" => admission[s] = "admitted" \/ InQueue(s)'
    <3> SUFFICES ASSUME NEW s \in Requests, NEW i \in DOMAIN g, g[i] = s
                 PROVE  InQueue(s)'
      BY <2>1
    <3> QED BY <2>2 DEF InQueue
  <2>5. FulfillersStay
    BY <2>1 DEF FulfillersStay
  <2> QED BY <2>1, <2>2, <2>4, <2>5, HeldPush
<1> QED
  BY <1>1, <1>2, <1>3, <1>4, <1>5, <1>6, <1>7, <1>8, <1>9, <1>10 DEF Next, Worker
-----------------------------------------------------------------------------
(* The order of pushes.                                                      *)

\* The worker has set the promise of s.
Past(s) == Settled(s) /\ promise[s] # Row("cancelled", 0)

\* The queue is in push order, behind the worker's item and the worker's past;
\* and the item comes after that past.
PushOrder ==
    /\ \A r \in Requests : enqueue_ns[r] <= now
    /\ \A i, j \in DOMAIN queue : i < j => enqueue_ns[queue[i]] < enqueue_ns[queue[j]]
    /\ \A s \in Requests : item = s \/ Past(s) =>
         \A i \in DOMAIN queue : enqueue_ns[s] < enqueue_ns[queue[i]]
    /\ \A s \in Requests : Past(s) /\ item # NoRequest /\ s # item =>
         enqueue_ns[s] < enqueue_ns[item]

\* A step that moves no request and adds at most the item to the worker's past.
LEMMA OrderFrame ==
  ASSUME PushOrder, UNCHANGED <<enqueue_ns, now, queue>>,
         item' = item \/ item' = NoRequest,
         \A s \in Requests : Past(s)' => Past(s) \/ item = s
  PROVE  PushOrder'
<1>1. \A s \in Requests : item' = s => item = s
  BY LaneAssumption
<1>2. \A s \in Requests : item' = s \/ Past(s)' =>
         \A i \in DOMAIN queue' : enqueue_ns'[s] < enqueue_ns'[queue'[i]]
  BY <1>1 DEF PushOrder
<1>3. \A s \in Requests : Past(s)' /\ item' # NoRequest /\ s # item' =>
         enqueue_ns'[s] < enqueue_ns'[item']
  BY DEF PushOrder
<1> QED BY <1>2, <1>3 DEF PushOrder

\* A group of new requests is pushed behind everything the lane has seen.
LEMMA OrderPush ==
  ASSUME PushOrder, TypeOK, TypeOK', LaneInv, UNCHANGED <<promise, item>>,
         NEW g \in Seq(Requests),
         \A i \in DOMAIN g : admission[g[i]] = "new" /\ enqueue_ns'[g[i]] = now + i,
         \A r \in Requests : admission[r] # "new" => enqueue_ns'[r] = enqueue_ns[r],
         \A r \in Requests : enqueue_ns'[r] = enqueue_ns[r] \/ \E i \in DOMAIN g : g[i] = r,
         now' = now + Len(g), queue' = queue \o g
  PROVE  PushOrder'
<1> DEFINE Old(i) == i \in DOMAIN queue /\ queue'[i] = queue[i]
           Fresh(i) == /\ i \notin DOMAIN queue /\ i - Len(queue) \in DOMAIN g
                       /\ queue'[i] = g[i - Len(queue)]
<1>1. /\ now \in Nat /\ queue \in Seq(Requests) /\ Len(queue) \in Nat /\ DOMAIN queue = 1..Len(queue)
      /\ Len(g) \in Nat /\ DOMAIN g = 1..Len(g) /\ item \in Requests \cup {NoRequest}
      /\ enqueue_ns \in [Requests -> Nat] /\ enqueue_ns' \in [Requests -> Nat]
  BY DEF TypeOK, RequestTypes, QueueType, ThreadTypes
<1>2. \A i \in DOMAIN queue' : i \in Int /\ (Old(i) \/ Fresh(i))
  BY <1>1, ConcatFacts
<1>3. \A i \in DOMAIN queue : queue[i] \in Requests /\ admission[queue[i]] = "admitted"
                              /\ enqueue_ns'[queue[i]] = enqueue_ns[queue[i]]
                              /\ enqueue_ns[queue[i]] <= now
  <2>1. \A i \in DOMAIN queue : queue[i] \in Requests /\ admission[queue[i]] = "admitted"
    BY <1>1 DEF LaneInv, QueueWaiting
  <2> QED BY <2>1 DEF PushOrder
<1>4. \A i \in DOMAIN queue' :
         \/ Old(i) /\ enqueue_ns'[queue'[i]] = enqueue_ns[queue[i]] /\ enqueue_ns[queue[i]] <= now
         \/ Fresh(i) /\ enqueue_ns'[queue'[i]] = now + (i - Len(queue)) /\ i - Len(queue) >= 1
  <2> SUFFICES ASSUME NEW i \in DOMAIN queue'
               PROVE  \/ /\ Old(i) /\ enqueue_ns'[queue'[i]] = enqueue_ns[queue[i]]
                         /\ enqueue_ns[queue[i]] <= now
                      \/ /\ Fresh(i) /\ enqueue_ns'[queue'[i]] = now + (i - Len(queue))
                         /\ i - Len(queue) >= 1
    OBVIOUS
  <2>1. CASE Old(i)
    BY <1>3, <2>1
  <2>2. CASE Fresh(i)
    <3>1. i - Len(queue) \in DOMAIN g /\ queue'[i] = g[i - Len(queue)] /\ Fresh(i)
      BY <2>2
    <3>2. enqueue_ns'[g[i - Len(queue)]] = now + (i - Len(queue))
      BY <3>1
    <3>3. i - Len(queue) >= 1
      BY <1>1, <3>1
    <3> HIDE DEF Old, Fresh
    <3> QED BY <3>1, <3>2, <3>3
  <2> QED BY <1>2, <2>1, <2>2
<1>5. \A s \in Requests : item = s \/ Past(s) =>
         enqueue_ns'[s] = enqueue_ns[s] /\ enqueue_ns[s] <= now
  <2> SUFFICES ASSUME NEW s \in Requests, item = s \/ Past(s)
               PROVE  enqueue_ns'[s] = enqueue_ns[s] /\ enqueue_ns[s] <= now
    OBVIOUS
  <2>1. admission[s] # "new"
    <3>1. CASE item = s
      BY <3>1, LaneAssumption DEF LaneInv, WorkerItem
    <3>2. CASE Past(s)
      BY <3>2 DEF Past, Settled, LaneInv, NewUntouched
    <3> QED BY <3>1, <3>2
  <2> QED BY <2>1 DEF PushOrder
<1>6. \A s \in Requests : Past(s)' <=> Past(s)
  BY DEF Past, Settled
<1>7. \A r \in Requests : enqueue_ns'[r] <= now'
  <2> SUFFICES ASSUME NEW r \in Requests PROVE enqueue_ns'[r] <= now'
    OBVIOUS
  <2>1. CASE enqueue_ns'[r] = enqueue_ns[r]
    BY <1>1, <2>1 DEF PushOrder
  <2>2. ASSUME NEW i \in DOMAIN g, g[i] = r PROVE enqueue_ns'[r] <= now'
    BY <1>1, <2>2
  <2> QED BY <2>1, <2>2
<1>8. \A i, j \in DOMAIN queue' : i < j => enqueue_ns'[queue'[i]] < enqueue_ns'[queue'[j]]
  <2> SUFFICES ASSUME NEW i \in DOMAIN queue', NEW j \in DOMAIN queue', i < j
               PROVE  enqueue_ns'[queue'[i]] < enqueue_ns'[queue'[j]]
    OBVIOUS
  <2>1. i \in Int /\ j \in Int
    BY <1>2
  <2>2. CASE Old(i) /\ Old(j)
    BY <1>3, <2>2 DEF PushOrder
  <2>3. CASE Old(i) /\ Fresh(j)
    <3>1. /\ enqueue_ns'[queue'[i]] = enqueue_ns[queue[i]] /\ enqueue_ns[queue[i]] <= now
          /\ enqueue_ns[queue[i]] \in Nat
          /\ enqueue_ns'[queue'[j]] = now + (j - Len(queue)) /\ j - Len(queue) >= 1
      BY <1>1, <1>3, <1>4, <2>3
    <3>2. now < now + (j - Len(queue))
      BY <1>1, <2>1, <3>1
    <3>3. PICK a \in Nat : a = enqueue_ns[queue[i]]
      BY <3>1
    <3>4. PICK b \in Int : b = now + (j - Len(queue))
      BY <1>1, <2>1
    <3>5. a <= now /\ now < b
      BY <3>1, <3>2, <3>3, <3>4
    <3>6. a < b
      BY <1>1, <3>5
    <3> QED BY <3>1, <3>3, <3>4, <3>6
  <2>4. CASE Fresh(i) /\ Old(j)
    <3>1. i - Len(queue) >= 1 /\ j <= Len(queue)
      BY <1>1, <2>4
    <3> QED BY <1>1, <2>1, <3>1
  <2>5. CASE Fresh(i) /\ Fresh(j)
    <3>1. /\ enqueue_ns'[queue'[i]] = now + (i - Len(queue))
          /\ enqueue_ns'[queue'[j]] = now + (j - Len(queue))
      BY <1>4, <2>5
    <3> QED BY <1>1, <2>1, <3>1
  <2> QED BY <1>2, <2>2, <2>3, <2>4, <2>5
<1>9. \A s \in Requests : item' = s \/ Past(s)' =>
         \A i \in DOMAIN queue' : enqueue_ns'[s] < enqueue_ns'[queue'[i]]
  <2> SUFFICES ASSUME NEW s \in Requests, item = s \/ Past(s), NEW i \in DOMAIN queue'
               PROVE  enqueue_ns'[s] < enqueue_ns'[queue'[i]]
    BY <1>6
  <2>1. CASE Old(i)
    BY <1>3, <1>5, <2>1 DEF PushOrder
  <2>2. CASE Fresh(i)
    <3>1. /\ enqueue_ns'[queue'[i]] = now + (i - Len(queue)) /\ i - Len(queue) >= 1
          /\ enqueue_ns'[s] <= now /\ enqueue_ns'[s] \in Nat /\ i \in Int
      BY <1>1, <1>2, <1>4, <1>5, <2>2
    <3> QED BY <1>1, <3>1
  <2> QED BY <1>2, <2>1, <2>2
<1>10. \A s \in Requests : Past(s)' /\ item' # NoRequest /\ s # item' =>
         enqueue_ns'[s] < enqueue_ns'[item']
  <2> SUFFICES ASSUME NEW s \in Requests, Past(s), item # NoRequest, s # item
               PROVE  enqueue_ns'[s] < enqueue_ns'[item]
    BY <1>6
  <2>1. item \in Requests
    BY <1>1
  <2>2. enqueue_ns'[item] = enqueue_ns[item] /\ enqueue_ns'[s] = enqueue_ns[s]
    BY <1>5, <2>1
  <2> QED BY <2>2 DEF PushOrder
<1> QED BY <1>7, <1>8, <1>9, <1>10 DEF PushOrder

\* The order of pushes survives every step.
LEMMA OrderStep == LaneInv /\ TypeOK /\ TypeOK' /\ PushOrder /\ [Next]_vars => PushOrder'
<1> SUFFICES ASSUME LaneInv, TypeOK, TypeOK', PushOrder, [Next]_vars PROVE PushOrder'
  OBVIOUS
<1>1. CASE \/ WorkerWait \/ WorkerExit \/ WorkerSkip \/ WorkerBegin \/ ServiceEntry \/ RunChunk
           \/ Boundary \/ MarkCompleted \/ WorkerClear \/ Dtor \/ UNCHANGED vars
  <2>1. UNCHANGED <<enqueue_ns, now, queue, promise>> /\ (item' = item \/ item' = NoRequest)
    BY <1>1 DEF WorkerWait, WorkerExit, WorkerSkip, WorkerBegin, ServiceEntry, RunChunk, Boundary,
                MarkCompleted, WorkerClear, Dtor, DtorStop, DtorNotify, DtorJoin, requestVars,
                workerVars, vars
  <2> QED BY <2>1, OrderFrame DEF Past, Settled
<1>2. ASSUME NEW k \in Clients, Notify(k) \/ \E r \in Requests : Cancel(k, r) PROVE PushOrder'
  <2>1. UNCHANGED <<enqueue_ns, now, queue, promise, item>>
    BY <1>2 DEF Notify, Cancel, requestVars
  <2> QED BY <2>1, OrderFrame DEF Past, Settled
<1>3. ASSUME NEW k \in Clients, CancelFulfill(k) PROVE PushOrder'
  <2>0. PICK r \in Requests : r = carg[k]
    BY <1>3 DEF CancelFulfill, LaneInv, Cancellers
  <2>1. /\ UNCHANGED <<enqueue_ns, now, queue, item>> /\ promise[r] = Empty
        /\ promise' = [promise EXCEPT ![r] = Row("cancelled", 0)]
    BY <1>3, <2>0 DEF CancelFulfill, SetValue, LaneInv, Cancellers
  <2>2. \A s \in Requests : promise'[s] = IF s = r THEN Row("cancelled", 0) ELSE promise[s]
    BY <2>1 DEF TypeOK, RequestTypes
  <2>3. \A s \in Requests : Past(s)' => Past(s)
    BY <2>2 DEF Past, Settled
  <2> QED BY <2>1, <2>3, OrderFrame
<1>4. CASE WorkerFulfill
  <2>1. UNCHANGED <<enqueue_ns, now, queue, item>>
    BY <1>4 DEF WorkerFulfill
  <2>2. \A s \in Requests : s # item => promise'[s] = promise[s]
    BY <1>4 DEF WorkerFulfill, SetValue, TypeOK, RequestTypes
  <2>3. \A s \in Requests : Past(s)' => Past(s) \/ item = s
    BY <2>2 DEF Past, Settled
  <2> QED BY <2>1, <2>3, OrderFrame
<1>5. CASE WorkerPop
  <2>1. /\ UNCHANGED <<enqueue_ns, now, promise>> /\ item = NoRequest
        /\ queue \in Seq(Requests) /\ queue # <<>>
        /\ item' = Head(queue) /\ queue' = Tail(queue)
    BY <1>5 DEF WorkerPop, requestVars, TypeOK, ThreadTypes, QueueType
  <2>2. /\ item' = queue[1] /\ 1 \in DOMAIN queue /\ item' \in Requests
        /\ \A i \in DOMAIN queue' : i + 1 \in DOMAIN queue /\ queue'[i] = queue[i + 1] /\ i >= 1 /\ i \in Int
    <3>1. \A i \in DOMAIN Tail(queue) : i >= 1
      BY <2>1
    <3> QED BY <2>1, <3>1, TailFacts
  <2>3. \A s \in Requests : Past(s)' <=> Past(s)
    BY <2>1 DEF Past, Settled
  <2>4. \A i, j \in DOMAIN queue' : i < j => enqueue_ns'[queue'[i]] < enqueue_ns'[queue'[j]]
    <3> SUFFICES ASSUME NEW i \in DOMAIN queue', NEW j \in DOMAIN queue', i < j
                 PROVE  enqueue_ns[queue[i + 1]] < enqueue_ns[queue[j + 1]]
      BY <2>1, <2>2
    <3>1. i + 1 < j + 1 /\ i + 1 \in DOMAIN queue /\ j + 1 \in DOMAIN queue
      BY <2>2
    <3> QED BY <3>1 DEF PushOrder
  <2>5. \A s \in Requests : item' = s \/ Past(s)' =>
           \A i \in DOMAIN queue' : enqueue_ns'[s] < enqueue_ns'[queue'[i]]
    <3> SUFFICES ASSUME NEW s \in Requests, item' = s \/ Past(s), NEW i \in DOMAIN queue'
                 PROVE  enqueue_ns[s] < enqueue_ns[queue[i + 1]]
      BY <2>1, <2>2, <2>3
    <3>1. i + 1 \in DOMAIN queue /\ 1 < i + 1
      BY <2>2
    <3> QED BY <2>2, <3>1 DEF PushOrder
  <2>6. \A s \in Requests : Past(s)' /\ item' # NoRequest /\ s # item' =>
           enqueue_ns'[s] < enqueue_ns'[item']
    BY <2>1, <2>2, <2>3 DEF PushOrder
  <2>7. \A r \in Requests : enqueue_ns'[r] <= now'
    BY <2>1 DEF PushOrder
  <2> QED BY <2>4, <2>5, <2>6, <2>7 DEF PushOrder
<1>6. ASSUME NEW k \in Clients, NEW r \in Requests, NEW q \in Inputs,
             Submit(k, r, q) \/ TrySubmit(k, r, q)
      PROVE  PushOrder'
  <2>1. UNCHANGED <<promise, item>> /\ admission[r] = "new"
    BY <1>6 DEF Submit, TrySubmit, CanSubmit
  <2>2. CASE Push(k, r, q)
    <3> DEFINE g == <<r>>
    <3>1. g \in Seq(Requests) /\ Len(g) = 1 /\ DOMAIN g = {1} /\ g[1] = r
      OBVIOUS
    <3>2. queue' = queue \o g
      BY <2>2 DEF Push, TypeOK, QueueType
    <3>3. now' = now + 1 /\ enqueue_ns' = [enqueue_ns EXCEPT ![r] = now + 1]
      BY <2>2 DEF Push
    <3>4. \A s \in Requests : enqueue_ns'[s] = IF s = r THEN now + 1 ELSE enqueue_ns[s]
      BY <3>3 DEF TypeOK, RequestTypes
    <3> HIDE DEF g
    <3>5. \A i \in DOMAIN g : admission[g[i]] = "new" /\ enqueue_ns'[g[i]] = now + i
      BY <2>1, <3>1, <3>4
    <3>6. /\ \A s \in Requests : admission[s] # "new" => enqueue_ns'[s] = enqueue_ns[s]
          /\ \A s \in Requests : enqueue_ns'[s] = enqueue_ns[s] \/ \E i \in DOMAIN g : g[i] = s
          /\ now' = now + Len(g)
      BY <2>1, <3>1, <3>3, <3>4
    <3> QED BY <2>1, <3>1, <3>2, <3>5, <3>6, OrderPush
  <2>3. CASE ~Push(k, r, q)
    <3>1. UNCHANGED <<enqueue_ns, now, queue>>
      BY <1>6, <2>3 DEF Submit, TrySubmit
    <3> QED BY <2>1, <3>1, OrderFrame DEF Past, Settled
  <2> QED BY <2>2, <2>3
<1>7. ASSUME NEW k \in Clients, NEW g \in Groups, NEW q \in Inputs, SubmitBulk(k, g, q)
      PROVE  PushOrder'
  <2>1. /\ UNCHANGED <<promise, item>> /\ now' = now + Len(g) /\ queue' = queue \o g
        /\ \A i \in DOMAIN g : admission[g[i]] = "new"
        /\ \A r \in Requests :
             enqueue_ns'[r] = IF \E i \in DOMAIN g : g[i] = r
                              THEN now + (CHOOSE i \in DOMAIN g : g[i] = r)
                              ELSE enqueue_ns[r]
    BY <1>7 DEF SubmitBulk
  <2>2. /\ g \in Seq(Requests) /\ \A i, j \in DOMAIN g : g[i] = g[j] => i = j
        /\ \A i \in DOMAIN g : g[i] \in Requests
    BY GroupsAreSequences
  <2>3. \A i \in DOMAIN g : (CHOOSE j \in DOMAIN g : g[j] = g[i]) = i
    <3> SUFFICES ASSUME NEW i \in DOMAIN g PROVE (CHOOSE j \in DOMAIN g : g[j] = g[i]) = i
      OBVIOUS
    <3>1. \A j \in DOMAIN g : g[j] = g[i] <=> j = i
      BY <2>2
    <3> QED BY <3>1
  <2>4. \A i \in DOMAIN g : enqueue_ns'[g[i]] = now + i
    BY <2>1, <2>2, <2>3
  <2>5. /\ \A r \in Requests : admission[r] # "new" => enqueue_ns'[r] = enqueue_ns[r]
        /\ \A r \in Requests : enqueue_ns'[r] = enqueue_ns[r] \/ \E i \in DOMAIN g : g[i] = r
    BY <2>1
  <2> QED BY <2>1, <2>2, <2>4, <2>5, OrderPush
<1> QED
  BY <1>1, <1>2, <1>3, <1>4, <1>5, <1>6, <1>7 DEF Next, Worker

\* The lane's second invariant: chunk counts, whose hands a request is in, and
\* the order of pushes.
OrderInv == Counted /\ Held /\ PushOrder

\* The second inductive invariant of the lane.
LEMMA OrderInvariant == Spec => []OrderInv
<1>1. Init => OrderInv
  <2> SUFFICES ASSUME Init PROVE OrderInv
    OBVIOUS
  <2>1. Counted
    BY DEF Init, Counted, ChunkCounter, RowsCounted, Empty, Row
  <2>2. Held
    BY DEF Init, Held, CancelInHand, InLanesHands, NewToken
  <2>3. PushOrder
    BY LaneAssumption DEF Init, PushOrder, Past, Settled
  <2> QED BY <2>1, <2>2, <2>3 DEF OrderInv
<1>2. LaneInv /\ TypeOK /\ TypeOK' /\ OrderInv /\ [Next]_vars => OrderInv'
  BY CountedStep, HeldStep, OrderStep DEF OrderInv
<1> QED BY <1>1, <1>2, TypeCorrect, LaneInvariant, PTL DEF Spec

\* "exactly one request at a time, in submission order" (service_lane.hpp): a
\* request the worker has started finds every earlier push settled, or in the
\* hands of the client that cancelled it in the queue.
THEOREM InSubmissionOrder == Spec => []SubmissionOrder
<1>1. TypeOK /\ LaneInv /\ OrderInv => SubmissionOrder
  <2> SUFFICES ASSUME TypeOK, LaneInv, OrderInv, NEW r \in Requests, NEW s \in Requests,
                      admission[r] = "admitted", enqueue_ns[r] < enqueue_ns[s],
                      StartedByWorker(s), ~(Settled(r) \/ BeingCancelled(r))
               PROVE  FALSE
    BY DEF SubmissionOrder
  <2>1. enqueue_ns[r] \in Nat /\ enqueue_ns[s] \in Nat /\ r # s
    BY DEF TypeOK, RequestTypes
  <2>2. item = s \/ Past(s)
    BY DEF StartedByWorker, Past
  <2>3. item = r \/ InQueue(r)
    BY DEF OrderInv, Held, InLanesHands
  <2>4. CASE InQueue(r)
    BY <2>1, <2>2, <2>4 DEF OrderInv, PushOrder, InQueue
  <2>5. CASE item = r
    BY <2>1, <2>2, <2>5, LaneAssumption DEF OrderInv, PushOrder
  <2> QED BY <2>3, <2>4, <2>5
<1> QED BY <1>1, TypeCorrect, LaneInvariant, OrderInvariant, PTL

\* What the lane reports: chunks_completed of every row is what the worker ran,
\* and a stats() snapshot with an empty queue and active_ FALSE leaves no
\* admitted request in the lane's hands.
THEOREM LaneReportsTrue == Spec => []ReportsTrue
<1>1. TypeOK /\ LaneInv /\ OrderInv => ChunksAccounted
  <2> SUFFICES ASSUME TypeOK, LaneInv, OrderInv PROVE ChunksAccounted
    OBVIOUS
  <2>1. pc \in {"fulfill", "clear"} => res.chunks_completed = c
    BY DEF OrderInv, Counted, ChunkCounter
  <2>2. ASSUME NEW r \in Requests
        PROVE  /\ promise[r].status = "completed" =>
                     /\ promise[r].chunks_completed >= 1
                     /\ promise[r].chunks_completed >= req[r].chunks
                     /\ req[r].chunks >= 1 => promise[r].chunks_completed = req[r].chunks
               /\ promise[r].status = "cancelled" =>
                     /\ promise[r].chunks_completed = 0 \/ promise[r].chunks_completed < req[r].chunks
                     /\ promise[r].chunks_completed = 0 <=> ~tok[r].cancellable
    <3>1. req[r].chunks \in Int
      BY DEF TypeOK, RequestTypes, Request
    <3>2. EffectiveChunks(r) = IF req[r].chunks < 1 THEN 1 ELSE req[r].chunks
      BY DEF EffectiveChunks
    <3>3. promise[r].status = "completed" => promise[r].chunks_completed = EffectiveChunks(r)
      BY DEF OrderInv, Counted, RowsCounted
    <3>4. promise[r].status = "cancelled" =>
              \/ promise[r].chunks_completed = 0 /\ ~tok[r].cancellable
              \/ /\ promise[r].chunks_completed >= 1
                 /\ promise[r].chunks_completed < EffectiveChunks(r)
                 /\ tok[r].cancellable
      BY DEF OrderInv, Counted, RowsCounted
    <3>5. promise[r].status = "cancelled" => promise[r].chunks_completed \in Nat
      BY DEF TypeOK, RequestTypes, ResultOrEmpty, Result, Empty, SetTwice, Row
    <3> QED BY <3>1, <3>2, <3>3, <3>4, <3>5
  <2> QED BY <2>1, <2>2 DEF ChunksAccounted
<1>2. OrderInv => IdleMeansSettled
  <2> SUFFICES ASSUME OrderInv, queue = <<>>, ~active, NEW r \in Requests, admission[r] = "admitted"
               PROVE  Settled(r) \/ BeingCancelled(r)
    BY DEF IdleMeansSettled
  <2>1. item = NoRequest /\ ~InQueue(r)
    BY DEF OrderInv, Held, InLanesHands, InQueue
  <2> QED BY <2>1, LaneAssumption DEF OrderInv, Held, InLanesHands
<1> QED BY <1>1, <1>2, TypeCorrect, LaneInvariant, OrderInvariant, PTL DEF ReportsTrue
=============================================================================
