------------------------- MODULE RuntimeLaneProofs -------------------------
(***************************************************************************)
(* Proofs about RuntimeLane, for every set of operations and clients, both *)
(* lane modes, and every cap on the queue and on the operations in flight. *)
(***************************************************************************)
EXTENDS RuntimeLane, FiniteSetTheorems, TLAPS

\* The consumer has begun r and not yet recorded it as in flight.
Window(r) == pc = "dispatch" /\ item = r

\* An operation that is running, or has not been retired.
Executing(r) == op[r] \notin {"idle", "done"}

\* A request nobody has submitted has left no trace.
NewUntouched(r) ==
    admission[r] # "admitted" =>
        /\ tok[r] = ArmedToken /\ promise[r] = "empty" /\ wins[r] = 0
        /\ op[r] = "idle" /\ c[r] = 0

\* What a token's phase says of the rest of its request.
TokenShape(r) ==
    /\ wins[r] = IF CancelSettled(tok[r]) THEN 1 ELSE 0
    /\ tok[r].phase = "Queued" => ~tok[r].cancellable /\ promise[r] = "empty" /\ op[r] = "idle"
    /\ tok[r].phase = "StopRequested" => tok[r].cancellable
    /\ tok[r].cancellable => itm[r].checkpoint_count > 1

\* The token, the promise and the body of an operation before and while it runs.
RunShape(r) ==
    /\ op[r] = "idle" =>
         /\ c[r] = 0
         /\ \/ /\ tok[r].phase \in {"Queued", "Cancelled"} /\ ~tok[r].cancellable
               /\ promise[r] \in {"empty", "cancelled"}
            \/ /\ Window(r)
               /\ tok[r].phase \in {"Running", "StopRequested"}
               /\ promise[r] = "empty"
    /\ op[r] \in {"body", "boundary"} =>
         /\ promise[r] = "empty"
         /\ tok[r].phase \in {"Running", "StopRequested"}
         /\ c[r] < itm[r].checkpoint_count
    /\ op[r] = "body" /\ c[r] + 1 = itm[r].checkpoint_count => ~tok[r].cancellable
    /\ op[r] = "mark" =>
         /\ promise[r] = "empty"
         /\ tok[r].phase \in {"Running", "StopRequested"}
         /\ res[r] \in {"completed", "failed"}
         /\ tok[r].cancellable => res[r] = "failed" /\ DispatchFaults

\* What the result of an operation says of its token.
OutcomeShape(r) ==
    /\ op[r] \in {"set", "retire", "done"} =>
         \/ res[r] = "completed" /\ tok[r].phase = "Completed"
         \/ res[r] = "cancelled" /\ tok[r].phase = "Cancelled" /\ tok[r].cancellable
         \/ /\ res[r] = "failed"
            /\ tok[r].phase = "Completed" \/ (DispatchFaults /\ tok[r].phase = "StopRequested")
    /\ op[r] = "set" => promise[r] = "empty"
    /\ op[r] \in {"retire", "done"} => promise[r] = res[r]

RequestInv ==
    \A r \in Requests : NewUntouched(r) /\ TokenShape(r) /\ RunShape(r) /\ OutcomeShape(r)

\* A queued cancel that was won and whose promise waits for its thread.
Won(r) ==
    /\ r \in Requests
    /\ admission[r] = "admitted"
    /\ tok[r].phase = "Cancelled" /\ ~tok[r].cancellable
    /\ promise[r] = "empty"
    /\ op[r] = "idle"

\* Each request is being cancelled by one thread at most.
Cancellers ==
    /\ \A k \in Clients : cpc[k] = "fulfill" => Won(carg[k])
    /\ \A k, m \in Clients :
         cpc[k] = "fulfill" /\ cpc[m] = "fulfill" /\ carg[k] = carg[m] => k = m
    /\ sd = "fulfill" =>
         /\ Won(Head(sdtoks))
         /\ \A k \in Clients : ~(cpc[k] = "fulfill" /\ carg[k] = Head(sdtoks))
    /\ \A i \in DOMAIN sdtoks : admission[sdtoks[i]] = "admitted"

\* How many requests the consumer has popped.
Popped == Len(pushed) - Len(queue)

\* The queue is what is left of the pushes; the item is the last one popped.
Positions ==
    /\ Len(queue) <= Len(pushed)
    /\ \A i, j \in DOMAIN pushed : pushed[i] = pushed[j] => i = j
    /\ \A i \in DOMAIN pushed : admission[pushed[i]] = "admitted"
    /\ \A r \in Requests : admission[r] = "admitted" => \E i \in DOMAIN pushed : pushed[i] = r
    /\ \A i \in DOMAIN queue : queue[i] = pushed[Popped + i]
    /\ \A i \in DOMAIN pushed : i > Popped => op[pushed[i]] = "idle"
    /\ item # NoRequest => Popped >= 1 /\ item = pushed[Popped]

\* The consumer's item at each control point.
WorkerShape ==
    /\ pc \in {"begin", "dispatch"} => op[item] = "idle"
    /\ pc = "dispatch" =>
         /\ ~Serial /\ itm[item].policy = "Async"
         /\ tok[item].phase \in {"Running", "StopRequested"} /\ promise[item] = "empty"
    /\ pc = "busy" => Executing(item) /\ (Serial \/ itm[item].policy = "Inline")
    /\ pc \in {"clear", "clear_active"} =>
         /\ Serial
         /\ \/ op[item] = "done"
            \/ op[item] = "idle" /\ tok[item].phase = "Cancelled" /\ ~tok[item].cancellable

\* The operations in flight.
InflightShape ==
    /\ inflight = Len(inflight_toks)
    /\ Serial => inflight_toks = <<>>
    /\ \A i, j \in DOMAIN inflight_toks : inflight_toks[i] = inflight_toks[j] => i = j
    /\ \A i \in DOMAIN inflight_toks :
         /\ Executing(inflight_toks[i])
         /\ itm[inflight_toks[i]].policy = "Async"
         /\ inflight_toks[i] # item
    /\ \A r \in Requests : Executing(r) =>
         (pc = "busy" /\ item = r) \/ \E i \in DOMAIN inflight_toks : inflight_toks[i] = r

\* active_ and active_tok_ of a serial lane follow the consumer.
ServiceSlot ==
    /\ active <=> Serial /\ item # NoRequest
    /\ active_tok = IF Serial /\ pc \in {"begin", "busy", "clear"} THEN item ELSE NoRequest

\* The consumer is done with every earlier push.
EarlierDone ==
    /\ \A i \in DOMAIN pushed : i <= Popped /\ pushed[i] # item =>
         \/ Settled(pushed[i]) \/ BeingCancelled(pushed[i])
         \/ ~Serial /\ op[pushed[i]] # "idle"
    /\ \A r \in Requests :
         tok[r].phase = "Cancelled" /\ ~tok[r].cancellable => Settled(r) \/ BeingCancelled(r)

InTeardown(r) == \E i \in DOMAIN sdtoks : sdtoks[i] = r

\* Cancelling now would do something.
Cancellable(r) == tok[r].phase = "Queued" \/ (tok[r].phase = "Running" /\ tok[r].cancellable)

\* The stages of a teardown, and what cancel_pending() still has to cancel.
TeardownShape ==
    /\ stop <=> sd \in {"notify", "join", "drain", "drain_wait", "done"}
    /\ stop => sdtoks = <<>>
    /\ pc = "exited" => stop /\ queue = <<>>
    /\ sd \in {"drain", "drain_wait"} => pc = "exited"
    /\ sd = "done" => pc = "exited" /\ inflight = 0
    /\ sd # "alive" =>
         /\ \A i \in DOMAIN queue : Cancellable(queue[i]) => InTeardown(queue[i])
         /\ Serial /\ item # NoRequest /\ Cancellable(item) => InTeardown(item)

\* The slots: the queue's cap and the in-flight cap.
Slots ==
    /\ QueueBounded
    /\ inflight <= MaxInflight
    /\ ~Serial /\ pc = "dispatch" => inflight < MaxInflight
    /\ ~Serial /\ pc = "begin" /\ tok[item].phase = "Queued" => inflight < MaxInflight

LaneInv == TypeOK /\ RequestInv /\ Cancellers /\ Positions /\ WorkerShape /\ InflightShape
           /\ ServiceSlot /\ EarlierDone /\ TeardownShape /\ Slots
-----------------------------------------------------------------------------
(* Facts about sequences.                                                   *)

LEMMA TailFacts ==
  ASSUME NEW S, NEW q \in Seq(S), q # <<>>
  PROVE  /\ Head(q) = q[1] /\ 1 \in DOMAIN q /\ Head(q) \in S
         /\ Tail(q) \in Seq(S) /\ Len(Tail(q)) = Len(q) - 1 /\ Len(q) \in Nat /\ Len(q) >= 1
         /\ DOMAIN Tail(q) = 1..(Len(q) - 1)
         /\ \A i \in DOMAIN Tail(q) : Tail(q)[i] = q[i + 1]
  OBVIOUS

\* Appending keeps what was there and adds the entry at the end.
LEMMA AppendFacts ==
  ASSUME NEW S, NEW q \in Seq(S), NEW e \in S
  PROVE  /\ Append(q, e) \in Seq(S) /\ Len(Append(q, e)) = Len(q) + 1
         /\ DOMAIN Append(q, e) = 1..(Len(q) + 1)
         /\ \A i \in 1..Len(q) : Append(q, e)[i] = q[i]
         /\ Append(q, e)[Len(q) + 1] = e
  OBVIOUS

\* Erasing one entry closes the gap.
LEMMA ErasedFacts ==
  ASSUME NEW S, NEW q \in Seq(S), NEW i \in DOMAIN q
  PROVE  /\ Erased(q, i) \in Seq(S) /\ Len(Erased(q, i)) = Len(q) - 1
         /\ DOMAIN Erased(q, i) = 1..(Len(q) - 1)
         /\ \A j \in 1..(Len(q) - 1) : Erased(q, i)[j] = IF j < i THEN q[j] ELSE q[j + 1]
<1>1. Len(q) \in Nat /\ DOMAIN q = 1..Len(q) /\ Len(q) - 1 \in Nat
  OBVIOUS
<1>2. \A j \in 1..(Len(q) - 1) : (IF j < i THEN q[j] ELSE q[j + 1]) \in S
  BY <1>1
<1>3. Erased(q, i) \in [1..(Len(q) - 1) -> S]
  BY <1>2 DEF Erased
<1>4. Erased(q, i) \in Seq(S)
  BY <1>1, <1>3
<1> QED BY <1>1, <1>3, <1>4 DEF Erased

\* What cancel_pending() collects is a sequence of requests.
LEMMA PendingTyped == LaneTypes => PendingTokens \in Seq(Requests)
<1> SUFFICES ASSUME LaneTypes PROVE PendingTokens \in Seq(Requests)
  OBVIOUS
<1>1. (IF active_tok = NoRequest THEN <<>> ELSE <<active_tok>>) \in Seq(Requests)
  BY DEF LaneTypes
<1> QED BY <1>1 DEF LaneTypes, PendingTokens
-----------------------------------------------------------------------------
(* Types.                                                                   *)

\* Counting one more keeps a table of counts.
LEMMA CountUp ==
  ASSUME NEW f \in [Requests -> Nat], NEW r \in Requests
  PROVE  [f EXCEPT ![r] = @ + 1] \in [Requests -> Nat]
OBVIOUS

\* The token's methods stay within the token's type.
LEMMA TokenClosed ==
  ASSUME NEW t \in Tokens
  PROVE  /\ Cancelled(t) \in Tokens
         /\ \A n \in Nat : Begun(t, n) \in Tokens
         /\ \A f \in BOOLEAN : AtBoundary(t, f) \in Tokens
         /\ Finished(t) \in Tokens
BY DEF Tokens, Phases, Cancelled, Begun, AtBoundary, Finished

\* A lane that has just been constructed is well typed.
LEMMA InitTyped == Init => TypeOK
<1> SUFFICES ASSUME Init PROVE TypeOK
  OBVIOUS
<1>1. RequestTypes
  BY DEF Init, RequestTypes, ArmedToken, Tokens, Phases, Statuses
<1>2. LaneTypes
  <2>1. mode \in Modes /\ queue \in Seq(Requests) /\ inflight_toks \in Seq(Requests)
        /\ inflight \in Int /\ active_tok \in Requests \cup {NoRequest}
    BY DEF Init
  <2>2. stop \in BOOLEAN /\ active \in BOOLEAN
    BY DEF Init
  <2> QED BY <2>1, <2>2 DEF LaneTypes
<1>3. ThreadTypes
  BY DEF Init, ThreadTypes, Statuses
<1> QED BY <1>1, <1>2, <1>3 DEF TypeOK

\* Every step keeps the types.
LEMMA TypeStep == TypeOK /\ [Next]_vars => TypeOK'
<1> SUFFICES ASSUME TypeOK, [Next]_vars PROVE TypeOK'
  OBVIOUS
<1> USE DEF TypeOK, RequestTypes, LaneTypes, ThreadTypes, requestVars, laneVars, opVars, clientVars,
            teardownVars
<1>1. CASE WorkerWait \/ WorkerExit
  BY <1>1 DEF WorkerWait, WorkerExit
<1>2. CASE WorkerPop
  <2>1. Head(queue) \in Requests /\ Tail(queue) \in Seq(Requests)
    BY <1>2, TailFacts DEF WorkerPop
  <2> QED BY <1>2, <2>1, RuntimeLaneAssumption DEF WorkerPop
<1>3. CASE WorkerSkip
  BY <1>3 DEF WorkerSkip
<1>4. CASE WorkerRun \/ WorkerBegin
  <2>1. item \in Requests
    BY <1>4 DEF WorkerRun, WorkerBegin
  <2>2. Begun(tok[item], itm[item].checkpoint_count) \in Tokens
    BY <2>1, TokenClosed
  <2>3. tok' \in [Requests -> Tokens]
    BY <1>4, <2>1, <2>2 DEF WorkerRun, WorkerBegin
  <2> QED BY <1>4, <2>3 DEF WorkerRun, WorkerBegin
<1>5. CASE WorkerDispatch
  <2>1. item \in Requests
    BY <1>5 DEF WorkerDispatch
  <2>2. Append(inflight_toks, item) \in Seq(Requests)
    BY <2>1
  <2> QED BY <1>5, <2>2, SMTT(30) DEF WorkerDispatch
<1>6. CASE WorkerRetire \/ WorkerClearTok \/ WorkerClearActive
  BY <1>6 DEF WorkerRetire, WorkerClearTok, WorkerClearActive
<1>7. ASSUME NEW r \in Requests, OpFail(r) \/ OpChunk(r) PROVE TypeOK'
  <2>r. RequestTypes'
    BY <1>7 DEF OpFail, OpChunk, Statuses
  <2>l. LaneTypes'
    BY <1>7 DEF OpFail, OpChunk, Statuses
  <2>t. ThreadTypes'
    <3>1. /\ op' \in [Requests -> {"idle", "body", "boundary", "mark", "set", "retire", "done"}]
          /\ c' \in [Requests -> Nat] /\ res' \in [Requests -> Statuses]
      <4>1. CASE OpFail(r)
        BY <4>1 DEF OpFail, Statuses
      <4>2. CASE OpChunk(r)
        <5>1. c' \in [Requests -> Nat]
          <6>1. c \in [Requests -> Nat] /\ c' = [c EXCEPT ![r] = @ + 1]
            BY <4>2 DEF OpChunk
          <6> QED BY <6>1, CountUp
        <5>2. op' \in [Requests -> {"idle", "body", "boundary", "mark", "set", "retire", "done"}]
          <6>1. op' = [op EXCEPT ![r] = "boundary"] \/ op' = [op EXCEPT ![r] = "mark"]
            BY <4>2 DEF OpChunk
          <6>2. CASE op' = [op EXCEPT ![r] = "boundary"]  BY <6>2
          <6>3. CASE op' = [op EXCEPT ![r] = "mark"]      BY <6>3
          <6> QED BY <6>1, <6>2, <6>3
        <5>3. res' \in [Requests -> Statuses]
          BY <4>2 DEF OpChunk, Statuses
        <5> QED BY <5>1, <5>2, <5>3
      <4> QED BY <1>7, <4>1, <4>2
    <3>2. UNCHANGED <<pc, item, cpc, carg, sd, sdtoks>>
      BY <1>7 DEF OpFail, OpChunk
    <3> QED BY <3>1, <3>2
  <2> QED BY <2>r, <2>l, <2>t
<1>8. ASSUME NEW r \in Requests, OpBoundary(r) \/ OpMark(r) PROVE TypeOK'
  <2>1. Finished(tok[r]) \in Tokens
    BY TokenClosed
  <2>2. AtBoundary(tok[r], c[r] = itm[r].checkpoint_count - 1) \in Tokens
    <3>1. (c[r] = itm[r].checkpoint_count - 1) \in BOOLEAN
      OBVIOUS
    <3> QED BY <3>1, TokenClosed
  <2>3. tok' \in [Requests -> Tokens]
    BY <1>8, <2>1, <2>2 DEF OpBoundary, OpMark
  <2>r. RequestTypes'
    BY <1>8, <2>3 DEF OpBoundary, OpMark, Statuses
  <2>l. LaneTypes'
    BY <1>8, <2>3 DEF OpBoundary, OpMark, Statuses
  <2>t. ThreadTypes'
    <3>1. /\ op' \in [Requests -> {"idle", "body", "boundary", "mark", "set", "retire", "done"}]
          /\ res' \in [Requests -> Statuses]
      BY <1>8, ZenonT(30) DEF OpBoundary, OpMark, Statuses
    <3>2. UNCHANGED <<pc, item, c, cpc, carg, sd, sdtoks>>
      BY <1>8 DEF OpBoundary, OpMark
    <3> QED BY <3>1, <3>2
  <2> QED BY <2>r, <2>l, <2>t
<1>9. ASSUME NEW r \in Requests, OpSet(r) PROVE TypeOK'
  BY <1>9, SMTT(30) DEF OpSet, SetValue, Statuses
<1>10. ASSUME NEW r \in Requests, OpRelease(r) PROVE TypeOK'
  <2>1. inflight_toks' \in Seq(Requests)
    BY <1>10, ErasedFacts DEF OpRelease, EraseToken
  <2>r. RequestTypes'
    BY <1>10, <2>1 DEF OpRelease, WakeConsumer
  <2>l. LaneTypes'
    BY <1>10, <2>1 DEF OpRelease, WakeConsumer
  <2>t. ThreadTypes'
    BY <1>10, <2>1 DEF OpRelease, WakeConsumer
  <2> QED BY <2>r, <2>l, <2>t
<1>11. CASE CancelPendingCollect
  BY <1>11, PendingTyped DEF CancelPendingCollect
<1>12. CASE CancelPendingNext
  <2>1. sdtoks # <<>> /\ Head(sdtoks) \in Requests /\ Tail(sdtoks) \in Seq(Requests)
    BY <1>12, TailFacts DEF CancelPendingNext
  <2>2. Cancelled(tok[Head(sdtoks)]) \in Tokens
    BY <2>1, TokenClosed
  <2>3. tok' \in [Requests -> Tokens] /\ wins' \in [Requests -> Nat]
    <3> DEFINE h == Head(sdtoks)
    <3>1. h \in Requests /\ Cancelled(tok[h]) \in Tokens
      BY <2>1, <2>2
    <3>2. \/ UNCHANGED <<tok, wins>>
          \/ tok' = [tok EXCEPT ![h] = Cancelled(@)] /\ wins' = [wins EXCEPT ![h] = @ + 1]
      BY <1>12 DEF CancelPendingNext
    <3> HIDE DEF h
    <3>3. tok \in [Requests -> Tokens] /\ wins \in [Requests -> Nat]
      OBVIOUS
    <3> HIDE DEF TypeOK, RequestTypes
    <3>4. tok' \in [Requests -> Tokens]
      BY <3>1, <3>2, <3>3
    <3>5. wins' \in [Requests -> Nat]
      BY <3>1, <3>2, <3>3
    <3> QED BY <3>4, <3>5
  <2>4. sdtoks' \in Seq(Requests) /\ sd' \in {"cancel", "fulfill"} /\ (sd' = "fulfill" => sdtoks' # <<>>)
    BY <1>12, <2>1 DEF CancelPendingNext
  <2> QED BY <1>12, <2>3, <2>4 DEF CancelPendingNext
<1>13. CASE CancelPendingFulfill
  <2>1. Head(sdtoks) \in Requests /\ Tail(sdtoks) \in Seq(Requests)
    BY <1>13, TailFacts DEF CancelPendingFulfill
  <2> QED BY <1>13, <2>1 DEF CancelPendingFulfill, SetValue, Statuses
<1>14. CASE StopSet \/ StopNotify \/ StopJoin \/ StopDrain
  BY <1>14 DEF StopSet, StopNotify, StopJoin, StopDrain, WakeConsumer
<1>15. ASSUME NEW k \in Clients, Notify(k) \/ CancelFulfill(k) PROVE TypeOK'
  <2>r. RequestTypes'
    BY <1>15, ZenonT(30) DEF Notify, CancelFulfill, WakeConsumer, SetValue, Statuses
  <2>l. LaneTypes'
    BY <1>15 DEF Notify, CancelFulfill, WakeConsumer, SetValue, Statuses
  <2>t. ThreadTypes'
    BY <1>15, ZenonT(30) DEF Notify, CancelFulfill, WakeConsumer, SetValue, Statuses
  <2> QED BY <2>r, <2>l, <2>t
<1>16. ASSUME NEW k \in Clients, NEW r \in Requests, Cancel(k, r) PROVE TypeOK'
  <2>1. tok' \in [Requests -> Tokens]
    BY <1>16, TokenClosed DEF Cancel
  <2>r. RequestTypes'
    <3>1. UNCHANGED <<admission, itm, promise, pushed>> /\ wins' = [wins EXCEPT ![r] = @ + 1]
      BY <1>16 DEF Cancel
    <3>2. wins' \in [Requests -> Nat]
      <4>1. wins \in [Requests -> Nat]
        OBVIOUS
      <4> HIDE DEF TypeOK, RequestTypes
      <4> QED BY <3>1, <4>1
    <3> QED BY <2>1, <3>1, <3>2
  <2>l. LaneTypes'
    BY <1>16, <2>1 DEF Cancel
  <2>t. ThreadTypes'
    BY <1>16, <2>1 DEF Cancel
  <2> QED BY <2>r, <2>l, <2>t
<1>17. ASSUME NEW k \in Clients, NEW r \in Requests, Reject(k, r) PROVE TypeOK'
  BY <1>17 DEF Reject
<1>18. ASSUME NEW k \in Clients, NEW r \in Requests, NEW i \in Items, Submit(k, r, i)
       PROVE  TypeOK'
  <2>1. i \in [checkpoint_count : Nat \ {0}, policy : {"Inline", "Async"}]
    BY RuntimeLaneAssumption
  <2>2. queue' \in Seq(Requests) /\ pushed' \in Seq(Requests)
    BY <1>18 DEF Submit, PushedBack
  <2> QED BY <1>18, <2>1, <2>2 DEF Submit
<1>19. CASE UNCHANGED vars
  BY <1>19, SMTT(30) DEF vars
<1> QED
  BY <1>1, <1>2, <1>3, <1>4, <1>5, <1>6, <1>7, <1>8, <1>9, <1>10, <1>11, <1>12, <1>13, <1>14, <1>15,
     <1>16, <1>17, <1>18, <1>19 DEF Next, Worker, Execution, Teardown

\* Every variable keeps its type.
THEOREM TypeCorrect == Spec => []TypeOK
BY InitTyped, TypeStep, PTL DEF Spec
-----------------------------------------------------------------------------
(* How each method changes the request it is called for.                    *)

\* The types of what belongs to one request.
LEMMA RequestTyped ==
  ASSUME TypeOK, NEW r \in Requests
  PROVE  /\ itm[r].checkpoint_count \in Nat /\ itm[r].checkpoint_count >= 1
         /\ itm[r].policy \in {"Inline", "Async"}
         /\ tok[r] \in Tokens /\ tok[r].phase \in Phases /\ tok[r].cancellable \in BOOLEAN
         /\ tok[r] = [phase |-> tok[r].phase, cancellable |-> tok[r].cancellable]
         /\ c[r] \in Nat
BY SMTT(30) DEF TypeOK, RequestTypes, ThreadTypes, Tokens

\* Requests are functions' points: what an EXCEPT changes and what it leaves.
LEMMA Points ==
  ASSUME TypeOK
  PROVE  /\ DOMAIN admission = Requests /\ DOMAIN itm = Requests /\ DOMAIN tok = Requests
         /\ DOMAIN promise = Requests /\ DOMAIN wins = Requests
         /\ DOMAIN op = Requests /\ DOMAIN c = Requests /\ DOMAIN res = Requests
         /\ DOMAIN cpc = Clients /\ DOMAIN carg = Clients
         /\ admission = [r \in Requests |-> admission[r]] /\ itm = [r \in Requests |-> itm[r]]
         /\ tok = [r \in Requests |-> tok[r]] /\ promise = [r \in Requests |-> promise[r]]
         /\ wins = [r \in Requests |-> wins[r]] /\ op = [r \in Requests |-> op[r]]
         /\ c = [r \in Requests |-> c[r]] /\ res = [r \in Requests |-> res[r]]
         /\ cpc = [k \in Clients |-> cpc[k]] /\ carg = [k \in Clients |-> carg[k]]
<1>1. /\ admission \in [Requests -> {"new", "admitted", "rejected"}]
      /\ itm \in [Requests -> [checkpoint_count : Nat \ {0}, policy : {"Inline", "Async"}]]
      /\ tok \in [Requests -> Tokens] /\ promise \in [Requests -> Statuses]
      /\ wins \in [Requests -> Nat]
  BY DEF TypeOK, RequestTypes
<1>2. /\ op \in [Requests -> {"idle", "body", "boundary", "mark", "set", "retire", "done"}]
      /\ c \in [Requests -> Nat] /\ res \in [Requests -> Statuses]
      /\ cpc \in [Clients -> {"idle", "notify", "fulfill"}]
      /\ carg \in [Clients -> Requests \cup {NoRequest}]
  BY DEF TypeOK, ThreadTypes
<1> QED BY <1>1, <1>2

RequestOK(r) == NewUntouched(r) /\ TokenShape(r) /\ RunShape(r) /\ OutcomeShape(r)

\* A step leaves one request alone.
Untouched(r) ==
    /\ admission'[r] = "admitted" <=> admission[r] = "admitted"
    /\ itm'[r] = itm[r] /\ tok'[r] = tok[r] /\ promise'[r] = promise[r] /\ wins'[r] = wins[r]
    /\ op'[r] = op[r] /\ c'[r] = c[r] /\ res'[r] = res[r]
    /\ Window(r) => pc' = "dispatch" /\ item' = r

\* A request that a step leaves alone keeps its invariant.
LEMMA RequestFrame ==
  ASSUME NEW r \in Requests, RequestOK(r), Untouched(r)
  PROVE  RequestOK(r)'
<1>1. NewUntouched(r)' /\ TokenShape(r)' /\ OutcomeShape(r)'
  BY DEF RequestOK, Untouched, NewUntouched, TokenShape, OutcomeShape
<1>2. RunShape(r)'
  BY DEF RequestOK, Untouched, RunShape, Window
<1> QED BY <1>1, <1>2 DEF RequestOK

\* A step that touches one request keeps the invariant when it keeps that one's.
LEMMA OneRequest ==
  ASSUME RequestInv, NEW r \in Requests, RequestOK(r)',
         \A s \in Requests : s # r => Untouched(s)
  PROVE  RequestInv'
BY RequestFrame DEF RequestInv, RequestOK

\* A step that touches no request.
LEMMA NoRequestTouched ==
  ASSUME RequestInv, \A s \in Requests : Untouched(s)
  PROVE  RequestInv'
BY RequestFrame DEF RequestInv, RequestOK

\* A cancel() that returned true.
LEMMA CancelledRequest ==
  ASSUME TypeOK, RequestInv, NEW r \in Requests, admission[r] = "admitted",
         CancelSucceeds(tok[r]),
         tok' = [tok EXCEPT ![r] = Cancelled(@)], wins' = [wins EXCEPT ![r] = @ + 1],
         UNCHANGED <<admission, itm, promise, op, c, res, pc, item>>
  PROVE  RequestInv'
<1>1. /\ tok'[r] = Cancelled(tok[r]) /\ wins'[r] = wins[r] + 1
      /\ \A s \in Requests : s # r => tok'[s] = tok[s] /\ wins'[s] = wins[s]
  BY Points
<1>2. \A s \in Requests : s # r => Untouched(s)
  BY <1>1 DEF Untouched, Window
<1>3. RequestOK(r)
  BY DEF RequestInv, RequestOK
<1>4. CASE CancelFulfills(tok[r])
  <2>1. /\ tok[r].phase = "Queued" /\ tok'[r].phase = "Cancelled"
        /\ tok'[r].cancellable = tok[r].cancellable
    BY <1>1, <1>4 DEF CancelFulfills, Cancelled
  <2>2. wins[r] = 0 /\ ~tok[r].cancellable /\ promise[r] = "empty" /\ op[r] = "idle" /\ c[r] = 0
    BY <1>3, <2>1 DEF RequestOK, TokenShape, RunShape, CancelSettled
  <2>3. RequestOK(r)'
    BY <1>1, <2>1, <2>2 DEF RequestOK, NewUntouched, TokenShape, RunShape, OutcomeShape, CancelSettled
  <2> QED BY <1>2, <2>3, OneRequest
<1>5. CASE ~CancelFulfills(tok[r])
  <2>1. /\ tok[r].phase = "Running" /\ tok[r].cancellable
        /\ tok'[r].phase = "StopRequested" /\ tok'[r].cancellable
    BY <1>1, <1>5 DEF CancelSucceeds, CancelFulfills, Cancelled
  <2>2. wins[r] = 0
    BY <1>3, <2>1 DEF RequestOK, TokenShape, CancelSettled
  <2>3. NewUntouched(r)' /\ TokenShape(r)'
    BY <1>1, <1>3, <2>1, <2>2 DEF RequestOK, NewUntouched, TokenShape, CancelSettled
  <2>4. RunShape(r)'
    BY <1>3, <2>1 DEF RequestOK, RunShape, Window
  <2>5. OutcomeShape(r)'
    BY <1>3, <2>1 DEF RequestOK, OutcomeShape
  <2>6. RequestOK(r)'
    BY <2>3, <2>4, <2>5 DEF RequestOK
  <2> QED BY <1>2, <2>6, OneRequest
<1> QED BY <1>4, <1>5

\* A queued cancel sets the promise it has won.
LEMMA FulfilledRequest ==
  ASSUME TypeOK, RequestInv, NEW r \in Requests, Won(r), SetValue(r, "cancelled"),
         UNCHANGED <<admission, itm, tok, wins, op, c, res, pc, item>>
  PROVE  RequestInv'
<1>1. promise'[r] = "cancelled" /\ \A s \in Requests : s # r => promise'[s] = promise[s]
  BY Points DEF Won, SetValue
<1>2. \A s \in Requests : s # r => Untouched(s)
  BY <1>1 DEF Untouched, Window
<1>3. RequestOK(r)
  BY DEF RequestInv, RequestOK
<1>4. NewUntouched(r)' /\ TokenShape(r)' /\ OutcomeShape(r)'
  BY <1>1, <1>3 DEF RequestOK, NewUntouched, TokenShape, OutcomeShape, Won
<1>5. RunShape(r)'
  BY <1>1, <1>3 DEF RequestOK, RunShape, Won, Window
<1> QED BY <1>2, <1>4, <1>5, OneRequest DEF RequestOK

\* begin_service() of the consumer's item: op stays idle or enters the body.
LEMMA BegunRequest ==
  ASSUME TypeOK, RequestInv, NEW r \in Requests, item = r, op[r] = "idle", pc = "begin",
         MayBegin(tok[r]), admission[r] = "admitted",
         tok' = [tok EXCEPT ![r] = Begun(@, itm[r].checkpoint_count)],
         \/ op' = [op EXCEPT ![r] = "body"]
         \/ (op' = op /\ pc' = "dispatch"),
         UNCHANGED <<admission, itm, promise, wins, c, res, item>>
  PROVE  RequestInv'
<1>1. /\ tok'[r].phase = "Running" /\ (tok'[r].cancellable <=> itm[r].checkpoint_count > 1)
      /\ \A s \in Requests : s # r => tok'[s] = tok[s] /\ op'[s] = op[s]
      /\ op'[r] = "body" \/ (op'[r] = "idle" /\ Window(r)')
  <2>1. op'[r] = "body" \/ (op'[r] = "idle" /\ Window(r)')
    <3>1. CASE op' = [op EXCEPT ![r] = "body"]
      BY <3>1, Points
    <3>2. CASE op' = op /\ pc' = "dispatch"
      BY <3>2 DEF Window
    <3> QED BY <3>1, <3>2
  <2> QED BY <2>1, Points DEF Begun
<1>2. \A s \in Requests : s # r => Untouched(s)
  BY <1>1 DEF Untouched, Window
<1>3. RequestOK(r)
  BY DEF RequestInv, RequestOK
<1>4. tok[r].phase = "Queued" /\ promise[r] = "empty" /\ c[r] = 0 /\ wins[r] = 0
  BY <1>3 DEF RequestOK, TokenShape, RunShape, Window, MayBegin, CancelSettled
<1>5. itm[r].checkpoint_count \in Nat /\ itm[r].checkpoint_count >= 1
  BY RequestTyped
<1>6. NewUntouched(r)' /\ OutcomeShape(r)'
  BY <1>1, <1>3, <1>4 DEF RequestOK, NewUntouched, OutcomeShape
<1>7. TokenShape(r)'
  BY <1>1, <1>4 DEF TokenShape, CancelSettled
<1>8. RunShape(r)'
  BY <1>1, <1>4, <1>5 DEF RunShape
<1> QED BY <1>2, <1>6, <1>7, <1>8, OneRequest DEF RequestOK

\* The body, the checkpoints and the outcome of one operation.
LEMMA ExecutedRequest ==
  ASSUME TypeOK, RequestInv, NEW r \in Requests,
         OpFail(r) \/ OpChunk(r) \/ OpBoundary(r) \/ OpMark(r) \/ OpSet(r)
  PROVE  RequestInv'
<1>1. UNCHANGED <<admission, itm, wins, pc, item>>
  BY DEF OpFail, OpChunk, OpBoundary, OpMark, OpSet, requestVars
<1>2. \A s \in Requests : s # r => /\ tok'[s] = tok[s] /\ promise'[s] = promise[s]
                                   /\ op'[s] = op[s] /\ c'[s] = c[s] /\ res'[s] = res[s]
  BY Points DEF OpFail, OpChunk, OpBoundary, OpMark, OpSet, SetValue, requestVars
<1>3. \A s \in Requests : s # r => Untouched(s)
  BY <1>1, <1>2 DEF Untouched, Window
<1>4. RequestOK(r)
  BY DEF RequestInv, RequestOK
<1>5. /\ itm[r].checkpoint_count \in Nat /\ itm[r].checkpoint_count >= 1 /\ c[r] \in Nat
      /\ tok[r].cancellable \in BOOLEAN
  BY RequestTyped
<1>6. admission[r] = "admitted"
  BY <1>4 DEF RequestOK, NewUntouched, OpFail, OpChunk, OpBoundary, OpMark, OpSet
<1>7. CASE OpFail(r)
  <2>1. /\ op[r] = "body" /\ c[r] = 0 /\ (itm[r].checkpoint_count = 1 \/ DispatchFaults)
        /\ op'[r] = "mark" /\ res'[r] = "failed"
        /\ UNCHANGED <<tok, promise, c>>
    BY <1>7, Points DEF OpFail, requestVars
  <2>2. NewUntouched(r)' /\ TokenShape(r)' /\ OutcomeShape(r)'
    BY <1>1, <1>4, <1>6, <2>1 DEF RequestOK, NewUntouched, TokenShape, OutcomeShape
  <2>3. RunShape(r)'
    BY <1>1, <1>4, <1>5, <2>1 DEF RequestOK, RunShape
  <2> QED BY <1>3, <2>2, <2>3, OneRequest DEF RequestOK
<1>8. CASE OpChunk(r)
  <2>1. /\ op[r] = "body" /\ c'[r] = c[r] + 1
        /\ \/ c[r] + 1 < itm[r].checkpoint_count /\ op'[r] = "boundary" /\ res'[r] = res[r]
           \/ c[r] + 1 >= itm[r].checkpoint_count /\ op'[r] = "mark" /\ res'[r] = "completed"
        /\ UNCHANGED <<tok, promise>>
    BY <1>5, <1>8, Points DEF OpChunk, requestVars
  <2>2. NewUntouched(r)' /\ TokenShape(r)' /\ OutcomeShape(r)'
    BY <1>1, <1>4, <1>6, <2>1 DEF RequestOK, NewUntouched, TokenShape, OutcomeShape
  <2>3. /\ promise[r] = "empty" /\ tok[r].phase \in {"Running", "StopRequested"}
        /\ c[r] < itm[r].checkpoint_count
        /\ c[r] + 1 = itm[r].checkpoint_count => ~tok[r].cancellable
    BY <1>4, <2>1 DEF RequestOK, RunShape
  <2>4. RunShape(r)'
    BY <1>1, <1>5, <2>1, <2>3 DEF RunShape
  <2> QED BY <1>3, <2>2, <2>4, OneRequest DEF RequestOK
<1>9. CASE OpBoundary(r)
  <2> DEFINE last == c[r] = itm[r].checkpoint_count - 1
  <2>1. /\ op[r] = "boundary" /\ UNCHANGED <<promise, c>>
        /\ tok'[r] = AtBoundary(tok[r], last)
    BY <1>9, Points DEF OpBoundary
  <2>2. /\ promise[r] = "empty" /\ tok[r].phase \in {"Running", "StopRequested"}
        /\ c[r] < itm[r].checkpoint_count
        /\ wins[r] = IF CancelSettled(tok[r]) THEN 1 ELSE 0
        /\ tok[r].phase = "StopRequested" => tok[r].cancellable
        /\ tok[r].cancellable => itm[r].checkpoint_count > 1
    BY <1>4, <2>1 DEF RequestOK, RunShape, TokenShape
  <2>3. CASE MustStop(tok[r])
    <3>1. op'[r] = "set" /\ res'[r] = "cancelled"
      BY <1>9, <2>3, Points DEF OpBoundary
    <3>2. tok'[r].phase = "Cancelled" /\ (tok'[r].cancellable <=> tok[r].cancellable)
          /\ tok[r].phase = "StopRequested"
      BY <2>1, <2>3 DEF AtBoundary, MustStop
    <3>3. NewUntouched(r)' /\ OutcomeShape(r)'
      BY <1>1, <1>6, <2>1, <2>2, <3>1, <3>2 DEF NewUntouched, OutcomeShape
    <3>4. TokenShape(r)'
      BY <1>1, <2>2, <3>2 DEF TokenShape, CancelSettled
    <3>5. RunShape(r)'
      BY <3>1 DEF RunShape
    <3> QED BY <1>3, <3>3, <3>4, <3>5, OneRequest DEF RequestOK
  <2>4. CASE ~MustStop(tok[r])
    <3>1. op'[r] = "body" /\ res'[r] = res[r]
      BY <1>9, <2>4, Points DEF OpBoundary
    <3>2. tok'[r].phase = "Running" /\ tok[r].phase = "Running"
          /\ (tok'[r].cancellable <=> tok[r].cancellable /\ ~last)
      <4>1. tok'[r] = [phase |-> tok[r].phase, cancellable |-> tok[r].cancellable /\ ~last]
        BY <2>1, <2>4 DEF AtBoundary
      <4>2. tok[r].phase = "Running"
        BY <2>2, <2>4 DEF MustStop
      <4> HIDE DEF last
      <4>3. tok'[r].phase = "Running"
        BY <4>1, <4>2
      <4>4. tok'[r].cancellable <=> tok[r].cancellable /\ ~last
        <5>1. CASE last
          <6>1. (tok[r].cancellable /\ ~last) = FALSE
            BY <5>1
          <6>2. tok'[r] = [phase |-> tok[r].phase, cancellable |-> FALSE]
            BY <4>1, <6>1, Zenon
          <6> QED BY <5>1, <6>2
        <5>2. CASE ~last
          <6>1. (tok[r].cancellable /\ ~last) = tok[r].cancellable
            BY <1>5, <5>2
          <6>2. tok'[r] = [phase |-> tok[r].phase, cancellable |-> tok[r].cancellable]
            BY <4>1, <6>1, Zenon
          <6> QED BY <5>2, <6>2
        <5> QED BY <5>1, <5>2
      <4> QED BY <4>2, <4>3, <4>4
    <3>3. NewUntouched(r)' /\ OutcomeShape(r)'
      BY <1>1, <1>6, <3>1 DEF NewUntouched, OutcomeShape
    <3>4. TokenShape(r)'
      BY <1>1, <2>2, <3>2 DEF TokenShape, CancelSettled
    <3>5. RunShape(r)'
      BY <1>1, <1>5, <2>1, <2>2, <3>1, <3>2 DEF RunShape
    <3> QED BY <1>3, <3>3, <3>4, <3>5, OneRequest DEF RequestOK
  <2> QED BY <2>3, <2>4
<1>10. CASE OpMark(r)
  <2>1. /\ op[r] = "mark" /\ op'[r] = "set" /\ UNCHANGED <<promise, c, res>>
        /\ tok'[r].phase = IF tok[r].phase = "Running" THEN "Completed" ELSE tok[r].phase
        /\ tok'[r].cancellable <=> tok[r].cancellable
    BY <1>10, Points DEF OpMark, Finished
  <2>2. /\ promise[r] = "empty" /\ tok[r].phase \in {"Running", "StopRequested"}
        /\ res[r] \in {"completed", "failed"}
        /\ tok[r].cancellable => res[r] = "failed" /\ DispatchFaults
        /\ wins[r] = IF CancelSettled(tok[r]) THEN 1 ELSE 0
        /\ tok[r].phase = "StopRequested" => tok[r].cancellable
        /\ tok[r].cancellable => itm[r].checkpoint_count > 1
    BY <1>4, <2>1 DEF RequestOK, RunShape, TokenShape
  <2>3. NewUntouched(r)' /\ OutcomeShape(r)'
    BY <1>1, <1>6, <2>1, <2>2 DEF NewUntouched, OutcomeShape
  <2>4. TokenShape(r)'
    BY <1>1, <2>1, <2>2 DEF TokenShape, CancelSettled
  <2>5. RunShape(r)'
    BY <2>1 DEF RunShape
  <2> QED BY <1>3, <2>3, <2>4, <2>5, OneRequest DEF RequestOK
<1>11. CASE OpSet(r)
  <2>1. /\ op[r] = "set" /\ op'[r] = "retire" /\ UNCHANGED <<tok, c, res>>
        /\ promise[r] = "empty"
    BY <1>4, <1>11, Points DEF OpSet, RequestOK, OutcomeShape
  <2>2. promise'[r] = res[r]
    BY <1>11, <2>1, Points DEF OpSet, SetValue
  <2>3. NewUntouched(r)' /\ OutcomeShape(r)'
    BY <1>1, <1>4, <1>6, <2>1, <2>2 DEF RequestOK, NewUntouched, OutcomeShape
  <2>4. TokenShape(r)'
    BY <1>1, <1>4, <2>1, <2>2 DEF RequestOK, TokenShape
  <2>5. RunShape(r)'
    BY <2>1 DEF RunShape
  <2> QED BY <1>3, <2>3, <2>4, <2>5, OneRequest DEF RequestOK
<1> QED BY <1>7, <1>8, <1>9, <1>10, <1>11

\* The consumer, or the continuation, retires an operation.
LEMMA RetiredRequest ==
  ASSUME TypeOK, RequestInv, NEW r \in Requests, op[r] = "retire",
         op' = [op EXCEPT ![r] = "done"], pc # "dispatch" \/ UNCHANGED <<pc, item>>,
         UNCHANGED <<admission, itm, tok, promise, wins, c, res>>
  PROVE  RequestInv'
<1>1. op'[r] = "done" /\ \A s \in Requests : s # r => op'[s] = op[s]
  BY Points
<1>2. \A s \in Requests : s # r => Untouched(s)
  BY <1>1 DEF Untouched, Window
<1>3. RequestOK(r)
  BY DEF RequestInv, RequestOK
<1>4. NewUntouched(r)' /\ TokenShape(r)' /\ OutcomeShape(r)'
  BY <1>1, <1>3 DEF RequestOK, NewUntouched, TokenShape, OutcomeShape
<1>5. RunShape(r)'
  BY <1>1 DEF RunShape
<1> QED BY <1>2, <1>4, <1>5, OneRequest DEF RequestOK
-----------------------------------------------------------------------------
(* Every step keeps the invariant of the requests.                          *)

\* Steps that leave every request alone.
QuietNext ==
    \/ WorkerWait \/ WorkerExit \/ WorkerPop \/ WorkerSkip \/ WorkerClearTok \/ WorkerClearActive
    \/ CancelPendingCollect \/ StopSet \/ StopNotify \/ StopJoin \/ StopDrain
    \/ \E k \in Clients : Notify(k) \/ \E r \in Requests : Reject(k, r)
    \/ UNCHANGED vars

\* Steps that concern the request r.
NextOf(r) ==
    \/ \E k \in Clients : (\E i \in Items : Submit(k, r, i)) \/ Cancel(k, r)
    \/ \E k \in Clients : CancelFulfill(k) /\ carg[k] = r
    \/ Execution(r)
    \/ item = r /\ (WorkerRun \/ WorkerBegin \/ WorkerDispatch \/ WorkerRetire)
    \/ sdtoks # <<>> /\ Head(sdtoks) = r /\ (CancelPendingNext \/ CancelPendingFulfill)

\* Every step is quiet or concerns one request.
LEMMA StepKinds ==
  ASSUME TypeOK, [Next]_vars, Cancellers
  PROVE  QuietNext \/ \E r \in Requests : NextOf(r)
<1>1. ASSUME NEW k \in Clients, CancelFulfill(k) PROVE \E r \in Requests : NextOf(r)
  <2>1. carg[k] \in Requests
    BY <1>1 DEF CancelFulfill, Cancellers, Won
  <2> QED BY <1>1, <2>1 DEF NextOf
<1>2. CASE WorkerRun \/ WorkerBegin \/ WorkerDispatch \/ WorkerRetire
  <2>1. item \in Requests
    BY <1>2 DEF TypeOK, ThreadTypes, WorkerRun, WorkerBegin, WorkerDispatch, WorkerRetire
  <2> QED BY <1>2, <2>1 DEF NextOf
<1>3. CASE CancelPendingNext \/ CancelPendingFulfill
  <2>1. sdtoks # <<>>
    BY <1>3 DEF CancelPendingNext, CancelPendingFulfill, TypeOK, ThreadTypes
  <2>2. sdtoks \in Seq(Requests)
    BY DEF TypeOK, ThreadTypes
  <2>3. Head(sdtoks) \in Requests
    BY <2>1, <2>2, TailFacts
  <2> QED BY <1>3, <2>1, <2>3 DEF NextOf
<1>4. CASE Worker
  BY <1>2, <1>4 DEF Worker, QuietNext
<1>5. CASE CancelPendingCollect \/ UNCHANGED vars
  BY <1>5 DEF QuietNext
<1>6. CASE Teardown
  BY <1>3, <1>6 DEF Teardown, QuietNext
<1>7. ASSUME NEW r \in Requests, Execution(r) PROVE NextOf(r)
  BY <1>7 DEF NextOf
<1>8. ASSUME NEW k \in Clients, Notify(k) \/ \E r \in Requests : Reject(k, r)
      PROVE  QuietNext
  BY <1>8 DEF QuietNext
<1>9. ASSUME NEW k \in Clients, NEW r \in Requests,
             Cancel(k, r) \/ \E i \in Items : Submit(k, r, i)
      PROVE  NextOf(r)
  BY <1>9 DEF NextOf
<1> QED BY <1>1, <1>4, <1>5, <1>6, <1>7, <1>8, <1>9 DEF Next

\* A quiet step leaves every request alone.
LEMMA QuietUntouched ==
  ASSUME TypeOK, QuietNext, NEW s \in Requests
  PROVE  Untouched(s)
<1>1. ASSUME UNCHANGED <<admission, itm, tok, promise, wins, op, c, res>>,
             Window(s) => UNCHANGED <<pc, item>>
      PROVE  Untouched(s)
  BY <1>1 DEF Untouched, Window
<1>2. CASE WorkerWait \/ WorkerExit \/ WorkerPop \/ WorkerSkip \/ WorkerClearTok \/ WorkerClearActive
  BY <1>1, <1>2 DEF WorkerWait, WorkerExit, WorkerPop, WorkerSkip, WorkerClearTok, WorkerClearActive,
                    Window, requestVars, opVars
<1>3. CASE CancelPendingCollect \/ StopSet \/ StopNotify \/ StopJoin \/ StopDrain
  BY <1>1, <1>3 DEF CancelPendingCollect, StopSet, StopNotify, StopJoin, StopDrain, WakeConsumer,
                    Window, requestVars, opVars
<1>4. ASSUME NEW k \in Clients, Notify(k) PROVE Untouched(s)
  BY <1>1, <1>4 DEF Notify, WakeConsumer, Window, requestVars, opVars
<1>5. ASSUME NEW k \in Clients, NEW r \in Requests, Reject(k, r) PROVE Untouched(s)
  <2>1. admission'[s] = "admitted" <=> admission[s] = "admitted"
    BY <1>5, Points DEF Reject
  <2> QED BY <1>5, <2>1 DEF Reject, Untouched, Window, opVars
<1>6. CASE UNCHANGED vars
  BY <1>1, <1>6 DEF vars
<1> QED BY <1>2, <1>3, <1>4, <1>5, <1>6 DEF QuietNext

\* A step that concerns r leaves every other request alone.
LEMMA BystanderUntouched ==
  ASSUME TypeOK, NEW r \in Requests, NextOf(r), NEW s \in Requests, s # r
  PROVE  Untouched(s)
<1>1. ASSUME NEW k \in Clients, NEW i \in Items, Submit(k, r, i) PROVE Untouched(s)
  <2>1. UNCHANGED <<tok, promise, wins, op, c, res, pc, item>>
    BY <1>1 DEF Submit, opVars
  <2>2. admission'[s] = admission[s] /\ itm'[s] = itm[s]
    BY <1>1, Points DEF Submit
  <2> QED BY <2>1, <2>2 DEF Untouched, Window
<1>2. ASSUME NEW k \in Clients, Cancel(k, r) PROVE Untouched(s)
  <2>1. UNCHANGED <<admission, itm, promise, op, c, res, pc, item>>
    BY <1>2 DEF Cancel, opVars
  <2>2. tok'[s] = tok[s] /\ wins'[s] = wins[s]
    BY <1>2, Points DEF Cancel
  <2> QED BY <2>1, <2>2 DEF Untouched, Window
<1>3. ASSUME NEW k \in Clients, CancelFulfill(k), carg[k] = r PROVE Untouched(s)
  <2>1. UNCHANGED <<admission, itm, tok, wins, op, c, res, pc, item>>
    BY <1>3 DEF CancelFulfill, opVars
  <2>2. promise'[s] = promise[s]
    BY <1>3, Points DEF CancelFulfill, SetValue
  <2> QED BY <2>1, <2>2 DEF Untouched, Window
<1>4. CASE OpFail(r) \/ OpChunk(r) \/ OpBoundary(r) \/ OpMark(r) \/ OpSet(r)
  <2>1. UNCHANGED <<admission, itm, wins, pc, item>>
    BY <1>4 DEF OpFail, OpChunk, OpBoundary, OpMark, OpSet, requestVars
  <2>2. /\ tok'[s] = tok[s] /\ promise'[s] = promise[s]
        /\ op'[s] = op[s] /\ c'[s] = c[s] /\ res'[s] = res[s]
    BY <1>4, Points DEF OpFail, OpChunk, OpBoundary, OpMark, OpSet, SetValue, requestVars
  <2> QED BY <2>1, <2>2 DEF Untouched, Window
<1>5. CASE OpRelease(r)
  <2>1. UNCHANGED <<admission, itm, tok, promise, wins, c, res, item>>
    BY <1>5 DEF OpRelease, requestVars
  <2>2. op'[s] = op[s]
    BY <1>5, Points DEF OpRelease
  <2>3. pc = "dispatch" => pc' = pc
    BY <1>5 DEF OpRelease, WakeConsumer
  <2> QED BY <2>1, <2>2, <2>3 DEF Untouched, Window
<1>6. CASE item = r /\ (WorkerRun \/ WorkerBegin \/ WorkerDispatch \/ WorkerRetire)
  <2>1. UNCHANGED <<admission, itm, promise, wins, c, res>>
    BY <1>6 DEF WorkerRun, WorkerBegin, WorkerDispatch, WorkerRetire, requestVars, opVars
  <2>2. tok'[s] = tok[s] /\ op'[s] = op[s]
    BY <1>6, Points DEF WorkerRun, WorkerBegin, WorkerDispatch, WorkerRetire, requestVars, opVars
  <2> QED BY <1>6, <2>1, <2>2 DEF Untouched, Window
<1>7. CASE Head(sdtoks) = r /\ (CancelPendingNext \/ CancelPendingFulfill)
  <2>1. UNCHANGED <<admission, itm, op, c, res, pc, item>>
    BY <1>7 DEF CancelPendingNext, CancelPendingFulfill, opVars
  <2>2. tok'[s] = tok[s] /\ wins'[s] = wins[s] /\ promise'[s] = promise[s]
    BY <1>7, Points DEF CancelPendingNext, CancelPendingFulfill, SetValue
  <2> QED BY <2>1, <2>2 DEF Untouched, Window
<1> QED BY <1>1, <1>2, <1>3, <1>4, <1>5, <1>6, <1>7 DEF NextOf, Execution

\* The shape of every request survives every step.
LEMMA RequestStep == LaneInv /\ TypeOK' /\ [Next]_vars => RequestInv'
<1> SUFFICES ASSUME LaneInv, TypeOK', [Next]_vars PROVE RequestInv'
  OBVIOUS
<1>0. TypeOK /\ RequestInv /\ Cancellers /\ Positions /\ WorkerShape
  BY DEF LaneInv
<1>1. CASE QuietNext
  BY <1>0, <1>1, QuietUntouched, NoRequestTouched
<1>2. ASSUME NEW r \in Requests, NextOf(r) PROVE RequestInv'
  <2>0. \A s \in Requests : s # r => Untouched(s)
    BY <1>0, <1>2, BystanderUntouched
  <2>00. RequestOK(r)
    BY <1>0 DEF RequestInv, RequestOK
  <2>1. ASSUME NEW k \in Clients, NEW i \in Items, Submit(k, r, i) PROVE RequestInv'
    <3>1. /\ admission[r] = "new" /\ UNCHANGED <<tok, promise, wins, op, c, res, pc, item>>
          /\ admission'[r] = "admitted"
      BY <1>0, <2>1, Points DEF Submit, opVars
    <3>2. /\ tok[r] = ArmedToken /\ promise[r] = "empty" /\ wins[r] = 0
          /\ op[r] = "idle" /\ c[r] = 0
      BY <2>00, <3>1 DEF RequestOK, NewUntouched
    <3>3. RequestOK(r)'
      BY <3>1, <3>2 DEF RequestOK, NewUntouched, TokenShape, RunShape, OutcomeShape, ArmedToken,
                        CancelSettled
    <3> QED BY <1>0, <2>0, <3>3, OneRequest
  <2>2. ASSUME NEW k \in Clients, Cancel(k, r) PROVE RequestInv'
    BY <1>0, <2>2, CancelledRequest DEF Cancel, opVars
  <2>3. ASSUME NEW k \in Clients, CancelFulfill(k), carg[k] = r PROVE RequestInv'
    <3>1. Won(r)
      BY <1>0, <2>3 DEF CancelFulfill, Cancellers
    <3> QED BY <1>0, <2>3, <3>1, FulfilledRequest DEF CancelFulfill, opVars
  <2>4. CASE Execution(r)
    <3>1. CASE OpRelease(r)
      <4>1. /\ UNCHANGED <<admission, itm, tok, promise, wins, c, res, item>>
            /\ op[r] = "retire" /\ op' = [op EXCEPT ![r] = "done"]
            /\ pc = "dispatch" => pc' = pc
        BY <3>1 DEF OpRelease, WakeConsumer, requestVars
      <4> QED BY <1>0, <4>1, RetiredRequest
    <3> QED BY <1>0, <2>4, <3>1, ExecutedRequest DEF Execution
  <2>5. CASE item = r /\ (WorkerRun \/ WorkerBegin)
    <3>1. /\ pc = "begin" /\ MayBegin(tok[r])
          /\ tok' = [tok EXCEPT ![r] = Begun(@, itm[r].checkpoint_count)]
          /\ op' = [op EXCEPT ![r] = "body"] \/ (op' = op /\ pc' = "dispatch")
          /\ UNCHANGED <<admission, itm, promise, wins, c, res, item>>
      BY <2>5 DEF WorkerRun, WorkerBegin, opVars
    <3>2. op[r] = "idle"
      BY <1>0, <2>5, <3>1 DEF WorkerShape
    <3>3. admission[r] = "admitted"
      <4>1. r # NoRequest
        BY RuntimeLaneAssumption
      <4>2. Popped >= 1 /\ item = pushed[Popped] /\ Len(queue) <= Len(pushed)
        BY <1>0, <2>5, <4>1 DEF Positions
      <4>3. Popped \in DOMAIN pushed
        BY <1>0, <4>2 DEF TypeOK, RequestTypes, LaneTypes, Popped
      <4> QED BY <1>0, <2>5, <4>2, <4>3 DEF Positions
    <3> QED BY <1>0, <2>5, <3>1, <3>2, <3>3, BegunRequest
  <2>6. CASE item = r /\ WorkerDispatch
    <3>1. /\ pc = "dispatch" /\ UNCHANGED <<admission, itm, tok, promise, wins, c, res>>
          /\ op'[r] = "body"
      BY <1>0, <2>6, Points DEF WorkerDispatch, requestVars
    <3>2. op[r] = "idle" /\ tok[r].phase \in {"Running", "StopRequested"} /\ promise[r] = "empty"
      BY <1>0, <2>6, <3>1 DEF WorkerShape
    <3>3. c[r] = 0 /\ itm[r].checkpoint_count \in Nat /\ itm[r].checkpoint_count >= 1
      BY <1>0, <2>00, <3>2, RequestTyped DEF RequestOK, RunShape
    <3>4. NewUntouched(r)' /\ TokenShape(r)' /\ OutcomeShape(r)'
      BY <2>00, <3>1, <3>2 DEF RequestOK, NewUntouched, TokenShape, OutcomeShape, ArmedToken
    <3>5. RunShape(r)'
      BY <2>00, <3>1, <3>2, <3>3 DEF RequestOK, RunShape, TokenShape
    <3> QED BY <1>0, <2>0, <3>4, <3>5, OneRequest DEF RequestOK
  <2>7. CASE item = r /\ WorkerRetire
    <3>1. /\ pc = "busy" /\ op[r] = "retire" /\ op' = [op EXCEPT ![r] = "done"]
          /\ UNCHANGED <<admission, itm, tok, promise, wins, c, res>>
      BY <2>7 DEF WorkerRetire, requestVars
    <3> QED BY <1>0, <3>1, RetiredRequest
  <2>8. CASE Head(sdtoks) = r /\ sdtoks # <<>> /\ CancelPendingNext
    <3>1. UNCHANGED <<admission, itm, promise, op, c, res, pc, item>>
      BY <2>8 DEF CancelPendingNext, opVars
    <3>2. CASE CancelSucceeds(tok[r])
      <4>1. tok' = [tok EXCEPT ![r] = Cancelled(@)] /\ wins' = [wins EXCEPT ![r] = @ + 1]
        BY <2>8, <3>2 DEF CancelPendingNext
      <4>2. admission[r] = "admitted"
        <5>1. 1 \in DOMAIN sdtoks /\ sdtoks[1] = r
          BY <1>0, <2>8, TailFacts DEF TypeOK, ThreadTypes
        <5> QED BY <1>0, <5>1 DEF Cancellers
      <4> QED BY <1>0, <3>1, <3>2, <4>1, <4>2, CancelledRequest
    <3>3. CASE ~CancelSucceeds(tok[r])
      <4>1. UNCHANGED <<tok, wins>>
        BY <2>8, <3>3 DEF CancelPendingNext
      <4>2. Untouched(r)
        BY <3>1, <4>1 DEF Untouched, Window
      <4> QED BY <1>0, <2>0, <4>2, NoRequestTouched
    <3> QED BY <3>2, <3>3
  <2>9. CASE Head(sdtoks) = r /\ CancelPendingFulfill
    <3>1. Won(r) /\ SetValue(r, "cancelled") /\ UNCHANGED <<admission, itm, tok, wins, op, c, res, pc, item>>
      BY <1>0, <2>9 DEF CancelPendingFulfill, Cancellers, opVars
    <3> QED BY <1>0, <3>1, FulfilledRequest
  <2> QED BY <1>2, <2>1, <2>2, <2>3, <2>4, <2>5, <2>6, <2>7, <2>8, <2>9 DEF NextOf
<1> QED BY <1>0, <1>1, <1>2, StepKinds
-----------------------------------------------------------------------------
(* The requests a teardown collects, and the cancels that were won.         *)

\* Where the elements of a concatenation come from.
LEMMA ConcatFacts ==
  ASSUME NEW S, NEW a \in Seq(S), NEW b \in Seq(S)
  PROVE  /\ a \o b \in Seq(S)
         /\ \A i \in DOMAIN a : i \in DOMAIN (a \o b) /\ (a \o b)[i] = a[i]
         /\ \A i \in DOMAIN b : Len(a) + i \in DOMAIN (a \o b) /\ (a \o b)[Len(a) + i] = b[i]
         /\ \A i \in DOMAIN (a \o b) :
              \/ i \in DOMAIN a /\ (a \o b)[i] = a[i]
              \/ i - Len(a) \in DOMAIN b /\ (a \o b)[i] = b[i - Len(a)]
OBVIOUS

\* cancel_pending() collects the queue, the service slot and the operations in flight.
LEMMA PendingFacts ==
  ASSUME LaneTypes
  PROVE  /\ \A i \in DOMAIN queue : \E j \in DOMAIN PendingTokens : PendingTokens[j] = queue[i]
         /\ active_tok # NoRequest => \E j \in DOMAIN PendingTokens : PendingTokens[j] = active_tok
         /\ \A j \in DOMAIN PendingTokens :
              \/ \E i \in DOMAIN queue : PendingTokens[j] = queue[i]
              \/ active_tok # NoRequest /\ PendingTokens[j] = active_tok
              \/ \E i \in DOMAIN inflight_toks : PendingTokens[j] = inflight_toks[i]
<1> DEFINE slot == IF active_tok = NoRequest THEN <<>> ELSE <<active_tok>>
           front == queue \o slot
<1>1. /\ queue \in Seq(Requests) /\ inflight_toks \in Seq(Requests)
      /\ active_tok \in Requests \cup {NoRequest}
  BY DEF LaneTypes
<1>2. /\ slot \in Seq(Requests)
      /\ active_tok # NoRequest => 1 \in DOMAIN slot /\ slot[1] = active_tok
      /\ \A i \in DOMAIN slot : active_tok # NoRequest /\ slot[i] = active_tok
  BY <1>1
<1>3. PendingTokens = front \o inflight_toks
  BY DEF PendingTokens
<1> HIDE DEF slot
<1>4. /\ front \in Seq(Requests)
      /\ \A i \in DOMAIN queue : i \in DOMAIN front /\ front[i] = queue[i]
      /\ \A i \in DOMAIN slot : Len(queue) + i \in DOMAIN front /\ front[Len(queue) + i] = slot[i]
      /\ \A i \in DOMAIN front : \/ i \in DOMAIN queue /\ front[i] = queue[i]
                                 \/ i - Len(queue) \in DOMAIN slot /\ front[i] = slot[i - Len(queue)]
  BY <1>1, <1>2, ConcatFacts
<1> HIDE DEF front
<1>5. /\ \A i \in DOMAIN front : i \in DOMAIN PendingTokens /\ PendingTokens[i] = front[i]
      /\ \A i \in DOMAIN PendingTokens :
           \/ i \in DOMAIN front /\ PendingTokens[i] = front[i]
           \/ /\ i - Len(front) \in DOMAIN inflight_toks
              /\ PendingTokens[i] = inflight_toks[i - Len(front)]
  BY <1>1, <1>3, <1>4, ConcatFacts
<1>6. \A i \in DOMAIN queue : \E j \in DOMAIN PendingTokens : PendingTokens[j] = queue[i]
  BY <1>4, <1>5
<1>7. active_tok # NoRequest => \E j \in DOMAIN PendingTokens : PendingTokens[j] = active_tok
  BY <1>2, <1>4, <1>5
<1>8. ASSUME NEW j \in DOMAIN PendingTokens
      PROVE  \/ \E i \in DOMAIN queue : PendingTokens[j] = queue[i]
             \/ active_tok # NoRequest /\ PendingTokens[j] = active_tok
             \/ \E i \in DOMAIN inflight_toks : PendingTokens[j] = inflight_toks[i]
  BY <1>2, <1>4, <1>5
<1> QED BY <1>6, <1>7, <1>8

\* Whatever the lane holds has been admitted.
LEMMA HeldAdmitted ==
  ASSUME TypeOK, RequestInv, Positions
  PROVE  /\ \A i \in DOMAIN queue : admission[queue[i]] = "admitted"
         /\ item # NoRequest => item \in Requests /\ admission[item] = "admitted"
         /\ \A r \in Requests : op[r] # "idle" => admission[r] = "admitted"
<1>1. queue \in Seq(Requests) /\ pushed \in Seq(Requests) /\ item \in Requests \cup {NoRequest}
  BY DEF TypeOK, RequestTypes, LaneTypes, ThreadTypes
<1>2. ASSUME NEW i \in DOMAIN queue PROVE admission[queue[i]] = "admitted"
  <2>1. Popped + i \in DOMAIN pushed
    BY <1>1 DEF Positions, Popped
  <2> QED BY <2>1 DEF Positions
<1>3. item # NoRequest => item \in Requests /\ admission[item] = "admitted"
  <2> SUFFICES ASSUME item # NoRequest PROVE item \in Requests /\ admission[item] = "admitted"
    OBVIOUS
  <2>1. Popped \in DOMAIN pushed /\ item = pushed[Popped]
    BY <1>1 DEF Positions, Popped
  <2> QED BY <1>1, <2>1 DEF Positions
<1>4. \A r \in Requests : op[r] # "idle" => admission[r] = "admitted"
  BY DEF RequestInv, NewUntouched
<1> QED BY <1>2, <1>3, <1>4

\* An admission is never taken back.
LEMMA AdmittedKept ==
  ASSUME TypeOK, [Next]_vars, Cancellers, NEW r \in Requests, admission[r] = "admitted"
  PROVE  admission'[r] = "admitted"
<1>1. CASE QuietNext
  BY <1>1, QuietUntouched DEF Untouched
<1>2. ASSUME NEW s \in Requests, NextOf(s) PROVE admission'[r] = "admitted"
  <2>1. CASE s # r
    BY <1>2, <2>1, BystanderUntouched DEF Untouched
  <2>2. CASE s = r
    BY <1>2, <2>2, Points DEF NextOf, Submit, Cancel, CancelFulfill, Execution, OpFail, OpChunk,
       OpBoundary, OpMark, OpSet, OpRelease, WorkerRun, WorkerBegin, WorkerDispatch, WorkerRetire,
       CancelPendingNext, CancelPendingFulfill, requestVars
  <2> QED BY <2>1, <2>2
<1> QED BY <1>1, <1>2, StepKinds

\* A queued cancel that was won stays so until a thread sets the promise.
LEMMA WonStep ==
  ASSUME LaneInv, [Next]_vars, NEW r, Won(r)
  PROVE  \/ Won(r)'
         \/ \E k \in Clients : CancelFulfill(k) /\ carg[k] = r
         \/ Head(sdtoks) = r /\ CancelPendingFulfill
<1>0. TypeOK /\ RequestInv /\ Cancellers /\ WorkerShape /\ r \in Requests
  BY DEF LaneInv, Won
<1>1. Untouched(r) => Won(r)'
  BY DEF Won, Untouched
<1>2. CASE QuietNext
  BY <1>0, <1>1, <1>2, QuietUntouched
<1>3. ASSUME NEW s \in Requests, NextOf(s), s # r PROVE Won(r)'
  BY <1>0, <1>1, <1>3, BystanderUntouched
<1>4. CASE NextOf(r)
  <2>1. ASSUME NEW k \in Clients, NEW i \in Items PROVE ~Submit(k, r, i)
    BY DEF Submit, Won
  <2>2. ASSUME NEW k \in Clients PROVE ~Cancel(k, r)
    BY DEF Cancel, Won, CancelSucceeds, CancelFulfills
  <2>3. ~Execution(r)
    BY DEF Execution, OpFail, OpChunk, OpBoundary, OpMark, OpSet, OpRelease, Won
  <2>4. ~(item = r /\ (WorkerRun \/ WorkerBegin \/ WorkerDispatch \/ WorkerRetire))
    BY <1>0 DEF WorkerRun, WorkerBegin, WorkerDispatch, WorkerRetire, Won, MayBegin, WorkerShape
  <2>5. CASE sdtoks # <<>> /\ Head(sdtoks) = r /\ CancelPendingNext
    <3>1. UNCHANGED <<admission, tok, promise, op>>
      BY <2>5 DEF CancelPendingNext, Won, CancelSucceeds, CancelFulfills, opVars
    <3> QED BY <3>1 DEF Won
  <2> QED BY <1>4, <2>1, <2>2, <2>3, <2>4, <2>5 DEF NextOf
<1> QED BY <1>0, <1>2, <1>3, <1>4, StepKinds
-----------------------------------------------------------------------------
(* The cancellers.                                                          *)

\* Who is about to set a promise after a step: a client that was before it, or
\* one that has just won a queued cancel.
LEMMA ClientStep ==
  ASSUME TypeOK, [Next]_vars, NEW k \in Clients, cpc'[k] = "fulfill"
  PROVE  \/ cpc[k] = "fulfill" /\ carg'[k] = carg[k] /\ ~CancelFulfill(k)
         \/ \E r \in Requests :
              /\ Cancel(k, r) /\ tok[r].phase = "Queued" /\ carg'[k] = r
              /\ \A m \in Clients : m # k => cpc'[m] = cpc[m] /\ carg'[m] = carg[m]
<1> DEFINE Goal == \/ cpc[k] = "fulfill" /\ carg'[k] = carg[k] /\ ~CancelFulfill(k)
                   \/ \E r \in Requests :
                        /\ Cancel(k, r) /\ tok[r].phase = "Queued" /\ carg'[k] = r
                        /\ \A m \in Clients : m # k => cpc'[m] = cpc[m] /\ carg'[m] = carg[m]
<1>1. CASE UNCHANGED clientVars
  <2>1. cpc' = cpc /\ carg' = carg
    BY <1>1 DEF clientVars
  <2>2. ~CancelFulfill(k)
    BY <2>1, Points DEF CancelFulfill
  <2> QED BY <2>1, <2>2
<1>2. ASSUME NEW m \in Clients, Notify(m) \/ CancelFulfill(m) \/ \E r \in Requests, i \in Items : Submit(m, r, i)
      PROVE  Goal
  <2>1. m # k
    BY <1>2, Points DEF Notify, CancelFulfill, Submit
  <2>2. cpc'[k] = cpc[k] /\ carg'[k] = carg[k]
    BY <1>2, <2>1, Points DEF Notify, CancelFulfill, Submit
  <2>3. ~CancelFulfill(k)
    BY <2>2, Points DEF CancelFulfill
  <2> QED BY <2>2, <2>3
<1>3. ASSUME NEW m \in Clients, NEW r \in Requests, Cancel(m, r), CancelFulfills(tok[r]) PROVE Goal
  <2>1. /\ cpc' = [cpc EXCEPT ![m] = "fulfill"] /\ carg' = [carg EXCEPT ![m] = r]
        /\ tok[r].phase = "Queued"
    BY <1>3 DEF Cancel, CancelFulfills
  <2>2. CASE m = k
    BY <1>3, <2>1, <2>2, Points
  <2>3. CASE m # k
    <3>1. cpc'[k] = cpc[k] /\ carg'[k] = carg[k]
      BY <2>1, <2>3, Points
    <3>2. ~CancelFulfill(k)
      BY <3>1, Points DEF CancelFulfill
    <3> QED BY <3>1, <3>2
  <2> QED BY <2>2, <2>3
<1>4. ASSUME NEW m \in Clients, NEW r \in Requests,
             Reject(m, r) \/ (Cancel(m, r) /\ ~CancelFulfills(tok[r]))
      PROVE  Goal
  <2>1. UNCHANGED clientVars
    BY <1>4 DEF Reject, Cancel
  <2> QED BY <1>1, <2>1
<1>5. CASE Worker
  BY <1>1, <1>5 DEF Worker, WorkerWait, WorkerExit, WorkerPop, WorkerSkip, WorkerRun, WorkerBegin,
     WorkerDispatch, WorkerRetire, WorkerClearTok, WorkerClearActive
<1>6. ASSUME NEW r \in Requests, Execution(r) PROVE Goal
  BY <1>1, <1>6 DEF Execution, OpFail, OpChunk, OpBoundary, OpMark, OpSet, OpRelease
<1>7. CASE CancelPendingCollect \/ Teardown
  BY <1>1, <1>7 DEF Teardown, CancelPendingCollect, CancelPendingNext, CancelPendingFulfill, StopSet,
     StopNotify, StopJoin, StopDrain
<1>8. CASE UNCHANGED vars
  BY <1>1, <1>8 DEF vars, clientVars
<1> QED BY <1>2, <1>3, <1>4, <1>5, <1>6, <1>7, <1>8 DEF Next

\* The same of the teardown thread.
LEMMA TeardownStep ==
  ASSUME TypeOK, [Next]_vars
  PROVE  /\ \/ sdtoks' = sdtoks
            \/ CancelPendingCollect
            \/ CancelPendingFulfill
            \/ CancelPendingNext /\ sdtoks # <<>> /\ sdtoks' = Tail(sdtoks) /\ sd' = "cancel"
         /\ sd' = "fulfill" =>
              /\ sdtoks' = sdtoks /\ ~CancelPendingFulfill
              /\ sd = "fulfill" \/ (CancelPendingNext /\ tok[Head(sdtoks)].phase = "Queued")
<1>1. CASE UNCHANGED <<sd, sdtoks>>
  BY <1>1 DEF CancelPendingFulfill
<1>2. CASE CancelPendingCollect
  BY <1>2 DEF CancelPendingCollect
<1>3. CASE CancelPendingNext
  <2>1. sd = "cancel" /\ sdtoks # <<>>
    BY <1>3 DEF CancelPendingNext
  <2>2. \/ CancelFulfills(tok[Head(sdtoks)]) /\ sd' = "fulfill" /\ sdtoks' = sdtoks
        \/ sd' = sd /\ sdtoks' = Tail(sdtoks)
    BY <1>3 DEF CancelPendingNext
  <2>3. ~CancelPendingFulfill
    BY <2>1 DEF CancelPendingFulfill
  <2> QED BY <1>3, <2>1, <2>2, <2>3 DEF CancelFulfills
<1>4. CASE CancelPendingFulfill
  BY <1>4 DEF CancelPendingFulfill
<1>5. CASE StopSet \/ StopNotify \/ StopJoin \/ StopDrain
  BY <1>5 DEF StopSet, StopNotify, StopJoin, StopDrain, CancelPendingFulfill
<1>6. CASE Worker
  BY <1>1, <1>6 DEF Worker, WorkerWait, WorkerExit, WorkerPop, WorkerSkip, WorkerRun, WorkerBegin,
     WorkerDispatch, WorkerRetire, WorkerClearTok, WorkerClearActive, teardownVars
<1>7. ASSUME NEW r \in Requests, OpFail(r) \/ OpChunk(r) \/ OpBoundary(r) \/ OpMark(r) \/ OpSet(r)
      PROVE  UNCHANGED <<sd, sdtoks>>
  BY <1>7 DEF OpFail, OpChunk, OpBoundary, OpMark, OpSet, teardownVars
<1>8. ASSUME NEW r \in Requests, OpRelease(r)
      PROVE sdtoks' = sdtoks /\ (sd' = "fulfill" => sd = "fulfill") /\ ~CancelPendingFulfill
  <2>1. sdtoks' = sdtoks /\ (sd' = "fulfill" => sd = "fulfill") /\ op[r] = "retire"
        /\ op' = [op EXCEPT ![r] = "done"]
    BY <1>8 DEF OpRelease
  <2>2. op' # op
    BY <2>1, Points
  <2> QED BY <2>1, <2>2 DEF CancelPendingFulfill, opVars
<1>9. ASSUME NEW k \in Clients,
             \/ Notify(k) \/ CancelFulfill(k)
             \/ \E r \in Requests : Cancel(k, r) \/ Reject(k, r)
             \/ \E r \in Requests, i \in Items : Submit(k, r, i)
      PROVE  UNCHANGED <<sd, sdtoks>>
  BY <1>9 DEF Notify, CancelFulfill, Cancel, Reject, Submit, teardownVars
<1>10. CASE UNCHANGED vars
  BY <1>1, <1>10 DEF vars
<1> QED BY <1>1, <1>2, <1>3, <1>4, <1>5, <1>6, <1>7, <1>8, <1>9, <1>10 DEF Next, Teardown, Execution

\* A queued cancel is won for the thread that flipped the token.
LEMMA FreshlyWon ==
  ASSUME TypeOK, RequestInv, NEW r \in Requests, admission[r] = "admitted",
         tok[r].phase = "Queued", tok' = [tok EXCEPT ![r] = Cancelled(@)],
         UNCHANGED <<admission, promise, op>>
  PROVE  Won(r)'
<1>1. ~tok[r].cancellable /\ promise[r] = "empty" /\ op[r] = "idle"
  BY DEF RequestInv, TokenShape
<1>2. tok'[r].phase = "Cancelled" /\ (tok'[r].cancellable <=> tok[r].cancellable)
  BY Points DEF Cancelled, CancelFulfills
<1> QED BY <1>1, <1>2 DEF Won

\* Every step keeps the cancellers apart.
LEMMA CancellersStep == LaneInv /\ TypeOK' /\ [Next]_vars => Cancellers'
<1> SUFFICES ASSUME LaneInv, TypeOK', [Next]_vars PROVE Cancellers'
  OBVIOUS
<1>0. TypeOK /\ RequestInv /\ Cancellers /\ Positions /\ ServiceSlot /\ InflightShape
  BY DEF LaneInv
<1>00. sdtoks \in Seq(Requests)
  BY <1>0 DEF TypeOK, ThreadTypes
\* A client that was about to set a promise, and still is.
<1>1. ASSUME NEW k \in Clients, cpc[k] = "fulfill", carg'[k] = carg[k], ~CancelFulfill(k)
      PROVE  Won(carg[k]) /\ Won(carg[k])'
  <2>1. PICK r : r = carg[k]
    OBVIOUS
  <2>2. Won(r)
    BY <1>0, <1>1, <2>1 DEF Cancellers
  <2>3. ASSUME NEW m \in Clients, CancelFulfill(m), carg[m] = r PROVE FALSE
    BY <1>0, <1>1, <2>1, <2>3 DEF Cancellers, CancelFulfill
  <2>4. ~(Head(sdtoks) = r /\ CancelPendingFulfill)
    BY <1>0, <1>1, <2>1 DEF Cancellers, CancelPendingFulfill
  <2>5. Won(r)'
    BY <2>2, <2>3, <2>4, WonStep
  <2> QED BY <1>1, <2>1, <2>2, <2>5
\* A client that has just won.
<1>2. ASSUME NEW k \in Clients, NEW r \in Requests, Cancel(k, r), tok[r].phase = "Queued", carg'[k] = r
      PROVE  Won(carg[k])'
  <2>1. Won(r)'
    BY <1>0, <1>2, FreshlyWon DEF Cancel, opVars
  <2> QED BY <1>2, <2>1
<1>3. ASSUME NEW k \in Clients, cpc'[k] = "fulfill" PROVE Won(carg[k])'
  BY <1>0, <1>1, <1>2, <1>3, ClientStep
<1>4. ASSUME NEW k \in Clients, NEW m \in Clients, cpc'[k] = "fulfill", cpc'[m] = "fulfill",
             carg'[k] = carg'[m], k # m
      PROVE  FALSE
  <2>1. ASSUME NEW a \in Clients, NEW b \in Clients, NEW r \in Requests, Cancel(a, r),
               tok[r].phase = "Queued", carg'[a] = r, a # b, cpc'[b] = "fulfill", carg'[b] = r,
               \A n \in Clients : n # a => cpc'[n] = cpc[n] /\ carg'[n] = carg[n]
        PROVE  FALSE
    BY <1>0, <2>1 DEF Cancellers, Won
  <2>2. ASSUME cpc[k] = "fulfill", carg'[k] = carg[k], cpc[m] = "fulfill", carg'[m] = carg[m]
        PROVE  FALSE
    BY <1>0, <1>4, <2>2 DEF Cancellers
  <2> QED BY <1>0, <1>4, <2>1, <2>2, ClientStep
<1>5. ASSUME sd' = "fulfill" PROVE Won(Head(sdtoks))'
  <2>1. PICK r : r = Head(sdtoks)
    OBVIOUS
  <2>2. sdtoks' = sdtoks /\ ~CancelPendingFulfill
    BY <1>0, <1>5, TeardownStep
  <2>3. CASE sd = "fulfill"
    <3>1. Won(r) /\ \A k \in Clients : ~(cpc[k] = "fulfill" /\ carg[k] = r)
      BY <1>0, <2>1, <2>3 DEF Cancellers
    <3>2. Won(r)'
      BY <2>2, <3>1, WonStep DEF CancelFulfill
    <3> QED BY <2>1, <2>2, <3>2
  <2>4. CASE CancelPendingNext /\ tok[Head(sdtoks)].phase = "Queued"
    <3>1. r \in Requests /\ 1 \in DOMAIN sdtoks /\ sdtoks[1] = r
      BY <1>00, <2>1, <2>4, TailFacts DEF CancelPendingNext
    <3>2. admission[r] = "admitted"
      BY <1>0, <3>1 DEF Cancellers
    <3>3. Won(r)'
      BY <1>0, <2>1, <2>4, <3>1, <3>2, FreshlyWon
         DEF CancelPendingNext, CancelSucceeds, CancelFulfills, opVars
    <3> QED BY <2>1, <2>2, <3>3
  <2> QED BY <1>0, <1>5, <2>3, <2>4, TeardownStep
<1>6. ASSUME sd' = "fulfill", NEW k \in Clients, cpc'[k] = "fulfill", carg'[k] = Head(sdtoks')
      PROVE  FALSE
  <2>1. PICK r : r = Head(sdtoks)
    OBVIOUS
  <2>2. sdtoks' = sdtoks /\ carg'[k] = r
    BY <1>0, <1>6, <2>1, TeardownStep
  <2>3. CASE sd = "fulfill"
    <3>1. Won(r) /\ ~(cpc[k] = "fulfill" /\ carg[k] = r)
      BY <1>0, <2>1, <2>3 DEF Cancellers
    <3> QED BY <1>0, <1>6, <2>2, <3>1, ClientStep DEF Won
  <2>4. CASE CancelPendingNext /\ tok[Head(sdtoks)].phase = "Queued"
    <3>1. cpc[k] = "fulfill" /\ carg[k] = r
      BY <1>6, <2>2, <2>4 DEF CancelPendingNext, clientVars
    <3>2. Won(r)
      BY <1>0, <3>1 DEF Cancellers
    <3> QED BY <2>1, <2>4, <3>2 DEF Won
  <2> QED BY <1>0, <1>6, <2>3, <2>4, TeardownStep
<1>7. ASSUME NEW i \in DOMAIN sdtoks' PROVE admission'[sdtoks'[i]] = "admitted"
  <2>1. ASSUME NEW j \in DOMAIN sdtoks PROVE admission'[sdtoks[j]] = "admitted"
    <3>1. sdtoks[j] \in Requests /\ admission[sdtoks[j]] = "admitted"
      BY <1>0, <1>00 DEF Cancellers
    <3> QED BY <1>0, <3>1, AdmittedKept
  <2>2. CASE sdtoks' = sdtoks
    BY <2>1, <2>2
  <2>3. CASE sdtoks # <<>> /\ sdtoks' = Tail(sdtoks)
    BY <1>00, <2>1, <2>3, TailFacts
  <2>4. CASE CancelPendingCollect
    <3>1. sdtoks' = PendingTokens /\ UNCHANGED admission
      BY <2>4 DEF CancelPendingCollect, requestVars
    <3>2. /\ queue \in Seq(Requests) /\ inflight_toks \in Seq(Requests)
          /\ active_tok # NoRequest => active_tok = item /\ item # NoRequest
      BY <1>0 DEF TypeOK, LaneTypes, ServiceSlot
    <3>3. \A j \in DOMAIN inflight_toks : admission[inflight_toks[j]] = "admitted"
      BY <1>0, <3>2, HeldAdmitted DEF InflightShape, Executing
    <3>4. /\ \A j \in DOMAIN queue : admission[queue[j]] = "admitted"
          /\ active_tok # NoRequest => admission[active_tok] = "admitted"
      BY <1>0, <3>2, HeldAdmitted
    <3>5. \A j \in DOMAIN PendingTokens : admission[PendingTokens[j]] = "admitted"
      BY <1>0, <3>3, <3>4, PendingFacts DEF TypeOK
    <3> QED BY <3>1, <3>5
  <2>5. CASE CancelPendingFulfill
    <3>1. sdtoks # <<>> /\ sdtoks' = Tail(sdtoks)
      BY <1>0, <2>5 DEF CancelPendingFulfill, TypeOK, ThreadTypes
    <3> QED BY <2>3, <3>1
  <2> QED BY <1>0, <2>2, <2>3, <2>4, <2>5, TeardownStep
<1> QED BY <1>3, <1>4, <1>5, <1>6, <1>7 DEF Cancellers
-----------------------------------------------------------------------------
(* The positions in the queue.                                              *)

\* How an operation advances: the consumer starts its item, and the consumer or
\* a continuation ends it.
LEMMA OpStep ==
  ASSUME LaneInv, [Next]_vars, NEW r \in Requests
  PROVE  \/ op'[r] = op[r]
         \/ op[r] = "idle" /\ op'[r] = "body" /\ item = r /\ (WorkerRun \/ WorkerDispatch)
         \/ Executing(r) /\ Executing(r)'
         \/ op[r] = "retire" /\ op'[r] = "done" /\ (OpRelease(r) \/ (WorkerRetire /\ item = r))
<1>0. TypeOK /\ Cancellers /\ WorkerShape
  BY DEF LaneInv
<1>1. CASE QuietNext
  BY <1>0, <1>1, QuietUntouched DEF Untouched
<1>2. ASSUME NEW s \in Requests, NextOf(s), s # r PROVE op'[r] = op[r]
  BY <1>0, <1>2, BystanderUntouched DEF Untouched
<1>3. CASE NextOf(r)
  <2>1. ASSUME NEW k \in Clients,
               (\E i \in Items : Submit(k, r, i)) \/ Cancel(k, r) \/ CancelFulfill(k)
        PROVE  op'[r] = op[r]
    BY <2>1 DEF Submit, Cancel, CancelFulfill, opVars
  <2>2. CASE OpFail(r) \/ OpChunk(r) \/ OpBoundary(r) \/ OpMark(r) \/ OpSet(r)
    BY <1>0, <2>2, Points DEF OpFail, OpChunk, OpBoundary, OpMark, OpSet, Executing
  <2>3. CASE OpRelease(r)
    BY <1>0, <2>3, Points DEF OpRelease
  <2>4. CASE item = r /\ (WorkerRun \/ WorkerDispatch)
    BY <1>0, <2>4, Points DEF WorkerShape, WorkerRun, WorkerDispatch
  <2>5. CASE item = r /\ WorkerBegin
    BY <2>5 DEF WorkerBegin, opVars
  <2>6. CASE item = r /\ WorkerRetire
    BY <1>0, <2>6, Points DEF WorkerRetire
  <2>7. CASE CancelPendingNext \/ CancelPendingFulfill
    BY <2>7 DEF CancelPendingNext, CancelPendingFulfill, opVars
  <2> QED BY <1>3, <2>1, <2>2, <2>3, <2>4, <2>5, <2>6, <2>7 DEF NextOf, Execution
<1> QED BY <1>0, <1>1, <1>2, <1>3, StepKinds

\* The queue grows by a submit and shrinks by a pop.
LEMMA QueueStep ==
  ASSUME TypeOK, [Next]_vars
  PROVE  \/ \E k \in Clients, r \in Requests, i \in Items : Submit(k, r, i)
         \/ WorkerPop
         \/ /\ UNCHANGED <<pushed, queue>>
            /\ item' = item \/ item' = NoRequest
            /\ \A r \in Requests : admission'[r] = "admitted" <=> admission[r] = "admitted"
<1> DEFINE Goal == /\ UNCHANGED <<pushed, queue>>
                   /\ item' = item \/ item' = NoRequest
                   /\ \A r \in Requests : admission'[r] = "admitted" <=> admission[r] = "admitted"
<1>1. ASSUME UNCHANGED <<admission, pushed, queue>>, item' = item \/ item' = NoRequest PROVE Goal
  BY <1>1
<1>2. CASE Worker
  BY <1>1, <1>2 DEF Worker, WorkerWait, WorkerExit, WorkerSkip, WorkerRun, WorkerBegin,
     WorkerDispatch, WorkerRetire, WorkerClearTok, WorkerClearActive, requestVars, laneVars
<1>3. CASE CancelPendingCollect \/ Teardown
  BY <1>1, <1>3 DEF Teardown, CancelPendingCollect, CancelPendingNext, CancelPendingFulfill, StopSet,
     StopNotify, StopJoin, StopDrain, requestVars, laneVars
<1>4. ASSUME NEW r \in Requests, Execution(r) PROVE Goal
  BY <1>1, <1>4 DEF Execution, OpFail, OpChunk, OpBoundary, OpMark, OpSet, OpRelease, requestVars, laneVars
<1>5. ASSUME NEW k \in Clients, Notify(k) \/ CancelFulfill(k) \/ \E r \in Requests : Cancel(k, r)
      PROVE  Goal
  BY <1>1, <1>5 DEF Notify, CancelFulfill, Cancel, requestVars, laneVars
<1>6. ASSUME NEW k \in Clients, NEW r \in Requests, Reject(k, r) PROVE Goal
  <2>1. \A s \in Requests : admission'[s] = "admitted" <=> admission[s] = "admitted"
    BY <1>6, Points DEF Reject
  <2> QED BY <1>6, <2>1 DEF Reject, laneVars
<1>7. CASE UNCHANGED vars
  BY <1>1, <1>7 DEF vars
<1> QED BY <1>2, <1>3, <1>4, <1>5, <1>6, <1>7 DEF Next

\* Every step keeps the queue a suffix of the pushes.
LEMMA PositionsStep == LaneInv /\ TypeOK' /\ [Next]_vars => Positions'
<1> SUFFICES ASSUME LaneInv, TypeOK', [Next]_vars PROVE Positions'
  OBVIOUS
<1>0. TypeOK /\ RequestInv /\ Positions /\ Cancellers
  BY DEF LaneInv
<1>00. /\ queue \in Seq(Requests) /\ pushed \in Seq(Requests) /\ item \in Requests \cup {NoRequest}
       /\ Len(queue) \in Nat /\ Len(pushed) \in Nat /\ NoRequest \notin Requests
       /\ DOMAIN pushed = 1..Len(pushed) /\ DOMAIN queue = 1..Len(queue)
  <2>1. queue \in Seq(Requests) /\ pushed \in Seq(Requests) /\ item \in Requests \cup {NoRequest}
    BY <1>0 DEF TypeOK, RequestTypes, LaneTypes, ThreadTypes
  <2>2. NoRequest \notin Requests
    BY RuntimeLaneAssumption
  <2> QED BY <2>1, <2>2
\* An operation that starts is the last one popped.
<1>1. ASSUME NEW i \in DOMAIN pushed, i > Popped PROVE op'[pushed[i]] = "idle"
  <2>1. pushed[i] \in Requests /\ op[pushed[i]] = "idle"
    BY <1>0, <1>00, <1>1 DEF Positions
  <2>2. pushed[i] # item
    BY <1>0, <1>00, <1>1, <2>1 DEF Positions, Popped
  <2> QED BY <2>1, <2>2, OpStep DEF Executing
<1>2. ASSUME NEW k \in Clients, NEW r \in Requests, NEW x \in Items, Submit(k, r, x) PROVE Positions'
  <2>1. /\ pushed' = Append(pushed, r) /\ queue' = Append(queue, r) /\ UNCHANGED <<op, item>>
        /\ admission[r] = "new" /\ admission' = [admission EXCEPT ![r] = "admitted"]
    BY <1>2 DEF Submit, PushedBack, opVars
  <2>2. /\ Len(pushed') = Len(pushed) + 1 /\ DOMAIN pushed' = 1..(Len(pushed) + 1)
        /\ \A i \in 1..Len(pushed) : pushed'[i] = pushed[i]
        /\ pushed'[Len(pushed) + 1] = r
    BY <1>00, <2>1, AppendFacts
  <2>3. /\ Len(queue') = Len(queue) + 1 /\ DOMAIN queue' = 1..(Len(queue) + 1)
        /\ \A i \in 1..Len(queue) : queue'[i] = queue[i]
        /\ queue'[Len(queue) + 1] = r
    BY <1>00, <2>1, AppendFacts
  <2>4. Popped' = Popped
    BY <1>00, <2>2, <2>3 DEF Popped
  <2>5. \A i \in DOMAIN pushed : pushed[i] # r
    BY <1>0, <2>1 DEF Positions
  <2>6. /\ admission'[r] = "admitted"
        /\ \A s \in Requests : s # r => admission'[s] = admission[s]
    BY <1>0, <2>1, Points
  <2>7. op[r] = "idle"
    BY <1>0, <2>1 DEF RequestInv, NewUntouched
  <2>8. \A i, j \in DOMAIN pushed' : pushed'[i] = pushed'[j] => i = j
    BY <1>0, <1>00, <2>2, <2>5 DEF Positions
  <2>9. \A i \in DOMAIN pushed' : admission'[pushed'[i]] = "admitted"
    BY <1>0, <1>00, <2>2, <2>6 DEF Positions
  <2>10. \A s \in Requests : admission'[s] = "admitted" => \E i \in DOMAIN pushed' : pushed'[i] = s
    <3> SUFFICES ASSUME NEW s \in Requests, admission'[s] = "admitted"
                 PROVE  \E i \in DOMAIN pushed' : pushed'[i] = s
      OBVIOUS
    <3>1. CASE s = r
      BY <1>00, <2>2, <3>1
    <3>2. CASE s # r
      <4>1. PICK i \in DOMAIN pushed : pushed[i] = s
        BY <1>0, <2>6, <3>2 DEF Positions
      <4> QED BY <1>00, <2>2, <4>1
    <3> QED BY <3>1, <3>2
  <2>11. \A i \in DOMAIN queue' : queue'[i] = pushed'[Popped' + i]
    <3> SUFFICES ASSUME NEW i \in DOMAIN queue' PROVE queue'[i] = pushed'[Popped + i]
      BY <2>4
    <3>1. CASE i = Len(queue) + 1
      <4>1. Popped + i = Len(pushed) + 1
        BY <1>00, <3>1 DEF Popped
      <4> QED BY <2>2, <2>3, <3>1, <4>1
    <3>2. CASE i \in 1..Len(queue)
      <4>1. queue[i] = pushed[Popped + i] /\ Popped + i \in 1..Len(pushed)
        BY <1>0, <1>00, <3>2 DEF Positions, Popped
      <4> QED BY <2>2, <2>3, <3>2, <4>1
    <3> QED BY <1>00, <2>3, <3>1, <3>2
  <2>12. \A i \in DOMAIN pushed' : i > Popped' => op'[pushed'[i]] = "idle"
    BY <1>0, <1>00, <2>1, <2>2, <2>4, <2>7 DEF Positions
  <2>13. item' # NoRequest => Popped' >= 1 /\ item' = pushed'[Popped']
    <3> SUFFICES ASSUME item # NoRequest PROVE Popped >= 1 /\ item = pushed'[Popped]
      BY <2>1, <2>4
    <3>1. Popped >= 1 /\ item = pushed[Popped] /\ Popped \in 1..Len(pushed)
      BY <1>0, <1>00 DEF Positions, Popped
    <3> QED BY <2>2, <3>1
  <2>14. Len(queue') <= Len(pushed')
    BY <1>0, <1>00, <2>2, <2>3 DEF Positions
  <2> QED BY <2>8, <2>9, <2>10, <2>11, <2>12, <2>13, <2>14 DEF Positions
<1>3. CASE WorkerPop
  <2>1. /\ queue # <<>> /\ item' = Head(queue) /\ queue' = Tail(queue)
        /\ UNCHANGED <<pushed, admission, op>>
    BY <1>3 DEF WorkerPop, requestVars, opVars
  <2>2. /\ Head(queue) = queue[1] /\ 1 \in DOMAIN queue /\ Len(queue') = Len(queue) - 1
        /\ DOMAIN queue' = 1..(Len(queue) - 1) /\ Len(queue) >= 1
        /\ \A i \in DOMAIN queue' : queue'[i] = queue[i + 1]
    BY <1>00, <2>1, TailFacts
  <2>3. Popped' = Popped + 1 /\ Popped \in Nat
    BY <1>0, <1>00, <2>1, <2>2 DEF Popped, Positions
  <2>4. item' = pushed[Popped + 1]
    BY <1>0, <2>1, <2>2 DEF Positions
  <2>5. \A i \in DOMAIN queue' : queue'[i] = pushed'[Popped' + i]
    <3> SUFFICES ASSUME NEW i \in DOMAIN queue' PROVE queue'[i] = pushed[Popped + 1 + i]
      BY <2>1, <2>3
    <3>1. i + 1 \in DOMAIN queue /\ queue'[i] = queue[i + 1] /\ i \in Nat
      BY <1>00, <2>2
    <3>2. queue[i + 1] = pushed[Popped + (i + 1)]
      BY <1>0, <3>1 DEF Positions
    <3>3. Popped + (i + 1) = Popped + 1 + i
      BY <2>3, <3>1
    <3> QED BY <3>1, <3>2, <3>3
  <2>6. \A i \in DOMAIN pushed' : i > Popped' => op'[pushed'[i]] = "idle"
    BY <1>0, <1>00, <2>1, <2>3 DEF Positions
  <2>7. Len(queue') <= Len(pushed')
    BY <1>0, <1>00, <2>1, <2>2 DEF Positions
  <2>8. item' # NoRequest => Popped' >= 1 /\ item' = pushed'[Popped']
    BY <2>1, <2>3, <2>4
  <2> QED BY <1>0, <2>1, <2>5, <2>6, <2>7, <2>8 DEF Positions
<1>4. CASE /\ UNCHANGED <<pushed, queue>>
           /\ item' = item \/ item' = NoRequest
           /\ \A r \in Requests : admission'[r] = "admitted" <=> admission[r] = "admitted"
  <2>1. Popped' = Popped
    BY <1>4 DEF Popped
  <2>2. \A i \in DOMAIN pushed' : i > Popped' => op'[pushed'[i]] = "idle"
    BY <1>1, <1>4, <2>1
  <2>3. \A i \in DOMAIN pushed' : admission'[pushed'[i]] = "admitted"
    BY <1>0, <1>00, <1>4 DEF Positions
  <2> QED BY <1>0, <1>4, <2>1, <2>2, <2>3 DEF Positions
<1> QED BY <1>0, <1>2, <1>3, <1>4, QueueStep
-----------------------------------------------------------------------------
(* The consumer and its item.                                               *)

\* Who changes a token.
LEMMA TokenStep ==
  ASSUME LaneInv, [Next]_vars, NEW r \in Requests
  PROVE  \/ tok'[r] = tok[r]
         \/ /\ CancelSucceeds(tok[r]) /\ tok'[r] = Cancelled(tok[r]) /\ UNCHANGED <<op, promise>>
            /\ (\E k \in Clients : Cancel(k, r)) \/ (CancelPendingNext /\ Head(sdtoks) = r)
         \/ item = r /\ (WorkerRun \/ WorkerBegin)
         \/ OpBoundary(r) \/ OpMark(r)
<1>0. TypeOK /\ Cancellers
  BY DEF LaneInv
<1>1. CASE QuietNext
  BY <1>0, <1>1, QuietUntouched DEF Untouched
<1>2. ASSUME NEW s \in Requests, NextOf(s), s # r PROVE tok'[r] = tok[r]
  BY <1>0, <1>2, BystanderUntouched DEF Untouched
<1>3. CASE NextOf(r)
  <2>1. ASSUME NEW k \in Clients, (\E i \in Items : Submit(k, r, i)) \/ CancelFulfill(k)
        PROVE  tok' = tok
    BY <2>1 DEF Submit, CancelFulfill
  <2>2. ASSUME NEW k \in Clients, Cancel(k, r)
        PROVE  CancelSucceeds(tok[r]) /\ tok'[r] = Cancelled(tok[r]) /\ UNCHANGED <<op, promise>>
    BY <1>0, <2>2, Points DEF Cancel, opVars
  <2>3. CASE OpFail(r) \/ OpChunk(r) \/ OpSet(r) \/ OpRelease(r) \/ WorkerDispatch \/ WorkerRetire
             \/ CancelPendingFulfill
    <3>1. tok' = tok
      BY <2>3 DEF OpFail, OpChunk, OpSet, OpRelease, WorkerDispatch, WorkerRetire,
         CancelPendingFulfill, requestVars
    <3> QED BY <3>1
  <2>4. CASE Head(sdtoks) = r /\ CancelPendingNext
    <3>1. UNCHANGED <<op, promise>>
      BY <2>4 DEF CancelPendingNext, opVars
    <3>2. CASE CancelSucceeds(tok[r])
      <4>1. tok' = [tok EXCEPT ![r] = Cancelled(@)]
        BY <2>4, <3>2 DEF CancelPendingNext
      <4>2. tok'[r] = Cancelled(tok[r])
        BY <1>0, <4>1, Points
      <4> QED BY <2>4, <3>1, <3>2, <4>2
    <3>3. CASE ~CancelSucceeds(tok[r])
      BY <2>4, <3>3 DEF CancelPendingNext
    <3> QED BY <3>2, <3>3
  <2> QED BY <1>3, <2>1, <2>2, <2>3, <2>4 DEF NextOf, Execution
<1> QED BY <1>0, <1>1, <1>2, <1>3, StepKinds

\* Who sets a promise.
LEMMA PromiseStep ==
  ASSUME LaneInv, [Next]_vars, NEW r \in Requests
  PROVE  \/ promise'[r] = promise[r]
         \/ Won(r) /\ promise'[r] = "cancelled" /\ UNCHANGED <<admission, tok, wins, op>>
         \/ OpSet(r) /\ promise[r] = "empty" /\ promise'[r] = res[r]
<1>0. TypeOK /\ Cancellers /\ RequestInv
  BY DEF LaneInv
<1>1. CASE QuietNext
  BY <1>0, <1>1, QuietUntouched DEF Untouched
<1>2. ASSUME NEW s \in Requests, NextOf(s), s # r PROVE promise'[r] = promise[r]
  BY <1>0, <1>2, BystanderUntouched DEF Untouched
<1>3. CASE NextOf(r)
  <2>1. ASSUME NEW k \in Clients, CancelFulfill(k), carg[k] = r
        PROVE  Won(r) /\ promise'[r] = "cancelled" /\ UNCHANGED <<admission, tok, wins, op>>
    <3>1. Won(r) /\ SetValue(r, "cancelled") /\ UNCHANGED <<admission, tok, wins, op>>
      BY <1>0, <2>1 DEF CancelFulfill, Cancellers, opVars
    <3> QED BY <1>0, <3>1, Points DEF SetValue, Won
  <2>2. CASE Head(sdtoks) = r /\ CancelPendingFulfill
    <3>1. Won(r) /\ SetValue(r, "cancelled") /\ UNCHANGED <<admission, tok, wins, op>>
      BY <1>0, <2>2 DEF CancelPendingFulfill, Cancellers, opVars
    <3> QED BY <1>0, <3>1, Points DEF SetValue, Won
  <2>3. CASE OpSet(r)
    <3>1. promise[r] = "empty"
      BY <1>0, <2>3 DEF RequestInv, OutcomeShape, OpSet
    <3> QED BY <1>0, <2>3, <3>1, Points DEF OpSet, SetValue
  <2>4. ASSUME \/ \E k \in Clients : (\E i \in Items : Submit(k, r, i)) \/ Cancel(k, r)
               \/ OpFail(r) \/ OpChunk(r) \/ OpBoundary(r) \/ OpMark(r) \/ OpRelease(r)
               \/ WorkerRun \/ WorkerBegin \/ WorkerDispatch \/ WorkerRetire
               \/ CancelPendingNext
        PROVE  promise' = promise
    BY <2>4 DEF Submit, Cancel, OpFail, OpChunk, OpBoundary, OpMark, OpRelease, WorkerRun,
       WorkerBegin, WorkerDispatch, WorkerRetire, CancelPendingNext, requestVars
  <2> QED BY <1>3, <2>1, <2>2, <2>3, <2>4 DEF NextOf, Execution
<1> QED BY <1>0, <1>1, <1>2, <1>3, StepKinds

\* The submitted item of an admitted request is fixed.
LEMMA ItemFixed ==
  ASSUME LaneInv, [Next]_vars, NEW r \in Requests, admission[r] = "admitted"
  PROVE  itm'[r] = itm[r]
<1>0. TypeOK /\ Cancellers
  BY DEF LaneInv
<1>1. CASE QuietNext
  BY <1>0, <1>1, QuietUntouched DEF Untouched
<1>2. ASSUME NEW s \in Requests, NextOf(s), s # r PROVE itm'[r] = itm[r]
  BY <1>0, <1>2, BystanderUntouched DEF Untouched
<1>3. CASE NextOf(r)
  BY <1>3 DEF NextOf, Submit, Cancel, CancelFulfill, Execution, OpFail, OpChunk, OpBoundary, OpMark,
     OpSet, OpRelease, WorkerRun, WorkerBegin, WorkerDispatch, WorkerRetire, CancelPendingNext,
     CancelPendingFulfill, requestVars
<1> QED BY <1>0, <1>1, <1>2, <1>3, StepKinds

\* Where the consumer goes: by its own steps, or woken by another thread.
LEMMA WorkerStep ==
  ASSUME [Next]_vars
  PROVE  /\ mode' = mode
         /\ \/ Worker
            \/ /\ item' = item
               /\ pc' = pc \/ (pc = "waiting" /\ pc' = "loop")
               /\ ~Worker
<1> DEFINE Goal == item' = item /\ (pc' = pc \/ (pc = "waiting" /\ pc' = "loop"))
<1>1. CASE Worker
  BY <1>1 DEF Worker, WorkerWait, WorkerExit, WorkerPop, WorkerSkip, WorkerRun, WorkerBegin,
     WorkerDispatch, WorkerRetire, WorkerClearTok, WorkerClearActive, laneVars
<1>2. CASE CancelPendingCollect \/ Teardown
  BY <1>2 DEF Teardown, CancelPendingCollect, CancelPendingNext, CancelPendingFulfill, StopSet,
     StopNotify, StopJoin, StopDrain, WakeConsumer, laneVars
<1>3. ASSUME NEW r \in Requests, Execution(r) PROVE Goal /\ mode' = mode
  BY <1>3 DEF Execution, OpFail, OpChunk, OpBoundary, OpMark, OpSet, OpRelease, WakeConsumer, laneVars
<1>4. ASSUME NEW k \in Clients,
             \/ Notify(k) \/ CancelFulfill(k)
             \/ \E r \in Requests : Cancel(k, r) \/ Reject(k, r)
             \/ \E r \in Requests, i \in Items : Submit(k, r, i)
      PROVE  Goal /\ mode' = mode
  BY <1>4 DEF Notify, CancelFulfill, Cancel, Reject, Submit, WakeConsumer, laneVars
<1>5. CASE UNCHANGED vars
  BY <1>5 DEF vars
<1> QED BY <1>1, <1>2, <1>3, <1>4, <1>5 DEF Next

\* Every step keeps what the consumer's control point says of its item.
LEMMA WorkerShapeStep == LaneInv /\ TypeOK' /\ [Next]_vars => WorkerShape'
<1> SUFFICES ASSUME LaneInv, TypeOK', [Next]_vars PROVE WorkerShape'
  OBVIOUS
<1>0. TypeOK /\ RequestInv /\ Positions /\ WorkerShape /\ InflightShape /\ mode' = mode
  BY WorkerStep DEF LaneInv
<1>00. /\ item \in Requests \cup {NoRequest}
       /\ item = NoRequest <=> pc \in {"loop", "waiting", "exited"}
       /\ pc \in {"loop", "waiting", "begin", "dispatch", "busy", "clear", "clear_active", "exited"}
  BY <1>0 DEF TypeOK, ThreadTypes
<1>1. CASE pc' \in {"loop", "waiting", "exited"}
  BY <1>1 DEF WorkerShape
<1>2. CASE WorkerPop
  <2>1. queue # <<>> /\ item' = Head(queue) /\ pc' = "begin" /\ op' = op
    BY <1>2 DEF WorkerPop, opVars
  <2>2. queue \in Seq(Requests) /\ pushed \in Seq(Requests)
    BY <1>0 DEF TypeOK, RequestTypes, LaneTypes
  <2>3. Head(queue) = queue[1] /\ 1 \in DOMAIN queue /\ Len(queue) >= 1
    BY <2>1, <2>2, TailFacts
  <2>4. item' = pushed[Popped + 1] /\ Popped + 1 \in DOMAIN pushed
    BY <1>0, <2>1, <2>2, <2>3 DEF Positions, Popped
  <2>5. op'[item'] = "idle"
    BY <1>0, <2>1, <2>2, <2>4 DEF Positions, Popped
  <2> QED BY <2>1, <2>5 DEF WorkerShape
<1>3. ASSUME pc = "begin", item \in Requests
      PROVE  /\ op[item] = "idle" /\ ~tok[item].cancellable /\ promise[item] \in {"empty", "cancelled"}
             /\ tok[item].phase \in {"Queued", "Cancelled"}
             /\ tok[item].phase = "Queued" => promise[item] = "empty"
  <2>1. op[item] = "idle"
    BY <1>0, <1>3 DEF WorkerShape
  <2> QED BY <1>0, <1>3, <2>1 DEF RequestInv, RunShape, TokenShape, Window
<1>4. CASE WorkerSkip
  <2>1. pc = "begin" /\ item \in Requests /\ tok[item].phase = "Cancelled" /\ UNCHANGED <<op, tok>>
    BY <1>00, <1>4 DEF WorkerSkip, MayBegin, requestVars, opVars
  <2>2. pc' = "loop" \/ (Serial /\ pc' = "clear" /\ item' = item)
    BY <1>4 DEF WorkerSkip
  <2> QED BY <1>0, <1>1, <1>3, <2>1, <2>2 DEF WorkerShape, Serial
<1>5. CASE WorkerRun
  <2>1. /\ pc' = "busy" /\ item' = item /\ item \in Requests /\ itm' = itm /\ mode' = mode
        /\ Serial \/ itm[item].policy = "Inline"
        /\ op' = [op EXCEPT ![item] = "body"]
    BY <1>00, <1>5 DEF WorkerRun, laneVars
  <2>2. op'[item] = "body"
    BY <1>0, <2>1, Points
  <2> QED BY <2>1, <2>2 DEF WorkerShape, Executing, Serial
<1>6. CASE WorkerBegin
  <2>1. /\ pc = "begin" /\ pc' = "dispatch" /\ item' = item /\ item \in Requests
        /\ UNCHANGED <<itm, mode, op, promise>> /\ ~Serial /\ itm[item].policy = "Async"
        /\ tok[item].phase # "Cancelled"
        /\ tok' = [tok EXCEPT ![item] = Begun(@, itm[item].checkpoint_count)]
    BY <1>00, <1>6 DEF WorkerBegin, laneVars, opVars, MayBegin
  <2>2. tok'[item].phase = "Running"
    BY <1>0, <2>1, Points DEF Begun
  <2> QED BY <1>3, <2>1, <2>2 DEF WorkerShape, Serial
<1>7. CASE WorkerRetire
  <2>1. /\ pc = "busy" /\ item \in Requests /\ op' = [op EXCEPT ![item] = "done"] /\ mode' = mode
        /\ pc' = "loop" \/ (Serial /\ pc' = "clear" /\ item' = item)
    BY <1>00, <1>7 DEF WorkerRetire, laneVars
  <2>2. op'[item] = "done"
    BY <1>0, <2>1, Points
  <2> QED BY <1>1, <2>1, <2>2 DEF WorkerShape, Serial
<1>8. CASE WorkerClearTok
  BY <1>0, <1>8 DEF WorkerClearTok, WorkerShape, Serial, requestVars, opVars
<1>9. CASE WorkerWait \/ WorkerExit \/ WorkerDispatch \/ WorkerClearActive
  BY <1>1, <1>9 DEF WorkerWait, WorkerExit, WorkerDispatch, WorkerClearActive
<1>10. CASE item' = item /\ pc' = pc /\ item # NoRequest /\ ~Worker
  <2>1. item \in Requests
    BY <1>00, <1>10
  <2>2. admission[item] = "admitted"
    BY <1>0, <1>10, HeldAdmitted
  <2>3. itm'[item] = itm[item]
    BY <2>1, <2>2, ItemFixed
  <2>4. \/ op'[item] = op[item]
        \/ Executing(item) /\ (Executing(item)' \/ OpRelease(item))
    BY <1>10, <2>1, OpStep DEF Worker, Executing
  <2>5. CASE pc = "begin"
    BY <1>0, <1>10, <2>4, <2>5 DEF WorkerShape, Executing
  <2>6. CASE pc = "dispatch"
    <3>1. /\ ~Serial /\ itm[item].policy = "Async" /\ op[item] = "idle"
          /\ tok[item].phase \in {"Running", "StopRequested"} /\ promise[item] = "empty"
      BY <1>0, <2>6 DEF WorkerShape
    <3>2. tok'[item] = tok[item] \/ (CancelSucceeds(tok[item]) /\ tok'[item] = Cancelled(tok[item]))
      BY <1>10, <2>1, <3>1, TokenStep DEF Worker, OpBoundary, OpMark
    <3>3. tok'[item].phase \in {"Running", "StopRequested"}
      BY <3>1, <3>2 DEF CancelSucceeds, CancelFulfills, Cancelled
    <3>4. promise'[item] = "empty"
      BY <2>1, <3>1, PromiseStep DEF OpSet, Won
    <3> QED BY <1>0, <1>10, <2>3, <2>4, <2>6, <3>1, <3>3, <3>4 DEF WorkerShape, Serial, Executing
  <2>7. CASE pc = "busy"
    <3>1. Executing(item) /\ (Serial \/ itm[item].policy = "Inline")
      BY <1>0, <2>7 DEF WorkerShape
    <3>2. ~OpRelease(item)
      BY <1>0 DEF OpRelease, EraseToken, InflightShape
    <3> QED BY <1>0, <1>10, <2>3, <2>4, <2>7, <3>1, <3>2 DEF WorkerShape, Serial, Executing
  <2>8. CASE pc \in {"clear", "clear_active"}
    <3>1. /\ Serial
          /\ \/ op[item] = "done"
             \/ op[item] = "idle" /\ tok[item].phase = "Cancelled" /\ ~tok[item].cancellable
      BY <1>0, <2>8 DEF WorkerShape
    <3>2. CASE op[item] = "done"
      BY <1>0, <1>10, <2>4, <2>8, <3>1, <3>2 DEF WorkerShape, Serial, Executing
    <3>3. CASE op[item] = "idle" /\ tok[item].phase = "Cancelled" /\ ~tok[item].cancellable
      <4>1. op'[item] = "idle"
        BY <2>4, <3>3 DEF Executing
      <4>2. tok'[item] = tok[item]
        BY <1>10, <2>1, <3>3, TokenStep
           DEF Worker, OpBoundary, OpMark, CancelSucceeds, CancelFulfills
      <4> QED BY <1>0, <1>10, <2>8, <3>1, <3>3, <4>1, <4>2 DEF WorkerShape, Serial
    <3> QED BY <3>1, <3>2, <3>3
  <2> QED BY <1>00, <1>10, <2>5, <2>6, <2>7, <2>8
<1> QED BY <1>00, <1>1, <1>2, <1>4, <1>5, <1>6, <1>7, <1>8, <1>9, <1>10, WorkerStep DEF Worker
-----------------------------------------------------------------------------
(* The operations in flight.                                                *)

\* The slots in flight: taken at a dispatch, given back by a continuation.
LEMMA SlotStep ==
  ASSUME [Next]_vars
  PROVE  \/ WorkerDispatch
         \/ \E r \in Requests : OpRelease(r)
         \/ UNCHANGED <<inflight, inflight_toks>>
<1>1. CASE Worker
  BY <1>1 DEF Worker, WorkerWait, WorkerExit, WorkerPop, WorkerSkip, WorkerRun, WorkerBegin,
     WorkerRetire, WorkerClearTok, WorkerClearActive, laneVars
<1>2. CASE CancelPendingCollect \/ Teardown
  BY <1>2 DEF Teardown, CancelPendingCollect, CancelPendingNext, CancelPendingFulfill, StopSet,
     StopNotify, StopJoin, StopDrain, laneVars
<1>3. ASSUME NEW r \in Requests, Execution(r)
      PROVE  OpRelease(r) \/ UNCHANGED <<inflight, inflight_toks>>
  BY <1>3 DEF Execution, OpFail, OpChunk, OpBoundary, OpMark, OpSet, laneVars
<1>4. ASSUME NEW k \in Clients,
             \/ Notify(k) \/ CancelFulfill(k)
             \/ \E r \in Requests : Cancel(k, r) \/ Reject(k, r)
             \/ \E r \in Requests, i \in Items : Submit(k, r, i)
      PROVE  UNCHANGED <<inflight, inflight_toks>>
  BY <1>4 DEF Notify, CancelFulfill, Cancel, Reject, Submit, laneVars
<1>5. CASE UNCHANGED vars
  BY <1>5 DEF vars
<1> QED BY <1>1, <1>2, <1>3, <1>4, <1>5 DEF Next

\* Every step keeps inflight_ the length of inflight_toks_, and its entries running.
LEMMA InflightShapeStep == LaneInv /\ TypeOK' /\ [Next]_vars => InflightShape'
<1> SUFFICES ASSUME LaneInv, TypeOK', [Next]_vars PROVE InflightShape'
  OBVIOUS
<1>0. TypeOK /\ RequestInv /\ Positions /\ WorkerShape /\ InflightShape /\ mode' = mode
  BY WorkerStep DEF LaneInv
<1>00. inflight_toks \in Seq(Requests) /\ item \in Requests \cup {NoRequest} /\ NoRequest \notin Requests
       /\ Len(inflight_toks) \in Nat /\ DOMAIN inflight_toks = 1..Len(inflight_toks)
  <2>1. inflight_toks \in Seq(Requests) /\ item \in Requests \cup {NoRequest}
    BY <1>0 DEF TypeOK, LaneTypes, ThreadTypes
  <2> QED BY <2>1, RuntimeLaneAssumption
\* A request in flight stays so, unless its continuation ends.
<1>1. ASSUME NEW r \in Requests, \E i \in DOMAIN inflight_toks : inflight_toks[i] = r, ~OpRelease(r)
      PROVE  Executing(r)' /\ itm'[r].policy = "Async" /\ r # item'
  <2>2. Executing(r) /\ itm[r].policy = "Async" /\ r # item
    BY <1>0, <1>1 DEF InflightShape
  <2>3. Executing(r)'
    BY <1>1, <2>2, OpStep DEF Executing
  <2>4. itm'[r] = itm[r]
    BY <1>0, <2>2, HeldAdmitted, ItemFixed DEF Executing
  <2>5. r # item'
    <3>1. CASE WorkerPop
      <4>1. op'[item'] = "idle"
        BY <3>1, WorkerShapeStep DEF WorkerShape, WorkerPop
      <4> QED BY <2>3, <4>1 DEF Executing
    <3>2. CASE ~WorkerPop
      <4>1. item' = item \/ item' = NoRequest
        BY <1>0, <3>2, QueueStep DEF Submit
      <4> QED BY <1>00, <2>2, <4>1
    <3> QED BY <3>1, <3>2
  <2> QED BY <2>2, <2>3, <2>4, <2>5
\* What the consumer runs itself.
<1>2. ASSUME NEW r \in Requests, Executing(r), Executing(r)', pc = "busy", item = r
      PROVE  pc' = "busy" /\ item' = r
  <2>1. CASE Worker
    <3>1. WorkerRetire
      BY <1>2, <2>1 DEF Worker, WorkerWait, WorkerExit, WorkerPop, WorkerSkip, WorkerRun,
         WorkerBegin, WorkerDispatch, WorkerClearTok, WorkerClearActive
    <3>2. op'[r] = "done"
      BY <1>0, <1>2, <3>1, Points DEF WorkerRetire
    <3> QED BY <1>2, <3>2 DEF Executing
  <2>2. CASE ~Worker
    BY <1>2, <2>2, WorkerStep
  <2> QED BY <2>1, <2>2
<1>3. CASE WorkerDispatch
  <2>1. /\ pc = "dispatch" /\ inflight' = inflight + 1 /\ item' = NoRequest
        /\ inflight_toks' = Append(inflight_toks, item)
        /\ op' = [op EXCEPT ![item] = "body"] /\ itm' = itm
    BY <1>3 DEF WorkerDispatch, requestVars
  <2>2. item \in Requests
    BY <1>0, <2>1 DEF TypeOK, ThreadTypes
  <2>3. /\ Len(inflight_toks') = Len(inflight_toks) + 1
        /\ DOMAIN inflight_toks' = 1..(Len(inflight_toks) + 1)
        /\ \A i \in 1..Len(inflight_toks) : inflight_toks'[i] = inflight_toks[i]
        /\ inflight_toks'[Len(inflight_toks) + 1] = item
    BY <1>00, <2>1, <2>2, AppendFacts
  <2>4. ~Serial /\ itm[item].policy = "Async" /\ op[item] = "idle"
    BY <1>0, <2>1 DEF WorkerShape
  <2>5. \A r \in Requests : ~OpRelease(r)
    <3>1. inflight \in Int
      BY <1>0 DEF TypeOK, LaneTypes
    <3> QED BY <2>1, <3>1 DEF OpRelease
  <2>6. op'[item] = "body" /\ \A r \in Requests : r # item => op'[r] = op[r]
    BY <1>0, <2>1, <2>2, Points
  <2>7. \A i, j \in DOMAIN inflight_toks' : inflight_toks'[i] = inflight_toks'[j] => i = j
    BY <1>0, <1>00, <2>3 DEF InflightShape
  <2>8. ASSUME NEW i \in DOMAIN inflight_toks'
        PROVE  /\ Executing(inflight_toks[i])' /\ itm'[inflight_toks'[i]].policy = "Async"
               /\ inflight_toks'[i] # item'
    <3>1. CASE i = Len(inflight_toks) + 1
      BY <1>00, <2>1, <2>2, <2>3, <2>4, <2>6, <3>1 DEF Executing
    <3>2. CASE i \in DOMAIN inflight_toks
      BY <1>00, <1>1, <2>3, <2>5, <3>2 DEF Executing
    <3> QED BY <1>00, <2>3, <3>1, <3>2
  <2>9. ASSUME NEW r \in Requests, Executing(r)'
        PROVE  \E i \in DOMAIN inflight_toks' : inflight_toks'[i] = r
    <3>1. CASE r = item
      BY <1>00, <2>3, <3>1
    <3>2. CASE r # item
      <4>1. Executing(r)
        BY <2>6, <2>9, <3>2 DEF Executing
      <4>2. PICK i \in DOMAIN inflight_toks : inflight_toks[i] = r
        BY <1>0, <2>1, <4>1 DEF InflightShape
      <4> QED BY <1>00, <2>3, <4>2
    <3> QED BY <3>1, <3>2
  <2>10. inflight' = Len(inflight_toks')
    BY <1>0, <2>1, <2>3 DEF InflightShape
  <2> QED BY <1>0, <2>4, <2>7, <2>8, <2>9, <2>10 DEF InflightShape, Serial
<1>4. ASSUME NEW r \in Requests, OpRelease(r) PROVE InflightShape'
  <2>1. /\ op[r] = "retire" /\ op' = [op EXCEPT ![r] = "done"] /\ inflight' = inflight - 1
        /\ item' = item /\ itm' = itm
        /\ EraseToken(r)
    BY <1>4 DEF OpRelease, requestVars
  <2>2. PICK i \in DOMAIN inflight_toks :
          inflight_toks[i] = r /\ inflight_toks' = Erased(inflight_toks, i)
    BY <2>1 DEF EraseToken
  <2>3. /\ Len(inflight_toks') = Len(inflight_toks) - 1
        /\ DOMAIN inflight_toks' = 1..(Len(inflight_toks) - 1)
        /\ \A j \in 1..(Len(inflight_toks) - 1) :
             inflight_toks'[j] = IF j < i THEN inflight_toks[j] ELSE inflight_toks[j + 1]
    BY <1>00, <2>2, ErasedFacts
  <2>4. op'[r] = "done" /\ \A s \in Requests : s # r => op'[s] = op[s]
    BY <1>0, <2>1, Points
  <2>5. \A j, k \in DOMAIN inflight_toks : inflight_toks[j] = inflight_toks[k] => j = k
    BY <1>0 DEF InflightShape
  <2>6. \A j \in DOMAIN inflight_toks' : \E k \in DOMAIN inflight_toks :
          /\ k # i /\ inflight_toks'[j] = inflight_toks[k]
          /\ k = IF j < i THEN j ELSE j + 1
    BY <1>00, <2>3
  <2>7. \A j, k \in DOMAIN inflight_toks' : inflight_toks'[j] = inflight_toks'[k] => j = k
    BY <1>00, <2>3, <2>5, <2>6
  <2>8. ASSUME NEW j \in DOMAIN inflight_toks'
        PROVE  /\ Executing(inflight_toks[j])' /\ itm'[inflight_toks'[j]].policy = "Async"
               /\ inflight_toks'[j] # item'
    <3>1. PICK k \in DOMAIN inflight_toks : k # i /\ inflight_toks'[j] = inflight_toks[k]
      BY <2>6
    <3>2. inflight_toks[k] \in Requests /\ inflight_toks[k] # r
      BY <1>00, <2>2, <2>5, <3>1
    <3>3. Executing(inflight_toks[k]) /\ itm[inflight_toks[k]].policy = "Async" /\ inflight_toks[k] # item
      BY <1>0 DEF InflightShape
    <3> QED BY <2>1, <2>4, <3>1, <3>2, <3>3 DEF Executing
  <2>9. ASSUME NEW s \in Requests, Executing(s)'
        PROVE  (pc' = "busy" /\ item' = s) \/ \E j \in DOMAIN inflight_toks' : inflight_toks'[j] = s
    <3>1. s # r /\ Executing(s)
      BY <2>4, <2>9 DEF Executing
    <3>2. CASE pc = "busy" /\ item = s
      BY <1>2, <2>9, <3>1, <3>2
    <3>3. ASSUME NEW k \in DOMAIN inflight_toks, inflight_toks[k] = s
          PROVE  \E j \in DOMAIN inflight_toks' : inflight_toks'[j] = s
      <4>1. k # i
        BY <2>2, <3>1, <3>3
      <4>2. CASE k < i
        <5>1. k \in DOMAIN inflight_toks' /\ inflight_toks'[k] = s
          BY <1>00, <2>2, <2>3, <3>3, <4>2
        <5> QED BY <5>1
      <4>3. CASE k > i
        <5>1. k - 1 \in DOMAIN inflight_toks' /\ ~(k - 1 < i) /\ (k - 1) + 1 = k
          BY <1>00, <2>2, <2>3, <3>3, <4>3
        <5>2. inflight_toks'[k - 1] = s
          BY <2>3, <3>3, <5>1
        <5> QED BY <5>1, <5>2
      <4> QED BY <1>00, <4>1, <4>2, <4>3
    <3> QED BY <1>0, <3>1, <3>2, <3>3 DEF InflightShape
  <2>10. inflight' = Len(inflight_toks') /\ ~Serial
    BY <1>0, <1>00, <2>1, <2>2, <2>3 DEF InflightShape
  <2> QED BY <1>0, <2>7, <2>8, <2>9, <2>10 DEF InflightShape, Serial
<1>5. CASE UNCHANGED <<inflight, inflight_toks>> /\ ~WorkerDispatch /\ \A r \in Requests : ~OpRelease(r)
  <2>1. ASSUME NEW i \in DOMAIN inflight_toks'
        PROVE  /\ Executing(inflight_toks[i])' /\ itm'[inflight_toks'[i]].policy = "Async"
               /\ inflight_toks'[i] # item'
    <3>1. inflight_toks' = inflight_toks /\ inflight_toks[i] \in Requests
      BY <1>00, <1>5, <2>1
    <3> QED BY <1>1, <1>5, <2>1, <3>1 DEF Executing
  <2>2. ASSUME NEW r \in Requests, Executing(r)'
        PROVE  (pc' = "busy" /\ item' = r) \/ \E j \in DOMAIN inflight_toks' : inflight_toks'[j] = r
    <3>1. CASE Executing(r)
      BY <1>0, <1>2, <1>5, <2>2, <3>1 DEF InflightShape
    <3>2. CASE ~Executing(r)
      <4>1. item = r /\ WorkerRun
        BY <1>5, <2>2, <3>2, OpStep DEF Executing
      <4> QED BY <4>1 DEF WorkerRun
    <3> QED BY <3>1, <3>2
  <2> QED BY <1>0, <1>5, <2>1, <2>2 DEF InflightShape, Serial
<1> QED BY <1>3, <1>4, <1>5, SlotStep
-----------------------------------------------------------------------------
(* The slot in service and the earlier pushes.                              *)

\* Every step keeps active_ and active_tok_ in step with the consumer.
LEMMA ServiceSlotStep == LaneInv /\ TypeOK' /\ [Next]_vars => ServiceSlot'
<1> SUFFICES ASSUME LaneInv, TypeOK', [Next]_vars PROVE ServiceSlot'
  OBVIOUS
<1>0. TypeOK /\ WorkerShape /\ ServiceSlot /\ mode' = mode
  BY WorkerStep DEF LaneInv
<1>00. /\ item = NoRequest <=> pc \in {"loop", "waiting", "exited"}
       /\ item' = NoRequest <=> pc' \in {"loop", "waiting", "exited"}
  BY <1>0 DEF TypeOK, ThreadTypes
<1>1. CASE WorkerPop
  BY <1>0, <1>00, <1>1 DEF WorkerPop, ServiceSlot, Serial
<1>2. CASE WorkerSkip \/ WorkerRun \/ WorkerBegin \/ WorkerDispatch \/ WorkerRetire
  <2>1. UNCHANGED <<active, active_tok>>
    BY <1>2 DEF WorkerSkip, WorkerRun, WorkerBegin, WorkerDispatch, WorkerRetire, laneVars
  <2> QED BY <1>0, <1>00, <1>2, <2>1
          DEF WorkerSkip, WorkerRun, WorkerBegin, WorkerDispatch, WorkerRetire, ServiceSlot,
              WorkerShape, Serial
<1>3. CASE WorkerClearTok \/ WorkerClearActive
  BY <1>0, <1>00, <1>3 DEF WorkerClearTok, WorkerClearActive, ServiceSlot, WorkerShape, Serial
<1>4. CASE WorkerWait \/ WorkerExit
  BY <1>0, <1>4 DEF WorkerWait, WorkerExit, laneVars, ServiceSlot, Serial
<1>5. CASE ~Worker
  <2>1. UNCHANGED <<active, active_tok>>
    BY <1>5 DEF Next, vars, Teardown, CancelPendingCollect, CancelPendingNext, CancelPendingFulfill,
       StopSet, StopNotify, StopJoin, StopDrain, Execution, OpFail, OpChunk, OpBoundary, OpMark,
       OpSet, OpRelease, Notify, CancelFulfill, Cancel, Reject, Submit, laneVars
  <2>2. item' = item /\ (pc' = pc \/ (pc = "waiting" /\ pc' = "loop"))
    BY <1>5, WorkerStep
  <2> QED BY <1>0, <2>1, <2>2 DEF ServiceSlot, Serial
<1> QED BY <1>1, <1>2, <1>3, <1>4, <1>5 DEF Worker

\* A thread that is about to set a promise does so, or is still about to.
LEMMA BeingCancelledStep ==
  ASSUME LaneInv, [Next]_vars, NEW r \in Requests, BeingCancelled(r)
  PROVE  Settled(r)' \/ BeingCancelled(r)'
<1>0. TypeOK
  BY DEF LaneInv
<1>1. ASSUME NEW k \in Clients, cpc[k] = "fulfill", carg[k] = r
      PROVE  Settled(r)' \/ BeingCancelled(r)'
  <2>1. CASE CancelFulfill(k)
    BY <1>0, <1>1, <2>1, Points DEF CancelFulfill, SetValue, Settled
  <2>2. CASE ~CancelFulfill(k)
    <3>1. ASSUME NEW m \in Clients, m # k,
                 \/ Notify(m) \/ CancelFulfill(m) \/ \E s \in Requests : Cancel(m, s)
                 \/ \E s \in Requests, i \in Items : Submit(m, s, i)
          PROVE  cpc'[k] = cpc[k] /\ carg'[k] = carg[k]
      BY <1>0, <3>1, Points DEF Notify, CancelFulfill, Cancel, Submit, clientVars
    <3>2. /\ ~Notify(k) /\ \A s \in Requests : ~Cancel(k, s)
          /\ \A s \in Requests, i \in Items : ~Submit(k, s, i)
      BY <1>1 DEF Notify, Cancel, Submit
    <3>3. ASSUME \/ Worker \/ CancelPendingCollect \/ Teardown \/ UNCHANGED vars
                 \/ \E s \in Requests : Execution(s)
                 \/ \E m \in Clients, s \in Requests : Reject(m, s)
          PROVE  cpc' = cpc /\ carg' = carg
      BY <3>3 DEF Worker, WorkerWait, WorkerExit, WorkerPop, WorkerSkip, WorkerRun, WorkerBegin,
         WorkerDispatch, WorkerRetire, WorkerClearTok, WorkerClearActive, Teardown,
         CancelPendingCollect, CancelPendingNext, CancelPendingFulfill, StopSet, StopNotify, StopJoin,
         StopDrain, Execution, OpFail, OpChunk, OpBoundary, OpMark, OpSet, OpRelease, Reject,
         clientVars, vars
    <3>4. cpc'[k] = cpc[k] /\ carg'[k] = carg[k]
      BY <2>2, <3>1, <3>2, <3>3 DEF Next
    <3> QED BY <1>1, <3>4 DEF BeingCancelled
  <2> QED BY <2>1, <2>2
<1>2. CASE sd = "fulfill" /\ Head(sdtoks) = r
  <2>1. CASE CancelPendingFulfill
    BY <1>0, <1>2, <2>1, Points DEF CancelPendingFulfill, SetValue, Settled
  <2>2. CASE ~CancelPendingFulfill
    <3>1. sd' = "fulfill" /\ sdtoks' = sdtoks
      BY <1>2, <2>2 DEF Next, vars, Worker, WorkerWait, WorkerExit, WorkerPop, WorkerSkip, WorkerRun,
         WorkerBegin, WorkerDispatch, WorkerRetire, WorkerClearTok, WorkerClearActive, Teardown,
         CancelPendingCollect, CancelPendingNext, StopSet, StopNotify, StopJoin, StopDrain, Execution,
         OpFail, OpChunk, OpBoundary, OpMark, OpSet, OpRelease, Notify, CancelFulfill, Cancel, Reject,
         Submit, teardownVars
    <3> QED BY <1>2, <3>1 DEF BeingCancelled
  <2> QED BY <2>1, <2>2
<1> QED BY <1>1, <1>2 DEF BeingCancelled

\* Nothing unsettles an operation.
LEMMA SettledStays ==
  ASSUME LaneInv, [Next]_vars, NEW r \in Requests, Settled(r)
  PROVE  Settled(r)'
<1>1. OpSet(r) /\ promise[r] = "empty" => FALSE
  BY DEF Settled
<1> QED BY <1>1, PromiseStep DEF Settled

\* Every step keeps the consumer done with the earlier pushes.
LEMMA EarlierDoneStep == LaneInv /\ TypeOK' /\ [Next]_vars => EarlierDone'
<1> SUFFICES ASSUME LaneInv, TypeOK', [Next]_vars PROVE EarlierDone'
  OBVIOUS
<1>0. TypeOK /\ RequestInv /\ Positions /\ WorkerShape /\ EarlierDone /\ Cancellers /\ mode' = mode
  BY WorkerStep DEF LaneInv
<1>00. /\ queue \in Seq(Requests) /\ pushed \in Seq(Requests) /\ item \in Requests \cup {NoRequest}
       /\ item = NoRequest <=> pc \in {"loop", "waiting", "exited"}
       /\ Len(queue) \in Nat /\ Len(pushed) \in Nat
       /\ DOMAIN pushed = 1..Len(pushed) /\ DOMAIN queue = 1..Len(queue)
  <2>1. /\ queue \in Seq(Requests) /\ pushed \in Seq(Requests) /\ item \in Requests \cup {NoRequest}
        /\ item = NoRequest <=> pc \in {"loop", "waiting", "exited"}
    BY <1>0 DEF TypeOK, RequestTypes, LaneTypes, ThreadTypes
  <2> QED BY <2>1
\* A queued cancel that has won.
<1>1. ASSUME NEW r \in Requests, tok'[r].phase = "Cancelled", ~tok'[r].cancellable
      PROVE  Settled(r)' \/ BeingCancelled(r)'
  <2>1. CASE tok'[r] = tok[r]
    BY <1>0, <1>1, <2>1, BeingCancelledStep, SettledStays DEF EarlierDone
  <2>2. CASE CancelSucceeds(tok[r]) /\ tok'[r] = Cancelled(tok[r])
    <3>1. CancelFulfills(tok[r])
      BY <1>1, <2>2 DEF Cancelled
    <3>2. ASSUME NEW k \in Clients, Cancel(k, r) PROVE BeingCancelled(r)'
      <4>1. cpc'[k] = "fulfill" /\ carg'[k] = r
        BY <1>0, <3>1, <3>2, Points DEF Cancel
      <4> QED BY <4>1 DEF BeingCancelled
    <3>3. CASE CancelPendingNext /\ Head(sdtoks) = r
      BY <3>1, <3>3 DEF CancelPendingNext, BeingCancelled
    <3>4. CASE tok'[r] = tok[r]
      BY <2>1, <3>4
    <3>5. ~(item = r /\ (WorkerRun \/ WorkerBegin))
      BY <1>0, <1>1, Points DEF WorkerRun, WorkerBegin, Begun
    <3>6. ~(OpBoundary(r) \/ OpMark(r))
      BY <1>0, <3>1 DEF OpBoundary, OpMark, RequestInv, TokenShape, CancelFulfills
    <3> QED BY <3>2, <3>3, <3>4, <3>5, <3>6, TokenStep
  <2>3. CASE item = r /\ (WorkerRun \/ WorkerBegin)
    BY <1>0, <1>1, <2>3, Points DEF WorkerRun, WorkerBegin, Begun
  <2>4. CASE OpBoundary(r)
    <3>1. tok'[r] = AtBoundary(tok[r], c[r] = itm[r].checkpoint_count - 1)
      BY <1>0, <2>4, Points DEF OpBoundary
    <3>2. /\ tok[r].phase \in {"Running", "StopRequested"}
          /\ tok[r].phase = "StopRequested" => tok[r].cancellable
      BY <1>0, <2>4 DEF OpBoundary, RequestInv, RunShape, TokenShape
    <3> QED BY <1>1, <3>1, <3>2 DEF AtBoundary, MustStop
  <2>5. CASE OpMark(r)
    <3>1. tok'[r] = Finished(tok[r])
      BY <1>0, <2>5, Points DEF OpMark
    <3>2. tok[r].phase \in {"Running", "StopRequested"}
      BY <1>0, <2>5 DEF OpMark, RequestInv, RunShape
    <3> QED BY <1>1, <3>1, <3>2 DEF Finished
  <2> QED BY <2>1, <2>2, <2>3, <2>4, <2>5, TokenStep
\* An operation the consumer is done with.
<1>2. ASSUME NEW r \in Requests,
             Settled(r) \/ BeingCancelled(r) \/ (~Serial /\ op[r] # "idle")
      PROVE  Settled(r)' \/ BeingCancelled(r)' \/ (~Serial' /\ op'[r] # "idle")
  <2>1. op[r] # "idle" => op'[r] # "idle"
    BY OpStep DEF Executing
  <2> QED BY <1>0, <1>2, <2>1, SettledStays, BeingCancelledStep DEF Serial
\* The item the consumer lets go.
<1>3. ASSUME NEW r \in Requests, item = r, item' # r
      PROVE  Settled(r)' \/ BeingCancelled(r)' \/ (~Serial' /\ op'[r] # "idle")
  <2>0. item # NoRequest
    BY <1>3, RuntimeLaneAssumption
  <2>1. item = r
    BY <1>3
  <2>2. CASE WorkerSkip
    <3>1. pc = "begin" /\ tok[r].phase = "Cancelled" /\ tok' = tok
      BY <2>1, <2>2 DEF WorkerSkip, MayBegin, requestVars
    <3>2. op[r] = "idle"
      BY <1>0, <2>1, <3>1 DEF WorkerShape
    <3>3. ~tok[r].cancellable
      BY <1>0, <3>1, <3>2 DEF RequestInv, RunShape, Window
    <3>4. Settled(r)' \/ BeingCancelled(r)'
      BY <1>1, <3>1, <3>3
    <3> QED BY <3>4
  <2>3. CASE WorkerDispatch
    <3>1. pc = "dispatch" /\ op'[r] = "body"
      BY <1>0, <2>1, <2>3, Points DEF WorkerDispatch
    <3>2. ~Serial
      BY <1>0, <3>1 DEF WorkerShape
    <3> QED BY <1>0, <2>1, <3>1, <3>2 DEF Serial
  <2>4. CASE WorkerRetire
    <3>1. op'[r] = "done" /\ ~Serial
      BY <1>0, <1>3, <2>1, <2>4, Points DEF WorkerRetire
    <3> QED BY <1>0, <2>1, <3>1 DEF Serial
  <2>5. CASE WorkerClearActive
    <3>1. pc = "clear_active" /\ UNCHANGED <<promise, tok>>
      BY <2>5 DEF WorkerClearActive, requestVars
    <3>2. op[r] = "done" \/ (tok[r].phase = "Cancelled" /\ ~tok[r].cancellable)
      BY <1>0, <2>1, <3>1 DEF WorkerShape
    <3>3. CASE op[r] = "done"
      <4>1. promise'[r] # "empty"
        BY <1>0, <3>1, <3>3 DEF RequestInv, OutcomeShape
      <4> QED BY <4>1 DEF Settled
    <3>4. CASE tok[r].phase = "Cancelled" /\ ~tok[r].cancellable
      <4>1. Settled(r)' \/ BeingCancelled(r)'
        BY <1>1, <3>1, <3>4
      <4> QED BY <4>1
    <3> QED BY <3>2, <3>3, <3>4
  <2>6. WorkerSkip \/ WorkerDispatch \/ WorkerRetire \/ WorkerClearActive
    BY <1>00, <1>3, <2>0, WorkerStep DEF Worker, WorkerWait, WorkerExit, WorkerPop, WorkerRun,
       WorkerBegin, WorkerClearTok
  <2> QED BY <2>2, <2>3, <2>4, <2>5, <2>6
<1>4. ASSUME NEW r \in Requests, NEW i \in DOMAIN pushed, i <= Popped, pushed[i] = r, r # item'
      PROVE  Settled(r)' \/ BeingCancelled(r)' \/ (~Serial' /\ op'[r] # "idle")
  <2>1. CASE r # item
    <3>1. Settled(r) \/ BeingCancelled(r) \/ (~Serial /\ op[r] # "idle")
      BY <1>0, <1>4, <2>1 DEF EarlierDone
    <3> QED BY <1>2, <3>1
  <2>2. CASE r = item
    BY <1>3, <1>4, <2>2
  <2> QED BY <2>1, <2>2
<1>5. ASSUME NEW r \in Requests, NEW i \in DOMAIN pushed', i <= Popped', pushed'[i] = r, r # item'
      PROVE  Settled(r)' \/ BeingCancelled(r)' \/ (~Serial' /\ op'[r] # "idle")
  <2>1. ASSUME NEW k \in Clients, NEW s \in Requests, NEW x \in Items, Submit(k, s, x)
        PROVE  i \in DOMAIN pushed /\ i <= Popped /\ pushed'[i] = pushed[i]
    <3>1. pushed' = Append(pushed, s) /\ queue' = Append(queue, s)
      BY <2>1 DEF Submit, PushedBack
    <3>2. /\ Len(pushed') = Len(pushed) + 1 /\ DOMAIN pushed' = 1..(Len(pushed) + 1)
          /\ \A j \in 1..Len(pushed) : pushed'[j] = pushed[j]
          /\ Len(queue') = Len(queue) + 1
      BY <1>00, <3>1, AppendFacts
    <3>3. Popped' = Popped /\ Popped <= Len(pushed)
      BY <1>00, <3>2 DEF Popped
    <3> QED BY <1>00, <1>5, <3>2, <3>3 DEF Popped
  <2>2. CASE WorkerPop
    <3>1. queue # <<>> /\ queue' = Tail(queue) /\ pushed' = pushed /\ item' = Head(queue)
      BY <2>2 DEF WorkerPop, requestVars
    <3>2. Len(queue') = Len(queue) - 1 /\ 1 \in DOMAIN queue /\ item' = queue[1]
      BY <1>00, <3>1, TailFacts
    <3>3. Popped' = Popped + 1 /\ item' = pushed[Popped + 1]
      <4>1. item' = pushed[Popped + 1]
        BY <1>0, <3>2 DEF Positions
      <4>2. Popped' = Popped + 1
        BY <1>00, <3>1, <3>2 DEF Popped
      <4> QED BY <4>1, <4>2
    <3>4. i # Popped + 1
      BY <1>5, <3>1, <3>3
    <3>5. i \in DOMAIN pushed /\ i <= Popped /\ pushed'[i] = pushed[i]
      BY <1>00, <1>5, <3>1, <3>3, <3>4 DEF Popped
    <3> QED BY <1>4, <1>5, <3>5
  <2>3. CASE UNCHANGED <<pushed, queue>>
    <3>1. i \in DOMAIN pushed /\ i <= Popped /\ pushed'[i] = pushed[i]
      BY <1>5, <2>3 DEF Popped
    <3> QED BY <1>4, <1>5, <3>1
  <2> QED BY <1>0, <1>4, <1>5, <2>1, <2>2, <2>3, QueueStep
<1>6. \A r \in Requests : tok'[r].phase = "Cancelled" /\ ~tok'[r].cancellable =>
        Settled(r)' \/ BeingCancelled(r)'
  BY <1>1
<1>7. pushed' \in Seq(Requests)
  BY DEF TypeOK, RequestTypes
<1>8. ASSUME NEW i \in DOMAIN pushed', i <= Popped', pushed'[i] # item'
      PROVE  \/ Settled(pushed[i])' \/ BeingCancelled(pushed[i])'
             \/ ~Serial' /\ op'[pushed'[i]] # "idle"
  <2>1. PICK r \in Requests : pushed'[i] = r
    BY <1>7
  <2>2. Settled(r)' \/ BeingCancelled(r)' \/ (~Serial' /\ op'[r] # "idle")
    BY <1>5, <1>8, <2>1
  <2> QED BY <2>1, <2>2 DEF Settled, BeingCancelled
<1> QED BY <1>6, <1>8 DEF EarlierDone
-----------------------------------------------------------------------------
(* The teardown and the caps.                                               *)

\* A consumer that begins its item takes it from the state Queued.
LEMMA BeginsQueued ==
  ASSUME LaneInv, WorkerRun \/ WorkerBegin
  PROVE  item \in Requests /\ tok[item].phase = "Queued"
<1>0. TypeOK /\ RequestInv /\ WorkerShape
  BY DEF LaneInv
<1>1. pc = "begin" /\ tok[item].phase # "Cancelled"
  BY DEF WorkerRun, WorkerBegin, MayBegin
<1>2. item \in Requests /\ op[item] = "idle"
  BY <1>0, <1>1 DEF TypeOK, ThreadTypes, WorkerShape
<1> QED BY <1>0, <1>1, <1>2 DEF RequestInv, RunShape, Window

\* Only time takes the chance to cancel away, and nothing gives it back.
LEMMA CancellableStep ==
  ASSUME LaneInv, [Next]_vars, NEW r \in Requests
  PROVE  /\ Cancellable(r)' => Cancellable(r)
         /\ tok'[r].phase = "Queued" => tok[r].phase = "Queued"
<1>0. TypeOK /\ RequestInv
  BY DEF LaneInv
<1>1. CASE tok'[r] = tok[r]
  BY <1>1 DEF Cancellable
<1>2. CASE CancelSucceeds(tok[r]) /\ tok'[r] = Cancelled(tok[r])
  BY <1>2 DEF Cancelled, Cancellable
<1>3. CASE item = r /\ (WorkerRun \/ WorkerBegin)
  BY <1>3, BeginsQueued DEF Cancellable
<1>4. CASE OpBoundary(r)
  <2>1. tok'[r] = AtBoundary(tok[r], c[r] = itm[r].checkpoint_count - 1)
    BY <1>0, <1>4, Points DEF OpBoundary
  <2>2. tok'[r].phase # "Queued" /\ (Cancellable(r)' => tok'[r].phase = "Running" /\ tok'[r].cancellable)
    <3>1. tok[r].phase \in {"Running", "StopRequested"}
      BY <1>0, <1>4 DEF OpBoundary, RequestInv, RunShape
    <3>2. tok'[r].phase \in {"Cancelled", tok[r].phase}
      BY <2>1 DEF AtBoundary
    <3> QED BY <3>1, <3>2 DEF Cancellable
  <2>3. ASSUME tok'[r].phase = "Running", tok'[r].cancellable
        PROVE  tok[r].phase = "Running" /\ tok[r].cancellable
    <3> DEFINE last == c[r] = itm[r].checkpoint_count - 1
    <3>1. ~MustStop(tok[r]) /\ tok'[r] = [phase |-> tok[r].phase, cancellable |-> tok[r].cancellable /\ ~last]
      BY <2>1, <2>3 DEF AtBoundary
    <3>2. tok[r].phase = "Running"
      BY <2>3, <3>1
    <3> HIDE DEF last
    <3>3. tok[r].cancellable
      <4> SUFFICES ASSUME ~tok[r].cancellable PROVE FALSE
        OBVIOUS
      <4>1. (tok[r].cancellable /\ ~last) = FALSE
        OBVIOUS
      <4>2. tok'[r] = [phase |-> tok[r].phase, cancellable |-> FALSE]
        BY <3>1, <4>1, Zenon
      <4> QED BY <2>3, <4>2
    <3> QED BY <3>2, <3>3
  <2> QED BY <2>2, <2>3 DEF Cancellable
<1>5. CASE OpMark(r)
  <2>1. tok'[r] = Finished(tok[r])
    BY <1>0, <1>5, Points DEF OpMark
  <2>2. tok[r].phase \in {"Running", "StopRequested"}
    BY <1>0, <1>5 DEF OpMark, RequestInv, RunShape
  <2> QED BY <2>1, <2>2 DEF Finished, Cancellable
<1> QED BY <1>1, <1>2, <1>3, <1>4, <1>5, TokenStep

\* The stages of a teardown: what moves stop_ and the teardown thread.
LEMMA StageStep ==
  ASSUME [Next]_vars
  PROVE  \/ CancelPendingCollect \/ CancelPendingNext \/ CancelPendingFulfill
         \/ StopSet \/ StopNotify \/ StopJoin \/ StopDrain
         \/ \E r \in Requests : OpRelease(r)
         \/ UNCHANGED <<stop, sd, sdtoks>>
<1>1. CASE Worker
  BY <1>1 DEF Worker, WorkerWait, WorkerExit, WorkerPop, WorkerSkip, WorkerRun, WorkerBegin,
     WorkerDispatch, WorkerRetire, WorkerClearTok, WorkerClearActive, laneVars, teardownVars
<1>2. ASSUME NEW r \in Requests, Execution(r)
      PROVE  OpRelease(r) \/ UNCHANGED <<stop, sd, sdtoks>>
  BY <1>2 DEF Execution, OpFail, OpChunk, OpBoundary, OpMark, OpSet, laneVars, teardownVars
<1>3. ASSUME NEW k \in Clients,
             \/ Notify(k) \/ CancelFulfill(k)
             \/ \E r \in Requests : Cancel(k, r) \/ Reject(k, r)
             \/ \E r \in Requests, i \in Items : Submit(k, r, i)
      PROVE  UNCHANGED <<stop, sd, sdtoks>>
  BY <1>3 DEF Notify, CancelFulfill, Cancel, Reject, Submit, laneVars, teardownVars
<1>4. CASE UNCHANGED vars
  BY <1>4 DEF vars
<1> QED BY <1>1, <1>2, <1>3, <1>4 DEF Next, Teardown

\* A token leaves the teardown's list once cancelling it would do nothing more.
LEMMA TeardownKeeps ==
  ASSUME LaneInv, [Next]_vars, sd # "alive", NEW r \in Requests,
         Cancellable(r) => InTeardown(r), Cancellable(r)'
  PROVE  InTeardown(r)'
<1>0. TypeOK /\ Cancellers
  BY DEF LaneInv
<1>1. sdtoks \in Seq(Requests)
  BY <1>0 DEF TypeOK, ThreadTypes
<1>2. Cancellable(r) /\ InTeardown(r)
  BY CancellableStep
<1>3. PICK i \in DOMAIN sdtoks : sdtoks[i] = r
  BY <1>2 DEF InTeardown
<1>4. CASE sdtoks' = sdtoks
  BY <1>3, <1>4 DEF InTeardown
<1>5. ~CancelPendingCollect
  BY DEF CancelPendingCollect
<1>6. ASSUME sdtoks # <<>>, sdtoks' = Tail(sdtoks), r # Head(sdtoks) PROVE InTeardown(r)'
  <2>1. /\ Head(sdtoks) = sdtoks[1] /\ DOMAIN sdtoks' = 1..(Len(sdtoks) - 1)
        /\ \A j \in DOMAIN sdtoks' : sdtoks'[j] = sdtoks[j + 1]
    BY <1>1, <1>6, TailFacts
  <2>2. i # 1 /\ i \in 1..Len(sdtoks) /\ Len(sdtoks) \in Nat
    BY <1>1, <1>3, <1>6, <2>1
  <2>3. i - 1 \in DOMAIN sdtoks' /\ (i - 1) + 1 = i
    BY <2>1, <2>2
  <2>4. sdtoks'[i - 1] = r
    BY <1>3, <2>1, <2>3
  <2> QED BY <2>3, <2>4 DEF InTeardown
<1>7. CASE CancelPendingFulfill
  <2>1. Won(Head(sdtoks)) /\ sdtoks # <<>> /\ sdtoks' = Tail(sdtoks)
    BY <1>0, <1>7 DEF Cancellers, CancelPendingFulfill, TypeOK, ThreadTypes
  <2>2. r # Head(sdtoks)
    BY <1>2, <2>1 DEF Won, Cancellable
  <2> QED BY <1>6, <2>1, <2>2
<1>8. CASE CancelPendingNext /\ sdtoks # <<>> /\ sdtoks' = Tail(sdtoks)
  <2>1. r # Head(sdtoks)
    <3> SUFFICES ASSUME r = Head(sdtoks) PROVE FALSE
      OBVIOUS
    <3>1. CancelSucceeds(tok[r])
      BY <1>2 DEF Cancellable, CancelSucceeds, CancelFulfills
    <3>2. tok' = [tok EXCEPT ![r] = Cancelled(@)]
      BY <1>8, <3>1 DEF CancelPendingNext
    <3>3. tok'[r] = Cancelled(tok[r])
      BY <1>0, <3>2, Points
    <3> QED BY <3>3 DEF Cancellable, Cancelled
  <2> QED BY <1>6, <1>8, <2>1
<1> QED BY <1>0, <1>4, <1>5, <1>7, <1>8, TeardownStep

\* Every step keeps the stages of the teardown.
LEMMA TeardownShapeStep == LaneInv /\ TypeOK' /\ [Next]_vars => TeardownShape'
<1> SUFFICES ASSUME LaneInv, TypeOK', [Next]_vars PROVE TeardownShape'
  OBVIOUS
<1>0. /\ TypeOK /\ RequestInv /\ Positions /\ WorkerShape /\ InflightShape /\ ServiceSlot
      /\ Cancellers /\ TeardownShape /\ mode' = mode
  BY WorkerStep DEF LaneInv
<1>00. /\ queue \in Seq(Requests) /\ item \in Requests \cup {NoRequest}
       /\ item = NoRequest <=> pc \in {"loop", "waiting", "exited"}
       /\ pc \in {"loop", "waiting", "begin", "dispatch", "busy", "clear", "clear_active", "exited"}
       /\ sdtoks \in Seq(Requests) /\ sd = "fulfill" => sdtoks # <<>>
       /\ sd \in {"alive", "cancel", "fulfill", "notify", "join", "drain", "drain_wait", "done"}
       /\ stop \in BOOLEAN /\ inflight \in Int
  BY <1>0 DEF TypeOK, LaneTypes, ThreadTypes
\* stop_ and the tokens still to cancel.
<1>1. /\ stop' <=> sd' \in {"notify", "join", "drain", "drain_wait", "done"}
      /\ stop' => sdtoks' = <<>>
      /\ stop => stop'
  <2>1. CASE CancelPendingCollect \/ CancelPendingNext \/ CancelPendingFulfill
    BY <1>0, <1>00, <2>1
       DEF CancelPendingCollect, CancelPendingNext, CancelPendingFulfill, TeardownShape, laneVars
  <2>2. CASE StopSet \/ StopNotify \/ StopJoin \/ StopDrain
    BY <1>0, <1>00, <2>2 DEF StopSet, StopNotify, StopJoin, StopDrain, TeardownShape, laneVars
  <2>3. ASSUME NEW r \in Requests, OpRelease(r)
        PROVE  /\ stop' = stop /\ sdtoks' = sdtoks
               /\ sd' = sd \/ (sd = "drain_wait" /\ sd' = "drain")
    BY <2>3 DEF OpRelease
  <2>4. CASE \E r \in Requests : OpRelease(r)
    BY <1>0, <2>3, <2>4 DEF TeardownShape
  <2>5. CASE UNCHANGED <<stop, sd, sdtoks>>
    BY <1>0, <2>5 DEF TeardownShape
  <2> QED BY <2>1, <2>2, <2>4, <2>5, StageStep
\* The queue of a lane that is torn down only shrinks.
<1>2. ASSUME sd # "alive"
      PROVE  UNCHANGED queue \/ (WorkerPop /\ queue # <<>> /\ queue' = Tail(queue) /\ item' = Head(queue))
  BY <1>0, <1>2, QueueStep DEF Submit, WorkerPop
\* A consumer that has left stays away.
<1>3. pc = "exited" => pc' = "exited" /\ ~Worker
  <2>1. pc = "exited" => ~Worker
    BY DEF Worker, WorkerWait, WorkerExit, WorkerPop, WorkerSkip, WorkerRun, WorkerBegin,
       WorkerDispatch, WorkerRetire, WorkerClearTok, WorkerClearActive
  <2> QED BY <2>1, WorkerStep
<1>4. pc' = "exited" => stop' /\ queue' = <<>>
  <2> SUFFICES ASSUME pc' = "exited" PROVE stop' /\ queue' = <<>>
    OBVIOUS
  <2>1. CASE WorkerExit
    BY <2>1 DEF WorkerExit, laneVars
  <2>2. CASE ~WorkerExit
    <3>1. pc = "exited" /\ ~Worker
      BY <1>3, <2>2, WorkerStep DEF Worker, WorkerWait, WorkerPop, WorkerSkip, WorkerRun, WorkerBegin,
         WorkerDispatch, WorkerRetire, WorkerClearTok, WorkerClearActive
    <3>2. stop /\ queue = <<>> /\ sd # "alive"
      BY <1>0, <3>1 DEF TeardownShape
    <3> QED BY <1>1, <1>2, <3>1, <3>2 DEF Worker
  <2> QED BY <2>1, <2>2
<1>5. sd' \in {"drain", "drain_wait"} => pc' = "exited"
  <2> SUFFICES ASSUME sd' \in {"drain", "drain_wait"} PROVE pc = "exited"
    BY <1>3
  <2>1. CASE CancelPendingCollect \/ CancelPendingNext \/ CancelPendingFulfill
    BY <2>1 DEF CancelPendingCollect, CancelPendingNext, CancelPendingFulfill
  <2>2. CASE StopSet \/ StopNotify \/ StopJoin \/ StopDrain
    BY <1>0, <2>2 DEF StopSet, StopNotify, StopJoin, StopDrain, TeardownShape
  <2>3. CASE \E r \in Requests : OpRelease(r)
    BY <1>0, <2>3 DEF OpRelease, TeardownShape
  <2>4. CASE UNCHANGED <<stop, sd, sdtoks>>
    BY <1>0, <2>4 DEF TeardownShape
  <2> QED BY <2>1, <2>2, <2>3, <2>4, StageStep
<1>6. sd' = "done" => pc' = "exited" /\ inflight' = 0
  <2> SUFFICES ASSUME sd' = "done" PROVE pc' = "exited" /\ inflight' = 0
    OBVIOUS
  <2>1. CASE sd = "done"
    <3>1. pc = "exited" /\ inflight = 0 /\ Len(inflight_toks) = 0
      BY <1>0, <2>1 DEF TeardownShape, InflightShape
    <3>2. ~WorkerDispatch /\ \A r \in Requests : ~OpRelease(r)
      <4>1. inflight_toks \in Seq(Requests)
        BY <1>0 DEF TypeOK, LaneTypes
      <4> QED BY <3>1, <4>1 DEF WorkerDispatch, OpRelease, EraseToken
    <3> QED BY <1>3, <3>1, <3>2, SlotStep
  <2>2. CASE sd # "done"
    <3>1. StopJoin \/ StopDrain
      BY <2>2, StageStep DEF CancelPendingCollect, CancelPendingNext, CancelPendingFulfill, StopSet,
         StopNotify, OpRelease
    <3>2. CASE StopJoin
      <4>1. pc = "exited" /\ Serial /\ inflight' = inflight
        BY <3>2 DEF StopJoin, laneVars
      <4> QED BY <1>0, <1>3, <4>1 DEF InflightShape
    <3>3. CASE StopDrain
      <4>1. sd = "drain" /\ inflight = 0 /\ inflight' = inflight
        BY <3>3 DEF StopDrain, laneVars
      <4> QED BY <1>0, <1>3, <4>1 DEF TeardownShape
    <3> QED BY <3>1, <3>2, <3>3
  <2> QED BY <2>1, <2>2
\* What is still in the queue or in service and could be cancelled will be.
<1>7. CASE sd = "alive" /\ sd' # "alive"
  <2>1. CancelPendingCollect
    BY <1>7, StageStep DEF CancelPendingNext, CancelPendingFulfill, StopSet, StopNotify, StopJoin,
       StopDrain, OpRelease
  <2>2. sdtoks' = PendingTokens /\ UNCHANGED <<queue, item, tok, pc>>
    BY <2>1 DEF CancelPendingCollect, laneVars, requestVars
  <2>3. LaneTypes
    BY <1>0 DEF TypeOK
  <2>4. ASSUME NEW i \in DOMAIN queue PROVE \E j \in DOMAIN sdtoks' : sdtoks'[j] = queue[i]
    BY <2>2, <2>3, PendingFacts
  <2>5. ASSUME Serial, item # NoRequest, Cancellable(item)
        PROVE  \E j \in DOMAIN sdtoks' : sdtoks'[j] = item
    <3>1. item \in Requests
      BY <1>00, <2>5
    <3>2. CASE pc \in {"begin", "busy", "clear"}
      <4>1. active_tok = item
        BY <1>0, <2>5, <3>2 DEF ServiceSlot
      <4> QED BY <2>2, <2>3, <2>5, <4>1, PendingFacts
    <3>3. pc # "dispatch"
      BY <1>0, <2>5 DEF WorkerShape
    <3>4. pc # "clear_active"
      BY <1>0, <2>5, <3>1 DEF WorkerShape, RequestInv, OutcomeShape, Cancellable
    <3> QED BY <1>00, <2>5, <3>2, <3>3, <3>4
  <2>6. /\ \A i \in DOMAIN queue' : Cancellable(queue[i])' => InTeardown(queue[i])'
        /\ Serial' /\ item' # NoRequest /\ Cancellable(item)' => InTeardown(item)'
    BY <1>0, <2>2, <2>4, <2>5 DEF Cancellable, InTeardown, Serial
  <2> QED BY <1>1, <1>4, <1>5, <1>6, <2>6 DEF TeardownShape
<1>8. CASE sd # "alive"
  <2>1. ASSUME NEW i \in DOMAIN queue PROVE Cancellable(queue[i]) => InTeardown(queue[i])
    BY <1>0, <1>8 DEF TeardownShape
  <2>2. ASSUME NEW r \in Requests, \E i \in DOMAIN queue : queue[i] = r, Cancellable(r)'
        PROVE  InTeardown(r)'
    <3>1. Cancellable(r) => InTeardown(r)
      BY <2>1, <2>2
    <3> QED BY <1>8, <2>2, <3>1, TeardownKeeps
  <2>3. ASSUME NEW i \in DOMAIN queue' PROVE \E j \in DOMAIN queue : queue[j] = queue'[i]
    <3>1. CASE queue' = queue
      BY <3>1
    <3>2. CASE queue # <<>> /\ queue' = Tail(queue)
      <4>1. i \in 1..(Len(queue) - 1) /\ queue'[i] = queue[i + 1] /\ Len(queue) \in Nat
        BY <1>00, <2>3, <3>2, TailFacts
      <4>2. i + 1 \in DOMAIN queue
        BY <1>00, <4>1
      <4> QED BY <4>1, <4>2
    <3> QED BY <1>2, <1>8, <3>1, <3>2
  <2>4. ASSUME NEW i \in DOMAIN queue', Cancellable(queue[i])' PROVE InTeardown(queue[i])'
    <3>1. PICK r \in Requests : r = queue'[i] /\ \E j \in DOMAIN queue : queue[j] = r
      BY <1>00, <2>3
    <3>2. Cancellable(r)'
      BY <2>4, <3>1 DEF Cancellable
    <3>3. InTeardown(r)'
      BY <2>2, <3>1, <3>2
    <3> QED BY <3>1, <3>3 DEF InTeardown
  <2>5. ASSUME Serial', item' # NoRequest, Cancellable(item)' PROVE InTeardown(item)'
    <3>1. PICK r : r = item'
      OBVIOUS
    <3>2. Cancellable(r)' /\ r # NoRequest
      BY <2>5, <3>1 DEF Cancellable
    <3>3. CASE WorkerPop
      <4>1. r = queue[1] /\ 1 \in DOMAIN queue /\ r \in Requests
        BY <1>00, <3>1, <3>3, TailFacts DEF WorkerPop
      <4>2. InTeardown(r)'
        BY <2>2, <3>2, <4>1
      <4> QED BY <3>1, <4>2 DEF InTeardown
    <3>4. CASE ~WorkerPop
      <4>1. item = r /\ r \in Requests
        BY <1>0, <1>00, <1>8, <3>1, <3>2, <3>4, QueueStep DEF Submit
      <4>2. Cancellable(r) => InTeardown(r)
        BY <1>0, <1>8, <2>5, <3>2, <4>1 DEF TeardownShape, Serial
      <4>3. InTeardown(r)'
        BY <1>8, <3>2, <4>1, <4>2, TeardownKeeps
      <4> QED BY <3>1, <4>3 DEF InTeardown
    <3> QED BY <3>3, <3>4
  <2> QED BY <1>1, <1>4, <1>5, <1>6, <2>4, <2>5 DEF TeardownShape
<1>9. CASE sd' = "alive"
  BY <1>1, <1>4, <1>5, <1>6, <1>9 DEF TeardownShape
<1> QED BY <1>7, <1>8, <1>9

\* Every step keeps the caps.
LEMMA SlotsStep == LaneInv /\ TypeOK' /\ [Next]_vars => Slots'
<1> SUFFICES ASSUME LaneInv, TypeOK', [Next]_vars PROVE Slots'
  OBVIOUS
<1>0. /\ TypeOK /\ Slots /\ WorkerShape /\ TeardownShape /\ mode' = mode
  BY WorkerStep DEF LaneInv
<1>00. /\ queue \in Seq(Requests) /\ item \in Requests \cup {NoRequest} /\ inflight \in Int
       /\ item = NoRequest <=> pc \in {"loop", "waiting", "exited"} /\ Len(queue) \in Nat
       /\ MaxInflight \in Nat /\ MaxInflight >= 1 /\ MaxQueueDepth \in Nat \cup {-1}
  <2>1. /\ queue \in Seq(Requests) /\ item \in Requests \cup {NoRequest} /\ inflight \in Int
        /\ item = NoRequest <=> pc \in {"loop", "waiting", "exited"}
    BY <1>0 DEF TypeOK, LaneTypes, ThreadTypes
  <2> QED BY <2>1, RuntimeLaneAssumption
<1>1. QueueBounded'
  <2>1. ASSUME NEW k \in Clients, NEW r \in Requests, NEW x \in Items, Submit(k, r, x)
        PROVE  QueueBounded'
    <3>1. ~QueueFull /\ queue' = Append(queue, r)
      BY <2>1 DEF Submit, PushedBack
    <3>2. Len(queue') = Len(queue) + 1
      BY <1>00, <3>1, AppendFacts
    <3> QED BY <1>00, <3>1, <3>2 DEF QueueFull, QueueBounded
  <2>2. CASE WorkerPop
    <3>1. Len(queue') = Len(queue) - 1
      BY <1>00, <2>2, TailFacts DEF WorkerPop
    <3> QED BY <1>0, <1>00, <3>1 DEF Slots, QueueBounded
  <2>3. CASE queue' = queue
    BY <1>0, <2>3 DEF Slots, QueueBounded
  <2> QED BY <1>0, <2>1, <2>2, <2>3, QueueStep
<1>2. CASE WorkerDispatch
  <2>1. pc = "dispatch" /\ inflight' = inflight + 1 /\ pc' = "loop"
    BY <1>2 DEF WorkerDispatch
  <2>2. inflight < MaxInflight
    BY <1>0, <2>1 DEF Slots, WorkerShape
  <2> QED BY <1>00, <1>1, <2>1, <2>2 DEF Slots
<1>3. ASSUME NEW r \in Requests, OpRelease(r) PROVE Slots'
  <2>1. inflight' = inflight - 1 /\ item' = item /\ tok' = tok
        /\ (pc' = pc \/ (pc = "waiting" /\ pc' = "loop"))
    BY <1>3 DEF OpRelease, requestVars, WakeConsumer
  <2> QED BY <1>0, <1>00, <1>1, <2>1 DEF Slots, Serial
<1>4. CASE UNCHANGED <<inflight, inflight_toks>>
  <2>1. CASE WorkerPop
    <3>1. /\ pc' = "begin" /\ tok' = tok /\ item' = Head(queue) /\ queue # <<>>
          /\ stop \/ Serial \/ inflight < MaxInflight
      BY <2>1 DEF WorkerPop, Runnable, requestVars
    <3>2. item' = queue[1] /\ 1 \in DOMAIN queue
      BY <1>00, <3>1, TailFacts
    <3>3. stop => tok'[item'].phase # "Queued"
      BY <1>0, <3>1, <3>2 DEF TeardownShape, InTeardown, Cancellable
    <3> QED BY <1>0, <1>1, <1>4, <3>1, <3>3 DEF Slots, Serial
  <2>2. CASE WorkerBegin
    <3>1. /\ pc = "begin" /\ ~Serial /\ pc' = "dispatch" /\ tok[item].phase = "Queued"
      BY <2>2, BeginsQueued DEF WorkerBegin
    <3> QED BY <1>0, <1>1, <1>4, <3>1 DEF Slots, Serial
  <2>3. CASE ~WorkerPop /\ ~WorkerBegin
    <3>1. pc' \in {"begin", "dispatch"} => pc' = pc /\ item' = item
      BY <2>3, WorkerStep DEF Worker, WorkerWait, WorkerExit, WorkerSkip, WorkerRun, WorkerDispatch,
         WorkerRetire, WorkerClearTok, WorkerClearActive
    <3>2. ASSUME pc' = "begin", tok'[item'].phase = "Queued"
          PROVE  pc = "begin" /\ tok[item].phase = "Queued"
      <4>1. pc = "begin" /\ item' = item /\ item \in Requests
        BY <1>00, <3>1, <3>2
      <4> QED BY <3>2, <4>1, CancellableStep
    <3> QED BY <1>0, <1>1, <1>4, <3>1, <3>2 DEF Slots, Serial
  <2> QED BY <2>1, <2>2, <2>3
<1> QED BY <1>2, <1>3, <1>4, SlotStep
-----------------------------------------------------------------------------
(* The invariant and what follows from it.                                  *)

\* The invariant holds of a lane that has just been constructed.
LEMMA InitLane == Init => LaneInv
<1> SUFFICES ASSUME Init PROVE LaneInv
  OBVIOUS
<1>1. TypeOK
  BY InitTyped
<1>2. RequestInv
  BY DEF Init, RequestInv, NewUntouched, TokenShape, RunShape, OutcomeShape, ArmedToken, CancelSettled
<1>3. Cancellers /\ Positions /\ WorkerShape
  BY DEF Init, Cancellers, Positions, WorkerShape, Popped
<1>4. InflightShape /\ ServiceSlot
  BY DEF Init, InflightShape, ServiceSlot, Executing
<1>5. EarlierDone /\ TeardownShape
  BY DEF Init, EarlierDone, TeardownShape, ArmedToken, Popped
<1>6. Slots
  <2>1. MaxInflight \in Nat /\ MaxQueueDepth \in Nat \cup {-1}
    BY RuntimeLaneAssumption
  <2> QED BY <2>1 DEF Init, Slots, QueueBounded
<1> QED BY <1>1, <1>2, <1>3, <1>4, <1>5, <1>6 DEF LaneInv

\* The inductive invariant: what the requests, the consumer, the operations in
\* flight and the teardown thread know of each other.
THEOREM LaneInvariant == Spec => []LaneInv
<1>1. LaneInv /\ [Next]_vars => LaneInv'
  <2> SUFFICES ASSUME LaneInv, [Next]_vars PROVE LaneInv'
    OBVIOUS
  <2>1. TypeOK'
    BY TypeStep DEF LaneInv
  <2> QED BY <2>1, RequestStep, CancellersStep, PositionsStep, WorkerShapeStep, InflightShapeStep,
             ServiceSlotStep, EarlierDoneStep, TeardownShapeStep, SlotsStep DEF LaneInv
<1> QED BY <1>1, InitLane, PTL DEF Spec

\* SettledAsAnnounced: although a cancelling client, the teardown thread, the
\* consumer and a continuation may reach the same request, its promise is set
\* once, and as "cancelled" exactly when one cancel() had returned true.
THEOREM SettledOnceAsAnnounced == Spec => []SettledAsAnnounced
<1>1. LaneInv => SettledAsAnnounced
  <2> SUFFICES ASSUME LaneInv, NEW r \in Requests
               PROVE  /\ promise[r] # "set_twice"
                      /\ wins[r] <= 1
                      /\ Settled(r) => \/ promise[r] = "cancelled" <=> wins[r] = 1
                                       \/ DispatchFaults /\ promise[r] = "failed"
    BY DEF SettledAsAnnounced, PromiseSetOnce, CancelIffOneWin
  <2>1. TokenShape(r) /\ RunShape(r) /\ OutcomeShape(r)
    BY DEF LaneInv, RequestInv
  <2>2. op[r] \in {"idle", "body", "boundary", "mark", "set", "retire", "done"}
    BY DEF LaneInv, TypeOK, ThreadTypes
  <2>3. wins[r] = (IF CancelSettled(tok[r]) THEN 1 ELSE 0)
    BY <2>1 DEF TokenShape
  <2>4. CASE op[r] = "idle"
    BY <2>1, <2>3, <2>4 DEF RunShape, TokenShape, CancelSettled, Settled
  <2>5. CASE op[r] \in {"body", "boundary", "mark", "set"}
    BY <2>1, <2>3, <2>5 DEF RunShape, OutcomeShape, Settled
  <2>6. CASE op[r] \in {"retire", "done"}
    BY <2>1, <2>3, <2>6 DEF OutcomeShape, CancelSettled, Settled
  <2> QED BY <2>2, <2>4, <2>5, <2>6
<1> QED BY <1>1, LaneInvariant, PTL

\* StartsInOrder: submission order stays FIFO in both modes.  When an operation
\* has started, each one pushed before it has started or was cancelled in the
\* queue; in a serial lane it is settled.
THEOREM StartedInOrder == Spec => []StartsInOrder
<1>1. LaneInv => StartsInOrder
  <2> SUFFICES ASSUME LaneInv, NEW i \in DOMAIN pushed, NEW j \in DOMAIN pushed, i < j,
                      op[pushed[j]] # "idle"
               PROVE  \/ Settled(pushed[i]) \/ BeingCancelled(pushed[i])
                      \/ ~Serial /\ op[pushed[i]] # "idle"
    BY DEF StartsInOrder
  <2>1. /\ pushed \in Seq(Requests) /\ queue \in Seq(Requests)
        /\ Positions /\ EarlierDone
    BY DEF LaneInv, TypeOK, RequestTypes, LaneTypes
  <2>2. NoRequest \notin Requests
    BY RuntimeLaneAssumption
  <2>3. i \in 1..Len(pushed) /\ j \in 1..Len(pushed) /\ Len(pushed) \in Nat /\ Popped \in Int
    BY <2>1 DEF Popped
  <2>4. j <= Popped
    BY <2>1, <2>3 DEF Positions
  <2>5. i <= Popped /\ i # Popped
    BY <2>3, <2>4
  <2>6. pushed[i] # item
    <3>1. CASE item = NoRequest
      BY <2>1, <2>2, <3>1
    <3>2. CASE item # NoRequest
      <4>1. Popped \in 1..Len(pushed) /\ item = pushed[Popped]
        BY <2>1, <3>2 DEF Positions, Popped
      <4> QED BY <2>1, <2>3, <2>5, <4>1 DEF Positions
    <3> QED BY <3>1, <3>2
  <2> QED BY <2>1, <2>5, <2>6 DEF EarlierDone
<1> QED BY <1>1, LaneInvariant, PTL

\* The operations in flight are the entries of inflight_toks_, one for each.
LEMMA InflightCounted ==
  ASSUME LaneInv, ~Serial
  PROVE  inflight = Cardinality(InFlight)
<1>0. TypeOK /\ WorkerShape /\ InflightShape
  BY DEF LaneInv
<1>1. inflight_toks \in Seq(Requests) /\ inflight = Len(inflight_toks) /\ inflight \in Nat
      /\ DOMAIN inflight_toks = 1..inflight
  BY <1>0 DEF TypeOK, LaneTypes, InflightShape
<1>2. ASSUME NEW i \in 1..inflight PROVE inflight_toks[i] \in InFlight
  BY <1>0, <1>1 DEF InflightShape, InFlight, Executing
<1>3. ASSUME NEW r \in InFlight PROVE \E i \in 1..inflight : inflight_toks[i] = r
  <2>1. r \in Requests /\ Executing(r) /\ itm[r].policy = "Async"
    BY <1>3 DEF InFlight, Executing
  <2>2. ~(pc = "busy" /\ item = r)
    BY <1>0, <2>1 DEF WorkerShape
  <2> QED BY <1>0, <1>1, <2>1, <2>2 DEF InflightShape
<1>4. inflight_toks \in [1..inflight -> InFlight]
  BY <1>1, <1>2
<1>5. inflight_toks \in Bijection(1..inflight, InFlight)
  BY <1>0, <1>1, <1>3, <1>4 DEF Bijection, Injection, IsInjective, Surjection, InflightShape
<1>6. ExistsBijection(1..inflight, InFlight)
  BY <1>5 DEF ExistsBijection
<1> QED BY <1>1, <1>6, FS_CountingElements

\* BoundsKept: the queue stays within the cap of try_submit(), and at most
\* max_inflight_ Async operations run, also while the lane stops and the
\* consumer no longer looks at the bound; inflight_ is their exact number.
THEOREM WithinBounds == Spec => []BoundsKept
<1>1. LaneInv => BoundsKept
  <2> SUFFICES ASSUME LaneInv PROVE InflightBounded
    BY DEF LaneInv, Slots, BoundsKept
  <2>1. inflight <= MaxInflight
    BY DEF LaneInv, Slots
  <2> QED BY <2>1, InflightCounted DEF InflightBounded
<1> QED BY <1>1, LaneInvariant, PTL

\* TeardownSafe: an idle serial lane owes nothing, a joined lane is quiet, and
\* once cancel_pending() has returned a serial lane runs nothing that could
\* still be asked to stop and was not.
THEOREM TeardownIsSafe == Spec => []TeardownSafe
<1>1. LaneInv => TeardownSafe
  <2> SUFFICES ASSUME LaneInv PROVE TeardownSafe
    OBVIOUS
  <2>0. /\ TypeOK /\ RequestInv /\ Positions /\ WorkerShape /\ InflightShape
        /\ ServiceSlot /\ EarlierDone /\ TeardownShape
    BY DEF LaneInv
  <2>1. /\ queue \in Seq(Requests) /\ pushed \in Seq(Requests)
        /\ item = NoRequest <=> pc \in {"loop", "waiting", "exited"}
        /\ NoRequest \notin Requests
    <3>1. /\ queue \in Seq(Requests) /\ pushed \in Seq(Requests)
          /\ item = NoRequest <=> pc \in {"loop", "waiting", "exited"}
      BY <2>0 DEF TypeOK, RequestTypes, LaneTypes, ThreadTypes
    <3> QED BY <3>1, RuntimeLaneAssumption
  \* A lane with an empty queue and no item has dealt with every admitted request.
  <2>2. ASSUME queue = <<>>, item = NoRequest, NEW r \in Requests, admission[r] = "admitted"
        PROVE  Settled(r) \/ BeingCancelled(r) \/ (~Serial /\ op[r] # "idle")
    <3>1. PICK i \in DOMAIN pushed : pushed[i] = r
      BY <2>0, <2>2 DEF Positions
    <3>2. i <= Popped /\ pushed[i] # item
      BY <2>1, <2>2, <3>1 DEF Popped
    <3> QED BY <2>0, <3>1, <3>2 DEF EarlierDone
  <2>3. IdleMeansSettled
    <3> SUFFICES ASSUME Serial, queue = <<>>, ~active, NEW r \in Requests, admission[r] = "admitted"
                 PROVE  Settled(r) \/ BeingCancelled(r)
      BY DEF IdleMeansSettled
    <3>1. item = NoRequest
      BY <2>0 DEF ServiceSlot
    <3> QED BY <2>2, <3>1
  <2>4. JoinedMeansQuiet
    <3> SUFFICES ASSUME sd = "done", NEW r \in Requests
                 PROVE  /\ op[r] \in {"idle", "done"}
                        /\ admission[r] = "admitted" => Settled(r) \/ BeingCancelled(r)
      BY DEF JoinedMeansQuiet
    <3>1. pc = "exited" /\ queue = <<>> /\ inflight = 0 /\ item = NoRequest
      BY <2>0, <2>1 DEF TeardownShape
    <3>2. inflight_toks \in Seq(Requests) /\ Len(inflight_toks) = 0
      BY <2>0, <3>1 DEF InflightShape, TypeOK, LaneTypes
    <3>3. op[r] \in {"idle", "done"}
      BY <2>0, <3>1, <3>2 DEF InflightShape, Executing
    <3>4. op[r] # "idle" => Settled(r)
      BY <2>0, <3>3 DEF RequestInv, OutcomeShape, Settled
    <3> QED BY <2>2, <3>1, <3>3, <3>4
  <2>5. SerialStopAsksEveryone
    <3> SUFFICES ASSUME Serial, sd \in {"notify", "join", "drain", "drain_wait"}, NEW r \in Requests,
                        tok[r].phase = "Running", tok[r].cancellable
                 PROVE  FALSE
      BY DEF SerialStopAsksEveryone, StopAsksEveryone
    <3>1. stop /\ sdtoks = <<>>
      BY <2>0 DEF TeardownShape
    <3>2. op[r] # "idle"
      BY <2>0 DEF RequestInv, RunShape, Window, WorkerShape
    <3>3. op[r] # "done"
      BY <2>0 DEF RequestInv, OutcomeShape
    <3>4. item = r
      BY <2>0, <3>2, <3>3 DEF InflightShape, Executing
    <3>5. InTeardown(r)
      BY <2>0, <2>1, <3>4 DEF TeardownShape, Cancellable
    <3> QED BY <3>1, <3>5 DEF InTeardown
  <2> QED BY <2>3, <2>4, <2>5 DEF TeardownSafe
<1> QED BY <1>1, LaneInvariant, PTL
-----------------------------------------------------------------------------
(* The lane implements its abstract specification.                          *)

Admitted == {r \in Requests : admission[r] = "admitted"}
Committed == {r \in Requests : wins[r] > 0}
Outcomes == [r \in Requests |-> IF Settled(r) THEN promise[r] ELSE "none"]

\* A step that leaves a request's promise, its wins and its admission alone.
Unsettled(r) ==
    /\ promise'[r] = promise[r] /\ wins'[r] = wins[r]
    /\ admission'[r] = "admitted" <=> admission[r] = "admitted"

\* A step nobody sees.
LEMMA StutterStep ==
  ASSUME \A r \in Requests : Unsettled(r)
  PROVE  UNCHANGED Abstract!svars
<1>1. UNCHANGED <<Admitted, Committed, Outcomes>>
  BY DEF Admitted, Committed, Outcomes, Settled, Unsettled
<1> QED BY <1>1 DEF Abstract!svars, Admitted, Committed, Outcomes

\* A step that admits a request.
LEMMA AdmitStep ==
  ASSUME NEW r \in Requests, \A s \in Requests : s # r => Unsettled(s),
         promise'[r] = promise[r], wins'[r] = wins[r],
         admission[r] # "admitted", admission'[r] = "admitted"
  PROVE  Abstract!SNext
<1>1. UNCHANGED <<Committed, Outcomes>>
  BY DEF Committed, Outcomes, Settled, Unsettled
<1>2. {r} \cap Admitted = {} /\ Admitted' = Admitted \cup {r} /\ {r} \in SUBSET Requests
  BY DEF Admitted, Unsettled
<1>3. Abstract!Admit({r})
  BY <1>1, <1>2 DEF Abstract!Admit, Admitted, Committed, Outcomes
<1> QED BY <1>2, <1>3 DEF Abstract!SNext

\* A cancel() that returns true.
LEMMA CommitStep ==
  ASSUME NEW r \in Requests, \A s \in Requests : s # r => Unsettled(s),
         promise'[r] = promise[r], promise[r] = "empty", wins[r] = 0, wins'[r] = 1,
         admission[r] = "admitted", admission'[r] = "admitted"
  PROVE  Abstract!SNext
<1>1. UNCHANGED <<Admitted, Outcomes>> /\ Outcomes[r] = "none"
  BY DEF Admitted, Outcomes, Settled, Unsettled
<1>2. r \in Admitted \ Committed /\ Committed' = Committed \cup {r}
  BY DEF Admitted, Committed, Unsettled
<1>3. Abstract!CommitCancel(r)
  BY <1>1, <1>2 DEF Abstract!CommitCancel, Admitted, Committed, Outcomes
<1> QED BY <1>3 DEF Abstract!SNext

\* A promise is set.
LEMMA SettleStep ==
  ASSUME NEW r \in Requests, \A s \in Requests : s # r => Unsettled(s),
         NEW o \in {"completed", "cancelled", "failed"}, promise[r] = "empty", promise'[r] = o,
         wins'[r] = wins[r], admission[r] = "admitted", admission'[r] = "admitted",
         o = "cancelled" <=> wins[r] > 0
  PROVE  Abstract!SNext
<1>1. UNCHANGED <<Admitted, Committed>> /\ r \in Admitted
  BY DEF Admitted, Committed, Unsettled
<1>2. Outcomes[r] = "none" /\ Outcomes' = [Outcomes EXCEPT ![r] = o]
  BY DEF Outcomes, Settled, Unsettled
<1>3. Abstract!Settle(r, o)
  BY <1>1, <1>2 DEF Abstract!Settle, Admitted, Committed, Outcomes
<1> QED BY <1>3 DEF Abstract!SNext, Abstract!Outcome

\* Every step of the lane is a step of the settlement contract, or nothing it can see.
LEMMA RefinementStep ==
  ASSUME ~DispatchFaults, LaneInv, [Next]_vars
  PROVE  Abstract!SNext \/ UNCHANGED Abstract!svars
<1>0. TypeOK /\ RequestInv /\ Cancellers
  BY DEF LaneInv
<1>00. ASSUME NEW r \in Requests, Untouched(r) PROVE Unsettled(r)
  BY <1>00 DEF Untouched, Unsettled
<1>1. CASE QuietNext
  BY <1>0, <1>00, <1>1, QuietUntouched, StutterStep
<1>2. ASSUME NEW r \in Requests, NextOf(r) PROVE Abstract!SNext \/ UNCHANGED Abstract!svars
  <2>0. \A s \in Requests : s # r => Unsettled(s)
    BY <1>0, <1>00, <1>2, BystanderUntouched
  <2>1. CASE Unsettled(r)
    BY <2>0, <2>1, StutterStep
  <2>2. ASSUME NEW k \in Clients, NEW i \in Items, Submit(k, r, i) PROVE Abstract!SNext
    <3>1. /\ admission[r] # "admitted" /\ admission'[r] = "admitted"
          /\ promise'[r] = promise[r] /\ wins'[r] = wins[r]
      BY <1>0, <2>2, Points DEF Submit
    <3> QED BY <2>0, <3>1, AdmitStep
  <2>3. ASSUME CancelSucceeds(tok[r]), wins' = [wins EXCEPT ![r] = @ + 1],
               UNCHANGED <<admission, promise>>, admission[r] = "admitted"
        PROVE  Abstract!SNext
    <3>1. wins[r] = 0 /\ promise[r] = "empty"
      <4>1. op[r] \in {"idle", "body", "boundary", "mark", "set", "retire", "done"}
        BY <1>0 DEF TypeOK, ThreadTypes
      <4> QED BY <1>0, <2>3, <4>1 DEF RequestInv, TokenShape, RunShape, OutcomeShape,
                 CancelSucceeds, CancelFulfills, CancelSettled
    <3>2. wins'[r] = 1
      BY <1>0, <2>3, <3>1, Points
    <3> QED BY <2>0, <2>3, <3>1, <3>2, CommitStep
  <2>4. ASSUME NEW k \in Clients, Cancel(k, r) PROVE Abstract!SNext
    BY <2>3, <2>4 DEF Cancel
  <2>5. ASSUME Won(r), promise'[r] = "cancelled", UNCHANGED <<admission, wins>> PROVE Abstract!SNext
    <3>1. wins[r] = 1
      BY <1>0, <2>5 DEF Won, RequestInv, TokenShape, CancelSettled
    <3> QED BY <2>0, <2>5, <3>1, SettleStep DEF Won
  <2>6. CASE OpSet(r)
    <3>1. /\ promise[r] = "empty" /\ res[r] \in {"completed", "cancelled", "failed"}
          /\ res[r] = "cancelled" <=> wins[r] > 0
          /\ admission[r] = "admitted"
      BY <1>0, <2>6 DEF OpSet, RequestInv, NewUntouched, TokenShape, OutcomeShape, CancelSettled
    <3>2. promise'[r] = res[r] /\ UNCHANGED <<admission, wins>>
      BY <1>0, <2>6, <3>1, Points DEF OpSet, SetValue
    <3> QED BY <2>0, <3>1, <3>2, SettleStep
  <2>7. CASE Head(sdtoks) = r /\ sdtoks # <<>> /\ CancelPendingNext
    <3>1. UNCHANGED <<admission, promise>>
      BY <2>7 DEF CancelPendingNext
    <3>2. CASE CancelSucceeds(tok[r])
      <4>1. wins' = [wins EXCEPT ![r] = @ + 1]
        BY <2>7, <3>2 DEF CancelPendingNext
      <4>2. 1 \in DOMAIN sdtoks /\ sdtoks[1] = r
        BY <1>0, <2>7, TailFacts DEF TypeOK, ThreadTypes
      <4>3. admission[r] = "admitted"
        BY <1>0, <4>2 DEF Cancellers
      <4> QED BY <2>3, <3>1, <3>2, <4>1, <4>3
    <3>3. CASE ~CancelSucceeds(tok[r])
      BY <2>1, <2>7, <3>1, <3>3 DEF CancelPendingNext, Unsettled
    <3> QED BY <3>2, <3>3
  <2>8. ASSUME \/ \E k \in Clients : CancelFulfill(k) /\ carg[k] = r
               \/ Head(sdtoks) = r /\ CancelPendingFulfill
        PROVE  Abstract!SNext
    <3>1. Won(r) /\ SetValue(r, "cancelled") /\ UNCHANGED <<admission, wins>>
      BY <1>0, <2>8 DEF CancelFulfill, CancelPendingFulfill, Cancellers
    <3>2. promise'[r] = "cancelled"
      BY <1>0, <3>1, Points DEF SetValue, Won
    <3> QED BY <2>5, <3>1, <3>2
  <2>9. ASSUME \/ OpFail(r) \/ OpChunk(r) \/ OpBoundary(r) \/ OpMark(r) \/ OpRelease(r)
               \/ WorkerRun \/ WorkerBegin \/ WorkerDispatch \/ WorkerRetire
        PROVE  Unsettled(r)
    BY <2>9 DEF OpFail, OpChunk, OpBoundary, OpMark, OpRelease, WorkerRun, WorkerBegin,
       WorkerDispatch, WorkerRetire, requestVars, Unsettled
  <2> QED BY <1>2, <2>1, <2>2, <2>4, <2>6, <2>7, <2>8, <2>9 DEF NextOf, Execution
<1> QED BY <1>0, <1>1, <1>2, StepKinds

\* When the executor runs what it is given, the lane implements its abstract
\* specification: each admitted operation is settled once, and as "cancelled"
\* exactly when a cancel() of it had returned true before.
THEOREM LaneRefinesSettlement ==
  ASSUME ~DispatchFaults
  PROVE  Spec => ImplementsSettlement
<1>1. Init => Abstract!SInit
  BY DEF Init, Abstract!SInit, Settled
<1>2. LaneInv /\ [Next]_vars => [Abstract!SNext]_(Abstract!svars)
  BY RefinementStep
<1> QED
  BY <1>1, <1>2, LaneInvariant, PTL DEF Spec, ImplementsSettlement, Abstract!SSpec
=============================================================================
