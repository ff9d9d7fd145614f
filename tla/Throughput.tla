----------------------------- MODULE Throughput -----------------------------
(***************************************************************************)
(* One island of experiment 69's throughput and slice 3 programs under     *)
(* load: a soak and then a measured batch through the Ray arm and through  *)
(* the HPX arm.  The scheduler keeps C requests outstanding at the         *)
(* coordinating actor, which serves up to C of them at a time and fetches  *)
(* half of each answer from its peer; a verifier thread checks the results *)
(* of a measured batch behind a bounded queue.  Nothing cancels a request  *)
(* the scheduler gave up on: it still runs, and still moves the counters,  *)
(* while later batches are measured.                                       *)
(***************************************************************************)
EXTENDS Integers, Sequences, FiniteSets

CONSTANTS
    C,              \* max_concurrency of the actors and of the scheduler
    S,              \* requests of a soak
    N,              \* requests of a measured batch
    W,              \* requests of a warm-up
    Capacity,       \* VERIFIER_QUEUE_CAPACITY
    Capability,     \* the soak must prove that peer calls overlap (P3b, C >= 4)
    MaxFaults       \* lost calls, wrong results and expired waits

VARIABLES
    stage,          \* index into Stages
    pc,             \* the scheduler's next step
    loop,           \* the closed loop it runs: soak, warm or meas
    submitted, completed, outstanding,
    reqs,           \* requests not yet returned or given up, by slot
    served,         \* counters(): monotonic, kept by the two actors
    active,         \* current and maximal number of calls inside each method
    before,         \* the counters as read before the measured window
    verifier,       \* queue, item in hand, what it counted
    flag,           \* why a loop ended early
    result,         \* class of each finished stage
    taint,        \* wrong results and steps of given-up requests in the window (ghost)
    faults

vars == <<stage, pc, loop, submitted, completed, outstanding, reqs, served,
          active, before, verifier, flag, result, taint, faults>>

Stages == << [kind |-> "soak", arm |-> "ray"], [kind |-> "soak", arm |-> "hpx"],
             [kind |-> "batch", arm |-> "ray"], [kind |-> "batch", arm |-> "hpx"] >>
Arm == Stages[stage].arm
Total == CASE loop = "soak" -> S [] loop = "warm" -> W [] loop = "meas" -> N

\* A bound on the requests in flight that no loop comes near: one loop has C,
\* and each fault leaves at most C more.
Slots == 1..(C * (2 + MaxFaults))
Free == [st |-> "free"]
Counters == {"outgoing_ray_fetch", "serving_ray_fetch", "hpx_actions_served"}
Methods == {"coord", "ray_peer", "hpx_action"}

NewVerifier == [q |-> <<>>, hand |-> "none", verified |-> 0, invalid |-> 0,
                exception |-> FALSE, high_water |-> 0, blocked |-> FALSE]

Init ==
    /\ stage = 1 /\ pc = "begin" /\ loop = "soak"
    /\ submitted = 0 /\ completed = 0 /\ outstanding = <<0, 0>>
    /\ reqs = [s \in Slots |-> Free]
    /\ served = [k \in Counters |-> 0]
    /\ active = [k \in Methods |-> [cur |-> 0, max |-> 0]]
    /\ before = served
    /\ verifier = NewVerifier /\ flag = "none" /\ result = <<>>
    /\ taint = 0 /\ faults = 0

Fault == faults < MaxFaults /\ faults' = faults + 1

-----------------------------------------------------------------------------
(* The actors.                                                             *)

\* Requests of the loop under way, as opposed to those given up.
Own(s) == reqs[s].st # "free" /\ reqs[s].own
Inside == {s \in Slots : reqs[s].st \in {"calling", "peer", "back"}}

_active_enter(a, k) ==
    [a EXCEPT ![k] = [cur |-> @.cur + 1, max |-> IF @.cur + 1 > @.max THEN @.cur + 1 ELSE @.max]]
_active_exit(a, k) == [a EXCEPT ![k].cur = @ - 1]

\* The maxima start again from what is in flight at this moment.
reset_active == active' = [k \in Methods |-> [cur |-> active[k].cur, max |-> active[k].cur]]

Move(s, st) == reqs' = [reqs EXCEPT ![s].st = st]
Count(s, k) ==
    /\ served' = [served EXCEPT ![k] = @ + 1]
    /\ taint' = IF Own(s) \/ loop # "meas" THEN taint ELSE taint + 1

Quiet == UNCHANGED <<stage, pc, loop, submitted, completed, outstanding, before, verifier, flag, result>>

\* Ray admits at most C calls of the coordinating method at once.  A request
\* computes its own half, then goes to the peer by one of two paths: a counted
\* Ray call of its method, or an HPX action at its locality.
Enter(s) ==
    /\ Cardinality(Inside) < C
    /\ Move(s, "calling") /\ active' = _active_enter(active, "coord")
    /\ UNCHANGED faults /\ Quiet

ray_coordinate(s) == reqs[s].st = "queued" /\ reqs[s].arm = "ray" /\ Enter(s) /\ Count(s, "outgoing_ray_fetch")
hpx_coordinate(s) == reqs[s].st = "queued" /\ reqs[s].arm = "hpx" /\ Enter(s) /\ UNCHANGED <<served, taint>>

PeerMethod(s) == IF reqs[s].arm = "ray" THEN "ray_peer" ELSE "hpx_action"

\* local_topk_cands or the action body at the peer, and its reply.
PeerServes(s) ==
    \/ /\ reqs[s].st \in {"calling", "late"}
       /\ Move(s, IF reqs[s].st = "late" THEN "latepeer" ELSE "peer")
       /\ Count(s, IF reqs[s].arm = "ray" THEN "serving_ray_fetch" ELSE "hpx_actions_served")
       /\ active' = _active_enter(active, PeerMethod(s))
       /\ UNCHANGED faults /\ Quiet
    \/ /\ reqs[s].st \in {"peer", "latepeer"}
       /\ reqs' = [reqs EXCEPT ![s] = IF @.st = "peer" THEN [@ EXCEPT !.st = "back"] ELSE Free]
       /\ active' = _active_exit(active, PeerMethod(s))
       /\ UNCHANGED <<served, taint, faults>> /\ Quiet

\* The wait for the peer expired: the request answers with an error while its
\* call to the peer is still on the way.
FetchExpires(s) ==
    /\ reqs[s].st = "calling" /\ Fault
    /\ \E t \in Slots :
         /\ reqs[t].st = "free" /\ \A u \in Slots : u < t => reqs[u].st # "free"
         /\ reqs' = [reqs EXCEPT ![s] = IF @.own THEN [@ EXCEPT !.st = "done", !.ok = FALSE] ELSE Free,
                                 ![t] = [st |-> "late", arm |-> reqs[s].arm, own |-> FALSE, ok |-> FALSE]]
    /\ active' = _active_exit(active, "coord")
    /\ UNCHANGED <<served, taint>> /\ Quiet

\* Merge and return; a given-up request's result reaches nobody.
Return(s) ==
    /\ reqs[s].st = "back"
    /\ \E ok \in BOOLEAN :
         /\ IF ok THEN UNCHANGED faults ELSE reqs[s].own /\ Fault
         /\ reqs' = [reqs EXCEPT ![s] = IF @.own THEN [@ EXCEPT !.st = "done", !.ok = ok] ELSE Free]
    /\ active' = _active_exit(active, "coord")
    /\ UNCHANGED <<served, taint>> /\ Quiet

HpxActor ==
    \E s \in Slots :
        \/ ray_coordinate(s) \/ hpx_coordinate(s) \/ PeerServes(s)
        \/ FetchExpires(s) \/ Return(s)

-----------------------------------------------------------------------------
(* The verifier thread.                                                    *)

verify(v, ok) == IF ok THEN [v EXCEPT !.verified = @ + 1] ELSE [v EXCEPT !.invalid = @ + 1]

VerifierRun ==
    /\ \/ /\ verifier.hand = "none" /\ verifier.q # <<>>
          /\ verifier' = [verifier EXCEPT !.hand = Head(verifier.q), !.q = Tail(@)]
          /\ UNCHANGED faults
       \/ /\ verifier.hand \in {"good", "bad"}
          /\ verifier' = [verify(verifier, verifier.hand = "good") EXCEPT !.hand = "none"]
          /\ UNCHANGED faults
       \/ /\ verifier.hand \in {"good", "bad"} /\ Fault
          /\ verifier' = [verifier EXCEPT !.hand = "none", !.exception = TRUE]
    /\ UNCHANGED <<stage, pc, loop, submitted, completed, outstanding, reqs, served, active,
                   before, flag, result, taint>>

-----------------------------------------------------------------------------
(* The scheduler.                                                          *)

At(l) == pc = l
Goto(l) == pc' = l

SubmitTo(r) ==
    LET t == CHOOSE t \in Slots : r[t].st = "free" /\ \A u \in Slots : u < t => r[u].st # "free"
    IN  [r EXCEPT ![t] = [st |-> "queued", arm |-> Arm, own |-> TRUE, ok |-> TRUE]]
OwnSlots == {s \in Slots : Own(s)}

\* What the loop leaves in flight belongs to nobody any more.
GiveUp(r) == [s \in Slots |-> IF r[s].st = "free" \/ ~r[s].own THEN r[s]
                              ELSE IF r[s].st = "done" THEN Free ELSE [r[s] EXCEPT !.own = FALSE]]

\* A soak starts from fresh maxima, a batch with its warm-up loop.
Begin ==
    /\ At("begin")
    /\ loop' = IF Stages[stage].kind = "soak" THEN "soak" ELSE "warm"
    /\ IF Stages[stage].kind = "soak" THEN reset_active ELSE UNCHANGED active
    /\ Goto("fill")
    /\ UNCHANGED <<stage, submitted, completed, outstanding, reqs, served, before, verifier, flag,
                   result, taint, faults>>

Fill ==
    /\ At("fill")
    /\ IF submitted < Total /\ submitted < C
       THEN /\ \E t \in Slots : reqs[t].st = "free"
            /\ reqs' = SubmitTo(reqs) /\ submitted' = submitted + 1 /\ UNCHANGED pc
       ELSE Goto("wait") /\ UNCHANGED <<reqs, submitted>>
    /\ UNCHANGED <<stage, loop, completed, outstanding, served, active, before, verifier, flag,
                   result, taint, faults>>

\* ray.wait and ray.get of one result, then the slot is filled again before
\* anything else happens to the result.
Collected(s) ==
    /\ completed' = completed + 1
    /\ outstanding' = <<outstanding[1] + Cardinality(OwnSlots), outstanding[2] + 1>>
    /\ LET r == [reqs EXCEPT ![s] = Free]
       IN  IF submitted < Total THEN reqs' = SubmitTo(r) /\ submitted' = submitted + 1
           ELSE reqs' = r /\ UNCHANGED submitted

\* Soaks and warm-ups verify each result before they go on.
_closed_loop_warmup ==
    /\ At("wait") /\ loop \in {"soak", "warm"} /\ completed < Total
    /\ \E s \in OwnSlots :
         /\ reqs[s].st = "done"
         /\ \/ reqs[s].ok /\ Collected(s) /\ UNCHANGED <<pc, flag>>
            \/ /\ ~reqs[s].ok
               /\ completed' = completed + 1 /\ reqs' = GiveUp(reqs)
               /\ flag' = "invalid" /\ Goto("judge")
               /\ UNCHANGED <<submitted, outstanding>>
    /\ UNCHANGED <<stage, loop, served, active, before, verifier, result, taint, faults>>

\* Nothing came within the timeout.
WaitExpires ==
    /\ At("wait") /\ completed < Total /\ Fault
    /\ \A s \in OwnSlots : reqs[s].st # "done"
    /\ reqs' = GiveUp(reqs) /\ flag' = "timeout"
    /\ Goto(IF loop = "meas" THEN "drain" ELSE "judge")
    /\ UNCHANGED <<stage, loop, submitted, completed, outstanding, served, active, before,
                   verifier, result, taint>>

LoopDone ==
    /\ At("wait") /\ completed = Total
    /\ Goto(CASE loop = "soak" -> "judge" [] loop = "warm" -> "window" [] loop = "meas" -> "drain")
    /\ UNCHANGED <<stage, loop, submitted, completed, outstanding, reqs, served, active, before,
                   verifier, flag, result, taint, faults>>

\* Between warm-up and window the maxima are reset and the counters read; a
\* read that fails counts as zero.
Window ==
    /\ At("window")
    /\ reset_active
    /\ \/ before' = served /\ UNCHANGED faults
       \/ before' = [k \in Counters |-> 0] /\ Fault
    /\ loop' = "meas" /\ submitted' = 0 /\ completed' = 0 /\ outstanding' = <<0, 0>>
    /\ Goto("fill")
    /\ UNCHANGED <<stage, reqs, served, verifier, flag, result, taint>>

MeasuredResult ==
    /\ At("wait") /\ loop = "meas" /\ completed < Total
    /\ \E s \in OwnSlots :
         /\ reqs[s].st = "done"
         /\ Collected(s)
         /\ Goto(IF reqs[s].ok THEN "enqueue_good" ELSE "enqueue_bad")
         /\ taint' = IF reqs[s].ok THEN taint ELSE taint + 1
    /\ UNCHANGED <<stage, loop, served, active, before, verifier, flag, result, faults>>

\* A full queue blocks the scheduler, which contaminates the batch.
enqueue ==
    /\ pc \in {"enqueue_good", "enqueue_bad"}
    /\ LET item == IF pc = "enqueue_good" THEN "good" ELSE "bad"
           n == Len(verifier.q)
           v == [verifier EXCEPT !.high_water = IF n > @ THEN n ELSE @]
       IN  IF n < Capacity
           THEN verifier' = [v EXCEPT !.q = Append(@, item)] /\ Goto("wait")
           ELSE verifier' = [v EXCEPT !.blocked = TRUE] /\ UNCHANGED pc
    /\ UNCHANGED <<stage, loop, submitted, completed, outstanding, reqs, served, active, before,
                   flag, result, taint, faults>>

\* finish: the stop mark follows the last result; the join may expire.
Finish ==
    /\ \/ /\ At("drain") /\ Len(verifier.q) < Capacity
          /\ verifier' = [verifier EXCEPT !.q = Append(@, "stop")]
          /\ Goto("join") /\ UNCHANGED faults
       \/ /\ At("join") /\ Goto("judge") /\ UNCHANGED verifier
          /\ IF verifier.hand = "stop" THEN UNCHANGED faults ELSE Fault
    /\ UNCHANGED <<stage, loop, submitted, completed, outstanding, reqs, served, active, before,
                   flag, result, taint>>

-----------------------------------------------------------------------------
(* The verdicts.                                                           *)

Peer == IF Arm = "ray" THEN "ray_peer" ELSE "hpx_action"
\* Faulty variant: only the peer's counters are looked at.
NoPeerLeak == active[Peer].cur = 0

NoLeak == \A k \in Methods : active[k].cur = 0

eval_soak_gates ==
    IF flag # "none" THEN "concurrency_soak_failed"
    ELSE IF ~NoLeak THEN "active_call_counter_leak"
    ELSE IF active["coord"].max < 2 THEN "coordinator_service_serialized"
    ELSE IF Capability /\ active[Peer].max < 2 THEN "peer_concurrency_capability_not_proven"
    ELSE "pass"

Delta(k) == served[k] - before[k]

eval_throughput_batch_gates ==
    [full_completions |-> completed = N /\ flag # "timeout",
     all_verified |-> verifier.verified = N /\ verifier.invalid = 0 /\ ~verifier.exception,
     verifier_bounded |-> verifier.high_water < Capacity /\ ~verifier.blocked,
     witness_deltas_ok |->
        /\ Delta("outgoing_ray_fetch") = IF Arm = "ray" THEN N ELSE 0
        /\ Delta("serving_ray_fetch") = IF Arm = "ray" THEN N ELSE 0
        /\ Delta("hpx_actions_served") = IF Arm = "hpx" THEN N ELSE 0,
     coordinator_service_overlap |-> C = 1 \/ active["coord"].max >= 2,
     no_counter_leak |-> NoLeak,
     achieved_concurrency_ok |-> 2 * outstanding[1] >= (2 * C - 1) * outstanding[2]]

classify_throughput_batch(g) ==
    IF \A f \in DOMAIN g : g[f] THEN "pass"
    ELSE IF ~g.verifier_bounded THEN "verifier_backpressure_contaminated_batch"
    ELSE IF verifier.exception THEN "verifier_exception"
    ELSE IF ~g.all_verified THEN "throughput_batch_invalidated_by_invalid_result"
    ELSE IF ~g.no_counter_leak THEN "active_call_counter_leak"
    ELSE IF ~g.witness_deltas_ok
    THEN IF Arm = "ray" /\ Delta("hpx_actions_served") # 0 THEN "hpx_action_used_by_ray_arm"
         ELSE IF Arm = "hpx" /\ Delta("serving_ray_fetch") + Delta("outgoing_ray_fetch") # 0
         THEN "ray_peer_used_by_hpx_arm" ELSE "invalid_instrumentation"
    ELSE IF ~g.coordinator_service_overlap THEN "coordinator_service_serialized"
    ELSE IF ~g.achieved_concurrency_ok THEN "achieved_concurrency_below_target"
    ELSE "timeout"

\* A batch whose warm-up failed is judged by that alone.
run_throughput_batch ==
    IF loop = "warm" THEN IF flag = "timeout" THEN "timeout" ELSE "throughput_batch_invalidated_by_invalid_result"
    ELSE classify_throughput_batch(eval_throughput_batch_gates)

\* The batches follow only when both soaks passed.  The variables of the stage
\* end with it.
Judge ==
    /\ At("judge")
    /\ LET c == IF Stages[stage].kind = "soak" THEN eval_soak_gates ELSE run_throughput_batch
           soaksFailed == stage = 2 /\ (result[1] # "pass" \/ c # "pass")
       IN  /\ result' = Append(result, c)
           /\ IF stage = Len(Stages) \/ soaksFailed THEN Goto("ended") /\ UNCHANGED stage
              ELSE Goto("begin") /\ stage' = stage + 1
    /\ submitted' = 0 /\ completed' = 0 /\ outstanding' = <<0, 0>> /\ flag' = "none"
    /\ verifier' = NewVerifier /\ taint' = 0 /\ before' = [k \in Counters |-> 0] /\ loop' = "soak"
    /\ UNCHANGED <<reqs, served, active, faults>>

Scheduler ==
    \/ Begin \/ Fill \/ _closed_loop_warmup \/ WaitExpires \/ LoopDone \/ Window
    \/ MeasuredResult \/ enqueue \/ Finish \/ Judge

-----------------------------------------------------------------------------

\* A batch that passed was measured alone.
PassMeansIsolated ==
    pc = "judge" /\ loop = "meas" /\ run_throughput_batch = "pass" =>
        taint = 0 /\ Inside = {}
=============================================================================
