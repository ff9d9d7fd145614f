------------------------------ MODULE HpxOwner ------------------------------
(***************************************************************************)
(* The process-wide owner of the HPX runtime (class ProcessHpxOwner of     *)
(* _rayx.cpp) and the two locks its callers take: the interpreter lock     *)
(* (GIL) that a Python thread holds when it calls into the extension, and  *)
(* the owner's mutex mu_, which attach() and detach() hold to the end.     *)
(* Starting and stopping HPX give the GIL up and take it back while mu_ is *)
(* held.                                                                   *)
(*                                                                         *)
(* The callers are the constructors and the shutdown()/close() methods of  *)
(* Engine, RuntimeEngine and _Endpoint, and a constructor that fails after *)
(* it has attached and detaches before it throws.                          *)
(***************************************************************************)
EXTENDS Integers

CONSTANTS
    Threads,       \* Python threads
    NoThread,      \* "nobody" holds a lock
    MaxEndpoints   \* bound on live endpoints

VARIABLES
    gil,           \* the thread that holds the GIL
    mu,            \* the thread that holds mu_
    engine,        \* engine_
    runtime,       \* runtime_
    endpoints,     \* endpoints_
    started,       \* started_
    refcount,      \* hpx_refcount_
    hpx,           \* the HPX runtime itself
    live,          \* per kind: objects that are constructed and not shut down
    tpc,           \* per thread: control point
    call,          \* per thread: "attach" or "detach"
    kind           \* per thread: the kind it attaches or detaches

lockVars == <<gil, mu>>
ownerVars == <<engine, runtime, endpoints, started, refcount>>
vars == <<gil, mu, engine, runtime, endpoints, started, refcount, hpx, live,
          tpc, call, kind>>
-----------------------------------------------------------------------------
Kinds == {"Engine", "Runtime", "Endpoint"}

Init ==
    /\ gil = NoThread /\ mu = NoThread
    /\ engine = FALSE /\ runtime = FALSE /\ endpoints = 0
    /\ started = FALSE /\ refcount = 0
    /\ hpx = "down"
    /\ live = [k \in Kinds |-> 0]
    /\ tpc = [t \in Threads |-> "idle"]
    /\ call = [t \in Threads |-> "attach"]
    /\ kind = [t \in Threads |-> "Endpoint"]

\* Faulty variant: a policy that lets an Engine in beside Endpoints.
ConflictEnginesOnly(k) ==
    CASE k = "Engine"   -> engine \/ runtime
      [] k = "Runtime"  -> engine \/ runtime
      [] k = "Endpoint" -> engine

\* The policy matrix of attach().
Conflict(k) ==
    CASE k = "Engine"   -> engine \/ runtime \/ endpoints > 0
      [] k = "Runtime"  -> engine \/ runtime
      [] k = "Endpoint" -> engine

\* A Python thread takes the GIL and constructs an object.
Construct(t, k) ==
    /\ tpc[t] = "idle"
    /\ gil = NoThread
    /\ k = "Endpoint" => live[k] < MaxEndpoints
    /\ gil' = t
    /\ tpc' = [tpc EXCEPT ![t] = "lock"]
    /\ call' = [call EXCEPT ![t] = "attach"]
    /\ kind' = [kind EXCEPT ![t] = k]
    /\ UNCHANGED <<mu, ownerVars, hpx, live>>

\* A Python thread takes the GIL and shuts a live object down: the object's
\* running_ or closed_ flag is flipped first, so it detaches once.  A Runtime
\* then releases the GIL to drain the bridge and its lanes.
Shutdown(t, k) ==
    /\ tpc[t] = "idle"
    /\ gil = NoThread
    /\ live[k] > 0
    /\ gil' = IF k = "Runtime" THEN NoThread ELSE t
    /\ live' = [live EXCEPT ![k] = @ - 1]
    /\ tpc' = [tpc EXCEPT ![t] = IF k = "Runtime" THEN "draining" ELSE "lock"]
    /\ call' = [call EXCEPT ![t] = "detach"]
    /\ kind' = [kind EXCEPT ![t] = k]
    /\ UNCHANGED <<mu, ownerVars, hpx>>

\* The Runtime has drained and has the GIL again.
Drained(t) ==
    /\ tpc[t] = "draining"
    /\ gil = NoThread
    /\ gil' = t
    /\ tpc' = [tpc EXCEPT ![t] = "lock"]
    /\ UNCHANGED <<mu, ownerVars, hpx, live, call, kind>>

\* attach() and detach() lock mu_, with the GIL held.
Lock(t) ==
    /\ tpc[t] = "lock"
    /\ mu = NoThread
    /\ mu' = t
    /\ tpc' = [tpc EXCEPT ![t] = call[t]]
    /\ UNCHANGED <<gil, ownerVars, hpx, live, call, kind>>

\* attach(): a policy violation throws and leaves the owner as it was.
AttachThrows(t) ==
    /\ tpc[t] = "attach"
    /\ Conflict(kind[t])
    /\ mu' = NoThread
    /\ tpc' = [tpc EXCEPT ![t] = "return"]
    /\ UNCHANGED <<gil, ownerVars, hpx, live, call, kind>>

\* attach() of an Endpoint: bookkeeping only.
AttachEndpoint(t) ==
    /\ tpc[t] = "attach"
    /\ kind[t] = "Endpoint"
    /\ ~Conflict(kind[t])
    /\ endpoints' = endpoints + 1
    /\ mu' = NoThread
    /\ tpc' = [tpc EXCEPT ![t] = "attached"]
    /\ UNCHANGED <<gil, engine, runtime, started, refcount, hpx, live, call, kind>>

\* The fields that attach() of an Engine or a Runtime sets once HPX is up.
Claim(k) ==
    /\ started' = TRUE
    /\ refcount' = refcount + 1
    /\ engine' = (engine \/ k = "Engine")
    /\ runtime' = (runtime \/ k = "Runtime")
    /\ UNCHANGED endpoints

\* start_hpx_locked(): with HPX up already the owner only counts the claim;
\* otherwise start_process_hpx() releases the GIL around hpx::start.
StartHpxLocked(t) ==
    /\ tpc[t] = "attach"
    /\ kind[t] # "Endpoint"
    /\ ~Conflict(kind[t])
    /\ IF started
       THEN /\ Claim(kind[t])
            /\ mu' = NoThread
            /\ tpc' = [tpc EXCEPT ![t] = "attached"]
            /\ UNCHANGED <<gil, hpx>>
       ELSE /\ hpx' = IF hpx = "down" THEN "starting" ELSE "started_twice"
            /\ gil' = NoThread
            /\ tpc' = [tpc EXCEPT ![t] = "starting"]
            /\ UNCHANGED <<mu, ownerVars>>
    /\ UNCHANGED <<live, call, kind>>

\* hpx::start returns, and the thread waits for the GIL; it may have failed.
HpxStarted(t) ==
    /\ tpc[t] = "starting"
    /\ \/ hpx' = "up" /\ tpc' = [tpc EXCEPT ![t] = "claim"]
       \/ hpx' = "down" /\ tpc' = [tpc EXCEPT ![t] = "start_failed"]
    /\ UNCHANGED <<lockVars, ownerVars, live, call, kind>>

AttachClaims(t) ==
    /\ tpc[t] = "claim"
    /\ gil = NoThread
    /\ gil' = t
    /\ Claim(kind[t])
    /\ mu' = NoThread
    /\ tpc' = [tpc EXCEPT ![t] = "attached"]
    /\ UNCHANGED <<hpx, live, call, kind>>

\* "hpx::start failed" is thrown out of attach().
StartThrows(t) ==
    /\ tpc[t] = "start_failed"
    /\ gil = NoThread
    /\ gil' = t
    /\ mu' = NoThread
    /\ tpc' = [tpc EXCEPT ![t] = "return"]
    /\ UNCHANGED <<ownerVars, hpx, live, call, kind>>

\* The rest of the constructor succeeds, or fails and detaches again.
Constructed(t) ==
    /\ tpc[t] = "attached"
    /\ live' = [live EXCEPT ![kind[t]] = @ + 1]
    /\ tpc' = [tpc EXCEPT ![t] = "return"]
    /\ UNCHANGED <<lockVars, ownerVars, hpx, call, kind>>

\* Faulty variant: a constructor that fails after it attached just throws.
ConstructorThrows(t) ==
    /\ tpc[t] = "attached"
    /\ tpc' = [tpc EXCEPT ![t] = "return"]
    /\ UNCHANGED <<lockVars, ownerVars, hpx, live, call, kind>>

ConstructorFails(t) ==
    /\ tpc[t] = "attached"
    /\ call' = [call EXCEPT ![t] = "detach"]
    /\ tpc' = [tpc EXCEPT ![t] = "lock"]
    /\ UNCHANGED <<lockVars, ownerVars, hpx, live, kind>>

DetachEndpoint(t) ==
    /\ tpc[t] = "detach"
    /\ kind[t] = "Endpoint"
    /\ endpoints' = IF endpoints > 0 THEN endpoints - 1 ELSE endpoints
    /\ mu' = NoThread
    /\ tpc' = [tpc EXCEPT ![t] = "return"]
    /\ UNCHANGED <<gil, engine, runtime, started, refcount, hpx, live, call, kind>>

\* detach() of an Engine or a Runtime: the flag, the reference count, and at
\* the last reference stop_process_hpx(), which releases the GIL.
DetachOwner(t) ==
    /\ tpc[t] = "detach"
    /\ kind[t] # "Endpoint"
    /\ IF IF kind[t] = "Engine" THEN engine ELSE runtime
       THEN /\ engine' = (engine /\ kind[t] # "Engine")
            /\ runtime' = (runtime /\ kind[t] # "Runtime")
            /\ refcount' = IF refcount > 0 THEN refcount - 1 ELSE refcount
            /\ IF refcount = 1 /\ started
               THEN /\ hpx' = "stopping"
                    /\ gil' = NoThread /\ UNCHANGED mu
                    /\ tpc' = [tpc EXCEPT ![t] = "stopping"]
               ELSE /\ mu' = NoThread
                    /\ tpc' = [tpc EXCEPT ![t] = "return"]
                    /\ UNCHANGED <<gil, hpx>>
       ELSE /\ mu' = NoThread
            /\ tpc' = [tpc EXCEPT ![t] = "return"]
            /\ UNCHANGED <<gil, engine, runtime, refcount, hpx>>
    /\ UNCHANGED <<endpoints, started, live, call, kind>>

HpxStopped(t) ==
    /\ tpc[t] = "stopping"
    /\ hpx = "stopping"
    /\ hpx' = "down"
    /\ UNCHANGED <<lockVars, ownerVars, live, tpc, call, kind>>

\* Faulty variant: started_ survives the stop of HPX.
DetachForgets(t) ==
    /\ tpc[t] = "stopping"
    /\ hpx = "down"
    /\ gil = NoThread
    /\ gil' = t
    /\ mu' = NoThread
    /\ tpc' = [tpc EXCEPT ![t] = "return"]
    /\ UNCHANGED <<ownerVars, hpx, live, call, kind>>

DetachDone(t) ==
    /\ tpc[t] = "stopping"
    /\ hpx = "down"
    /\ gil = NoThread
    /\ gil' = t
    /\ started' = FALSE
    /\ mu' = NoThread
    /\ tpc' = [tpc EXCEPT ![t] = "return"]
    /\ UNCHANGED <<engine, runtime, endpoints, refcount, hpx, live, call, kind>>

\* The call returns to the interpreter, which may switch threads.
Return(t) ==
    /\ tpc[t] = "return"
    /\ gil' = NoThread
    /\ tpc' = [tpc EXCEPT ![t] = "idle"]
    /\ UNCHANGED <<mu, ownerVars, hpx, live, call, kind>>
-----------------------------------------------------------------------------
Step(t) ==
    \/ Drained(t) \/ Lock(t) \/ AttachThrows(t) \/ AttachEndpoint(t)
    \/ StartHpxLocked(t) \/ HpxStarted(t) \/ AttachClaims(t) \/ StartThrows(t)
    \/ Constructed(t) \/ ConstructorFails(t)
    \/ DetachEndpoint(t) \/ DetachOwner(t) \/ HpxStopped(t) \/ DetachDone(t)
    \/ Return(t)

Next ==
    \E t \in Threads :
        \/ Step(t)
        \/ \E k \in Kinds : Construct(t, k) \/ Shutdown(t, k)

Spec == Init /\ [][Next]_vars
-----------------------------------------------------------------------------
(* Properties.                                                             *)

TypeOK ==
    /\ gil \in Threads \cup {NoThread}
    /\ mu \in Threads \cup {NoThread}
    /\ engine \in BOOLEAN /\ runtime \in BOOLEAN /\ started \in BOOLEAN
    /\ endpoints \in Nat /\ refcount \in Nat
    /\ hpx \in {"down", "starting", "up", "stopping", "started_twice"}
    /\ live \in [Kinds -> Nat]
    /\ tpc \in [Threads -> {"idle", "draining", "lock", "attach", "starting", "claim",
                            "start_failed", "attached", "detach", "stopping", "return"}]
    /\ call \in [Threads -> {"attach", "detach"}]
    /\ kind \in [Threads -> Kinds]

\* "ENGINE: exclusive", "RUNTIME: singleton", "ENDPOINT: not with Engine":
\* which objects can be alive together, whatever the threads that made them.
PolicyMatrix ==
    /\ live["Engine"] > 0 => live["Runtime"] = 0 /\ live["Endpoint"] = 0
    /\ live["Engine"] <= 1 /\ live["Runtime"] <= 1

\* HPX runs exactly while an Engine or a Runtime holds it: an owner can use it
\* from the end of its constructor to its shutdown, and when nobody holds mu_
\* and no owner is left it is down and can be started again.
HpxFollowsOwners ==
    /\ live["Engine"] + live["Runtime"] > 0 => started /\ hpx = "up"
    /\ mu = NoThread =>
         /\ started <=> engine \/ runtime
         /\ hpx = IF started THEN "up" ELSE "down"

\* hpx::start is never called while HPX is up or on its way.
StartedOnce == hpx # "started_twice"

\* When no call is in progress, the owner's books match the objects alive:
\* failed constructors and repeated shutdowns leave no claim behind.
BooksMatchObjects ==
    (\A t \in Threads : tpc[t] = "idle") =>
        /\ endpoints = live["Endpoint"]
        /\ engine <=> live["Engine"] = 1
        /\ runtime <=> live["Runtime"] = 1
        /\ refcount = live["Engine"] + live["Runtime"]

\* "the CPython GIL serializes Python construction/teardown calls": a call
\* that enters attach() or detach() finds no other call inside, so mu_ is free.
\* (A thread that finds it taken waits for mu_ with the GIL in its hands, and
\* the holder of mu_ waits for the GIL: neither moves again.)
SerializedByGIL == \A t \in Threads : tpc[t] = "lock" /\ gil = t => mu = NoThread
=============================================================================
