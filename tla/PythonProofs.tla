---------------------------- MODULE PythonProofs ----------------------------
(***************************************************************************)
(* Proofs about the package: the HPX owner for any finite set of threads   *)
(* and any bound on endpoints, the bridge for any finite set of callers    *)
(* and any number of lanes and Runtimes, the endpoints with their listener *)
(* and the two facades.  A step of the package is a step of one part, and  *)
(* the others take none.                                                   *)
(***************************************************************************)
EXTENDS MCPython, FiniteSetTheorems, TLAPS

\* Each part of the package takes its own step or none.
LEMMA PartSteps == [Next]_pyVars => [Owner!Next]_ownerVars /\ [Bridge!Next]_bridgeVars
<1>1. CASE FacadeNext \/ EndpointNext
  BY <1>1 DEF FacadeNext, EndpointNext, Lanes_, Returns_, Listener_
<1>2. CASE OwnerNext \/ BridgeNext
  BY <1>2 DEF OwnerNext, BridgeNext
<1>3. CASE UNCHANGED pyVars
  BY <1>3 DEF pyVars
<1> QED BY <1>1, <1>2, <1>3 DEF Next

-----------------------------------------------------------------------------
(* The owner.                                                               *)

\* Control points inside the owner's mutex.
Inside == {"attach", "starting", "claim", "start_failed", "detach", "stopping"}

\* Control points at which HPX is on its way up or down.
Transient == {"starting", "claim", "start_failed", "stopping"}

\* A constructor or a shutdown between its claim on the owner and the end of
\* that claim, while no object stands for it.
Holds(t) ==
    \/ tpc[t] = "attached"
    \/ call[t] = "detach" /\ tpc[t] \in {"draining", "lock", "detach"}

Holders(k) == {t \in Threads : attaching[t] = k /\ Holds(t)}

\* The claims of kind k: its live objects and the calls that hold one.
Claims(k) == live[k] + Cardinality(Holders(k))

\* A thread is inside exactly while it has mu_.
Mutex == \A t \in Threads : tpc[t] \in Inside <=> mu = t

\* An attaching thread was called to attach, a detaching one to detach.
CallMatches ==
    \A t \in Threads : /\ tpc[t] = "attach" => call[t] = "attach"
                       /\ tpc[t] = "detach" => call[t] = "detach"

\* The books count the claims of each kind.
BooksExact ==
    /\ endpoints = Claims("Endpoint")
    /\ Claims("Engine") = IF engine THEN 1 ELSE 0
    /\ Claims("Runtime") = IF runtime THEN 1 ELSE 0
    /\ refcount = IF engine \/ runtime THEN 1 ELSE 0

\* An Engine is alone, whatever else it meets.
EngineExclusive == engine => ~runtime /\ endpoints = 0

\* A thread that starts HPX has passed the policy and found HPX down; one that
\* stops it has withdrawn the last claim.
OwnerBusy ==
    \A t \in Threads :
        /\ tpc[t] \in {"starting", "claim", "start_failed"} =>
             attaching[t] # "Endpoint" /\ ~Owner!Conflict(attaching[t]) /\ ~started
        /\ tpc[t] = "starting" => hpx = "starting"
        /\ tpc[t] = "claim" => hpx = "up"
        /\ tpc[t] = "start_failed" => hpx = "down"
        /\ tpc[t] = "stopping" => /\ started /\ ~engine /\ ~runtime
                                  /\ hpx \in {"stopping", "down"}

\* Otherwise HPX is up exactly with an owner.
OwnerCalm ==
    (\A t \in Threads : tpc[t] \notin Transient) =>
        /\ started <=> engine \/ runtime
        /\ hpx = IF started THEN "up" ELSE "down"

OwnerInv ==
    /\ Owner!TypeOK
    /\ Mutex
    /\ CallMatches
    /\ BooksExact
    /\ EngineExclusive
    /\ OwnerBusy
    /\ OwnerCalm
-----------------------------------------------------------------------------
LEMMA InitTyped == Owner!Init => Owner!TypeOK
<1> SUFFICES ASSUME Owner!Init PROVE Owner!TypeOK
  OBVIOUS
<1>1. engine \in BOOLEAN /\ runtime \in BOOLEAN /\ started \in BOOLEAN
  BY Zenon DEF Owner!Init
<1>2. "Endpoint" \in Owner!Kinds
  BY DEF Owner!Kinds
<1>3. /\ live \in [Owner!Kinds -> Nat] /\ call \in [Threads -> {"attach", "detach"}]
      /\ attaching \in [Threads -> Owner!Kinds]
  BY <1>2 DEF Owner!Init
<1> QED BY <1>1, <1>3 DEF Owner!Init, Owner!TypeOK

\* Every step keeps the types.
LEMMA TypesKept == Owner!TypeOK /\ [Owner!Next]_ownerVars => Owner!TypeOK'
<1> SUFFICES ASSUME Owner!TypeOK, [Owner!Next]_ownerVars PROVE Owner!TypeOK'
  OBVIOUS
<1> USE DEF Owner!TypeOK, Owner!Kinds, Owner!lockVars, Owner!ownerVars
<1>1. ASSUME NEW t \in Threads, Owner!Step(t) PROVE Owner!TypeOK'
  <2>1. CASE Owner!Drained(t)          BY <2>1 DEF Owner!Drained
  <2>2. CASE Owner!Lock(t)             BY <2>2 DEF Owner!Lock
  <2>3. CASE Owner!AttachThrows(t)     BY <2>3 DEF Owner!AttachThrows
  <2>4. CASE Owner!AttachEndpoint(t)   BY <2>4 DEF Owner!AttachEndpoint
  <2>5. CASE Owner!StartHpxLocked(t)
    <3>1. engine' \in BOOLEAN /\ runtime' \in BOOLEAN /\ started' \in BOOLEAN
      BY <2>5, Zenon DEF Owner!StartHpxLocked, Owner!Claim
    <3> QED BY <2>5, <3>1 DEF Owner!StartHpxLocked, Owner!Claim
  <2>6. CASE Owner!HpxStarted(t)       BY <2>6 DEF Owner!HpxStarted
  <2>7. CASE Owner!AttachClaims(t)     BY <2>7 DEF Owner!AttachClaims, Owner!Claim
  <2>8. CASE Owner!StartThrows(t)      BY <2>8 DEF Owner!StartThrows
  <2>9. CASE Owner!Constructed(t)      BY <2>9 DEF Owner!Constructed
  <2>10. CASE Owner!ConstructorFails(t) BY <2>10 DEF Owner!ConstructorFails
  <2>11. CASE Owner!DetachEndpoint(t)  BY <2>11 DEF Owner!DetachEndpoint
  <2>12. CASE Owner!DetachOwner(t)
    <3>1. engine' \in BOOLEAN /\ runtime' \in BOOLEAN /\ started' \in BOOLEAN
      BY <2>12, Zenon DEF Owner!DetachOwner
    <3> QED BY <2>12, <3>1 DEF Owner!DetachOwner
  <2>13. CASE Owner!HpxStopped(t)      BY <2>13 DEF Owner!HpxStopped
  <2>14. CASE Owner!DetachDone(t)      BY <2>14 DEF Owner!DetachDone
  <2>15. CASE Owner!Return(t)          BY <2>15 DEF Owner!Return
  <2> QED BY <1>1, <2>1, <2>2, <2>3, <2>4, <2>5, <2>6, <2>7, <2>8, <2>9, <2>10,
             <2>11, <2>12, <2>13, <2>14, <2>15 DEF Owner!Step
<1>2. ASSUME NEW t \in Threads, NEW k \in Owner!Kinds, Owner!Construct(t, k) PROVE Owner!TypeOK'
  BY <1>2 DEF Owner!Construct
<1>3. ASSUME NEW t \in Threads, NEW k \in Owner!Kinds, Owner!Shutdown(t, k) PROVE Owner!TypeOK'
  <2>1. live[k] - 1 \in Nat
    BY <1>3 DEF Owner!Shutdown
  <2> QED BY <1>3, <2>1 DEF Owner!Shutdown
<1>4. CASE UNCHANGED ownerVars
  BY <1>4 DEF ownerVars
<1> QED BY <1>1, <1>2, <1>3, <1>4 DEF Owner!Next

\* How the number of holders of a kind follows the threads' steps.
LEMMA HoldersCount ==
  ASSUME IsFiniteSet(Threads), NEW k
  PROVE  /\ IsFiniteSet(Holders(k))
         /\ Cardinality(Holders(k)) \in Nat
         /\ \A t \in Holders(k) : Cardinality(Holders(k)) >= 1
<1>1. IsFiniteSet(Holders(k))
  <2>1. Holders(k) \in SUBSET Threads
    BY DEF Holders
  <2> QED BY <2>1, FS_Subset
<1>2. Cardinality(Holders(k)) \in Nat
  BY <1>1, FS_CardinalityType
<1>3. Cardinality(Holders(k)) = 0 <=> Holders(k) = {}
  BY <1>1, FS_EmptySet
<1> QED BY <1>1, <1>2, <1>3

\* A step of one thread that keeps its kind moves it in or out of the holders
\* of that kind, and of no other.
LEMMA HoldersStep ==
  ASSUME IsFiniteSet(Threads), Owner!TypeOK, Owner!TypeOK', NEW t \in Threads,
         \A u \in Threads \ {t} : /\ tpc'[u] = tpc[u] /\ call'[u] = call[u]
                                  /\ attaching'[u] = attaching[u]
  PROVE  /\ \A k \in Owner!Kinds : (attaching'[t] = k /\ Holds(t)') <=> (attaching[t] = k /\ Holds(t))
               => Cardinality(Holders(k))' = Cardinality(Holders(k))
         /\ \A k \in Owner!Kinds : attaching'[t] = k /\ Holds(t)' /\ ~(attaching[t] = k /\ Holds(t))
               => Cardinality(Holders(k))' = Cardinality(Holders(k)) + 1
         /\ \A k \in Owner!Kinds : ~(attaching'[t] = k /\ Holds(t)') /\ attaching[t] = k /\ Holds(t)
               => Cardinality(Holders(k))' = Cardinality(Holders(k)) - 1
<1> SUFFICES ASSUME NEW k \in Owner!Kinds
             PROVE  /\ ((attaching'[t] = k /\ Holds(t)') <=> (attaching[t] = k /\ Holds(t)))
                         => Cardinality(Holders(k))' = Cardinality(Holders(k))
                    /\ attaching'[t] = k /\ Holds(t)' /\ ~(attaching[t] = k /\ Holds(t))
                         => Cardinality(Holders(k))' = Cardinality(Holders(k)) + 1
                    /\ ~(attaching'[t] = k /\ Holds(t)') /\ attaching[t] = k /\ Holds(t)
                         => Cardinality(Holders(k))' = Cardinality(Holders(k)) - 1
  OBVIOUS
<1>1. \A u \in Threads \ {t} : u \in Holders(k)' <=> u \in Holders(k)
  BY DEF Holders, Holds
<1>2. IsFiniteSet(Holders(k))
  BY HoldersCount
<1>3. t \in Holders(k) <=> attaching[t] = k /\ Holds(t)
  BY DEF Holders
<1>4. t \in Holders(k)' <=> attaching'[t] = k /\ Holds(t)'
  BY DEF Holders
<1>5. Holders(k) \subseteq Threads /\ Holders(k)' \subseteq Threads
  BY DEF Holders
<1>6. CASE t \in Holders(k)' <=> t \in Holders(k)
  <2>1. Holders(k)' = Holders(k)
    BY <1>1, <1>5, <1>6
  <2> QED BY <1>3, <1>4, <1>6, <2>1
<1>7. CASE t \in Holders(k)' /\ t \notin Holders(k)
  <2>1. Holders(k)' = Holders(k) \cup {t}
    BY <1>1, <1>5, <1>7
  <2>2. Cardinality(Holders(k) \cup {t}) = Cardinality(Holders(k)) + 1
    BY <1>2, <1>7, FS_AddElement
  <2> QED BY <1>3, <1>4, <1>7, <2>1, <2>2
<1>8. CASE t \notin Holders(k)' /\ t \in Holders(k)
  <2>1. Holders(k)' = Holders(k) \ {t}
    BY <1>1, <1>5, <1>8
  <2>2. Cardinality(Holders(k) \ {t}) = Cardinality(Holders(k)) - 1
    BY <1>2, <1>8, FS_RemoveElement
  <2> QED BY <1>3, <1>4, <1>8, <2>1, <2>2
<1> QED BY <1>6, <1>7, <1>8
-----------------------------------------------------------------------------
\* Only t moved.
OnlyMoves(t) ==
    \A u \in Threads \ {t} : tpc'[u] = tpc[u] /\ call'[u] = call[u] /\ attaching'[u] = attaching[u]

\* With mu_ in the hands of t no other thread is inside.
LEMMA Alone ==
  ASSUME Mutex, NEW t \in Threads, mu = t
  PROVE  \A u \in Threads : u # t => tpc[u] \notin Inside /\ tpc[u] \notin Transient
  BY DEF Mutex, Inside, Transient

\* Every thread that moves moves alone.
LEMMA StepMovesOne ==
  ASSUME Owner!TypeOK, NEW t \in Threads,
         Owner!Step(t) \/ \E k \in Owner!Kinds : Owner!Construct(t, k) \/ Owner!Shutdown(t, k)
  PROVE  OnlyMoves(t)
<1> USE DEF Owner!TypeOK, OnlyMoves
<1>1. CASE Owner!Step(t)
  BY <1>1 DEF Owner!Step, Owner!Drained, Owner!Lock, Owner!AttachThrows, Owner!AttachEndpoint, Owner!StartHpxLocked, Owner!HpxStarted,
              Owner!AttachClaims, Owner!StartThrows, Owner!Constructed, Owner!ConstructorFails, Owner!DetachEndpoint,
              Owner!DetachOwner, Owner!HpxStopped, Owner!DetachDone, Owner!Return
<1>2. CASE \E k \in Owner!Kinds : Owner!Construct(t, k) \/ Owner!Shutdown(t, k)
  BY <1>2 DEF Owner!Construct, Owner!Shutdown
<1> QED BY <1>1, <1>2

\* A step that leaves the books and HPX alone, keeps the claims and starts or
\* stops nothing keeps what the books say.
LEMMA BooksUntouched ==
  ASSUME OwnerInv, NEW t \in Threads, OnlyMoves(t),
         UNCHANGED <<Owner!ownerVars, hpx>>,
         \A k \in Owner!Kinds : Claims(k)' = Claims(k),
         tpc'[t] \notin Transient,
         tpc[t] \notin Transient \/ tpc[t] = "start_failed"
  PROVE  BooksExact' /\ EngineExclusive' /\ OwnerBusy' /\ OwnerCalm'
<1> USE DEF OwnerInv, Owner!ownerVars
<1>1. BooksExact'
  BY DEF BooksExact, Owner!Kinds
<1>2. EngineExclusive'
  BY DEF EngineExclusive
<1>3. \A u \in Threads : tpc'[u] \in Transient => u # t /\ tpc'[u] = tpc[u] /\ attaching'[u] = attaching[u]
  BY DEF OnlyMoves
<1>4. \A k : Owner!Conflict(k)' <=> Owner!Conflict(k)
  BY DEF Owner!Conflict
<1>5. OwnerBusy'
  BY <1>3, <1>4 DEF OwnerBusy, Transient
<1>6. OwnerCalm'
  <2>1. CASE tpc[t] \notin Transient
    BY <2>1 DEF OwnerCalm, OnlyMoves
  <2>2. CASE tpc[t] = "start_failed"
    <3>1. attaching[t] # "Endpoint" /\ ~Owner!Conflict(attaching[t]) /\ ~started /\ hpx = "down"
      BY <2>2 DEF OwnerBusy
    <3>2. attaching[t] \in {"Engine", "Runtime"}
      BY <3>1 DEF Owner!TypeOK, Owner!Kinds
    <3>3. ~engine /\ ~runtime
      BY <3>1, <3>2 DEF Owner!Conflict
    <3> QED BY <3>1, <3>3 DEF OwnerCalm
  <2> QED BY <2>1, <2>2
<1> QED BY <1>1, <1>2, <1>5, <1>6

\* The steps that take and give back locks, begin a call and end it, and the
\* constructor's own end.
LEMMA LockSteps ==
  ASSUME IsFiniteSet(Threads), NoThread \notin Threads, OwnerInv, Owner!TypeOK', NEW t \in Threads,
         \/ Owner!Drained(t) \/ Owner!Lock(t) \/ Owner!AttachThrows(t) \/ Owner!StartThrows(t) \/ Owner!Constructed(t)
         \/ Owner!ConstructorFails(t) \/ Owner!Return(t)
         \/ \E k \in Owner!Kinds : Owner!Construct(t, k) \/ Owner!Shutdown(t, k)
  PROVE  OwnerInv'
<1> USE DEF OwnerInv
<1>1. OnlyMoves(t)
  BY StepMovesOne DEF Owner!Step
<1>2. UNCHANGED <<Owner!ownerVars, hpx>>
  BY DEF Owner!Drained, Owner!Lock, Owner!AttachThrows, Owner!StartThrows, Owner!Constructed, Owner!ConstructorFails, Owner!Return,
         Owner!Construct, Owner!Shutdown
<1>3. /\ tpc'[t] \notin Transient
      /\ tpc[t] \notin Transient \/ tpc[t] = "start_failed"
  BY DEF Owner!TypeOK, Transient, Owner!Drained, Owner!Lock, Owner!AttachThrows, Owner!StartThrows, Owner!Constructed,
         Owner!ConstructorFails, Owner!Return, Owner!Construct, Owner!Shutdown
<1>4. \A k \in Owner!Kinds : Claims(k)' = Claims(k)
  <2> SUFFICES ASSUME NEW k \in Owner!Kinds PROVE Claims(k)' = Claims(k)
    OBVIOUS
  <2>1. live[k] \in Nat /\ Cardinality(Holders(k)) \in Nat
    BY HoldersCount DEF Owner!TypeOK
  <2>2. CASE Owner!Constructed(t)
    <3>1. /\ live'[k] = IF k = attaching[t] THEN live[k] + 1 ELSE live[k]
          /\ attaching'[t] = attaching[t] /\ Holds(t) /\ ~Holds(t)'
      BY <2>2 DEF Owner!Constructed, Owner!TypeOK, Holds
    <3>2. Cardinality(Holders(k))' =
            IF k = attaching[t] THEN Cardinality(Holders(k)) - 1 ELSE Cardinality(Holders(k))
      BY <1>1, <3>1, HoldersStep DEF OnlyMoves
    <3> QED BY <2>1, <3>1, <3>2 DEF Claims
  <2>3. CASE \E m \in Owner!Kinds : Owner!Shutdown(t, m)
    <3>1. PICK m \in Owner!Kinds : Owner!Shutdown(t, m)
      BY <2>3
    <3>2. /\ live'[k] = IF k = m THEN live[k] - 1 ELSE live[k]
          /\ attaching'[t] = m /\ ~Holds(t) /\ Holds(t)'
      BY <3>1 DEF Owner!Shutdown, Owner!TypeOK, Holds
    <3>3. Cardinality(Holders(k))' =
            IF k = m THEN Cardinality(Holders(k)) + 1 ELSE Cardinality(Holders(k))
      BY <1>1, <3>2, HoldersStep DEF OnlyMoves
    <3> QED BY <2>1, <3>2, <3>3 DEF Claims
  <2>4. CASE \E m \in Owner!Kinds : Owner!Construct(t, m)
    <3>1. live' = live /\ ~Holds(t) /\ ~Holds(t)'
      BY <2>4 DEF Owner!Construct, Owner!TypeOK, Holds
    <3>2. Cardinality(Holders(k))' = Cardinality(Holders(k))
      BY <1>1, <3>1, HoldersStep DEF OnlyMoves
    <3> QED BY <3>1, <3>2 DEF Claims
  <2>5. CASE Owner!Drained(t) \/ Owner!Lock(t) \/ Owner!AttachThrows(t) \/ Owner!StartThrows(t) \/ Owner!ConstructorFails(t)
             \/ Owner!Return(t)
    <3>1. live' = live /\ attaching' = attaching
      BY <2>5 DEF Owner!Drained, Owner!Lock, Owner!AttachThrows, Owner!StartThrows, Owner!ConstructorFails, Owner!Return
    <3>2. Holds(t)' <=> Holds(t)
      BY <2>5 DEF CallMatches, Owner!TypeOK, Holds, Owner!Drained, Owner!Lock, Owner!AttachThrows, Owner!StartThrows,
                  Owner!ConstructorFails, Owner!Return
    <3>3. Cardinality(Holders(k))' = Cardinality(Holders(k))
      BY <1>1, <3>1, <3>2, HoldersStep DEF OnlyMoves
    <3> QED BY <3>1, <3>3 DEF Claims
  <2> QED BY <2>2, <2>3, <2>4, <2>5
<1>5. BooksExact' /\ EngineExclusive' /\ OwnerBusy' /\ OwnerCalm'
  BY <1>1, <1>2, <1>3, <1>4, BooksUntouched
<1>6. Mutex'
  <2>1. CASE Owner!Lock(t)
    <3>1. mu = NoThread /\ mu' = t /\ tpc'[t] \in Inside
      BY <2>1 DEF Owner!Lock, Owner!TypeOK, Inside
    <3> QED BY <1>1, <3>1 DEF Mutex, OnlyMoves
  <2>2. CASE Owner!AttachThrows(t) \/ Owner!StartThrows(t)
    <3>1. mu = t
      BY <2>2 DEF Mutex, Inside, Owner!AttachThrows, Owner!StartThrows
    <3>2. mu' = NoThread /\ tpc'[t] \notin Inside
      BY <2>2 DEF Owner!AttachThrows, Owner!StartThrows, Owner!TypeOK, Inside
    <3> QED BY <1>1, <3>1, <3>2 DEF Mutex, OnlyMoves
  <2>3. CASE \/ Owner!Drained(t) \/ Owner!Constructed(t) \/ Owner!ConstructorFails(t) \/ Owner!Return(t)
             \/ \E k \in Owner!Kinds : Owner!Construct(t, k) \/ Owner!Shutdown(t, k)
    <3>1. mu' = mu /\ tpc[t] \notin Inside /\ tpc'[t] \notin Inside
      BY <2>3 DEF Owner!Drained, Owner!Constructed, Owner!ConstructorFails, Owner!Return, Owner!Construct, Owner!Shutdown,
                  Owner!lockVars, Owner!TypeOK, Inside
    <3> QED BY <1>1, <3>1 DEF Mutex, OnlyMoves
  <2> QED BY <2>1, <2>2, <2>3
<1>7. CallMatches'
  BY <1>1 DEF CallMatches, OnlyMoves, Owner!TypeOK, Owner!Drained, Owner!Lock, Owner!AttachThrows, Owner!StartThrows,
              Owner!Constructed, Owner!ConstructorFails, Owner!Return, Owner!Construct, Owner!Shutdown
<1> QED BY <1>5, <1>6, <1>7

\* The steps inside attach() and detach() that change the books or HPX.
LEMMA AttachSteps ==
  ASSUME IsFiniteSet(Threads), NoThread \notin Threads, OwnerInv, Owner!TypeOK', NEW t \in Threads,
         Owner!AttachEndpoint(t) \/ Owner!StartHpxLocked(t) \/ Owner!HpxStarted(t) \/ Owner!AttachClaims(t)
  PROVE  OwnerInv'
<1> USE DEF OwnerInv
<1>1. OnlyMoves(t)
  BY StepMovesOne DEF Owner!Step
<1>2. mu = t /\ tpc[t] \in Inside
  BY DEF Mutex, Inside, Owner!AttachEndpoint, Owner!StartHpxLocked, Owner!HpxStarted, Owner!AttachClaims
<1>3. \A u \in Threads : u # t => tpc[u] \notin Inside /\ tpc[u] \notin Transient
                                  /\ tpc'[u] = tpc[u]
  BY <1>1, <1>2, Alone DEF OnlyMoves
<1>4. attaching' = attaching /\ call' = call /\ live' = live
  BY DEF Owner!AttachEndpoint, Owner!StartHpxLocked, Owner!HpxStarted, Owner!AttachClaims
<1>5. \A k \in Owner!Kinds : live[k] \in Nat /\ Cardinality(Holders(k)) \in Nat
  BY HoldersCount DEF Owner!TypeOK
<1>6. \A k : k # "Endpoint" /\ ~Owner!Conflict(k) /\ k \in Owner!Kinds => ~engine /\ ~runtime
  BY DEF Owner!Conflict, Owner!Kinds
<1>7. attaching[t] \in Owner!Kinds
  BY DEF Owner!TypeOK
<1>8. CallMatches'
  BY <1>1, <1>4 DEF CallMatches, OnlyMoves, Owner!TypeOK, Owner!AttachEndpoint, Owner!StartHpxLocked, Owner!HpxStarted,
              Owner!AttachClaims
<1>9. CASE Owner!AttachEndpoint(t)
  <2>1. /\ endpoints' = endpoints + 1 /\ UNCHANGED <<engine, runtime, started, refcount, hpx>>
        /\ attaching[t] = "Endpoint" /\ ~engine /\ ~Holds(t) /\ Holds(t)'
        /\ mu' = NoThread /\ tpc'[t] = "attached"
    BY <1>9 DEF Owner!AttachEndpoint, Owner!Conflict, Holds, Owner!TypeOK, CallMatches
  <2>2. /\ Claims("Endpoint")' = Claims("Endpoint") + 1
        /\ Claims("Engine")' = Claims("Engine") /\ Claims("Runtime")' = Claims("Runtime")
    <3>1. /\ Cardinality(Holders("Endpoint"))' = Cardinality(Holders("Endpoint")) + 1
          /\ Cardinality(Holders("Engine"))' = Cardinality(Holders("Engine"))
          /\ Cardinality(Holders("Runtime"))' = Cardinality(Holders("Runtime"))
      BY <1>1, <1>4, <2>1, HoldersStep DEF OnlyMoves, Owner!Kinds
    <3> QED BY <1>4, <1>5, <3>1 DEF Claims, Owner!Kinds
  <2>3. BooksExact' /\ EngineExclusive'
    BY <2>1, <2>2 DEF BooksExact, EngineExclusive
  <2>4. Mutex'
    BY <1>3, <2>1 DEF Mutex, Inside
  <2>5. OwnerBusy' /\ OwnerCalm'
    <3>1. \A u \in Threads : tpc'[u] \notin Transient /\ tpc[u] \notin Transient
      BY <1>3, <1>9, <2>1 DEF Owner!AttachEndpoint, Transient
    <3> QED BY <2>1, <3>1 DEF OwnerBusy, OwnerCalm, Transient
  <2> QED BY <1>8, <2>3, <2>4, <2>5
<1>10. CASE Owner!StartHpxLocked(t)
  <2>1. \A u \in Threads : tpc[u] \notin Transient
    BY <1>3, <1>10 DEF Owner!StartHpxLocked, Transient
  <2>2. attaching[t] # "Endpoint" /\ ~Owner!Conflict(attaching[t]) /\ ~engine /\ ~runtime
    BY <1>6, <1>7, <1>10 DEF Owner!StartHpxLocked
  <2>3. ~started /\ hpx = "down"
    BY <2>1, <2>2 DEF OwnerCalm
  <2>4. /\ hpx' = "starting" /\ tpc'[t] = "starting"
        /\ UNCHANGED <<mu, engine, runtime, endpoints, started, refcount>>
    BY <1>10, <2>3 DEF Owner!StartHpxLocked, Owner!TypeOK, Owner!ownerVars
  <2>5. \A k \in Owner!Kinds : Claims(k)' = Claims(k)
    <3>1. ~Holds(t) /\ ~Holds(t)'
      BY <1>4, <1>10, <2>4 DEF Owner!StartHpxLocked, Holds, CallMatches
    <3>2. \A k \in Owner!Kinds : Cardinality(Holders(k))' = Cardinality(Holders(k))
      BY <1>1, <3>1, HoldersStep DEF OnlyMoves
    <3> QED BY <1>4, <3>2 DEF Claims
  <2>6. BooksExact' /\ EngineExclusive'
    BY <2>4, <2>5 DEF BooksExact, EngineExclusive, Owner!Kinds
  <2>7. Mutex'
    BY <1>2, <1>3, <2>4 DEF Mutex, Inside
  <2>8. OwnerBusy' /\ OwnerCalm'
    <3>1. ~Owner!Conflict(attaching[t])'
      BY <1>4, <2>2, <2>4 DEF Owner!Conflict
    <3> QED BY <1>3, <1>4, <2>2, <2>3, <2>4, <3>1 DEF OwnerBusy, OwnerCalm, Transient
  <2> QED BY <1>8, <2>6, <2>7, <2>8
<1>11. CASE Owner!HpxStarted(t)
  <2>1. attaching[t] # "Endpoint" /\ ~Owner!Conflict(attaching[t]) /\ ~started
    BY <1>11 DEF Owner!HpxStarted, OwnerBusy
  <2>2. /\ \/ hpx' = "up" /\ tpc'[t] = "claim"
           \/ hpx' = "down" /\ tpc'[t] = "start_failed"
        /\ UNCHANGED <<mu, engine, runtime, endpoints, started, refcount>>
    BY <1>11 DEF Owner!HpxStarted, Owner!TypeOK, Owner!ownerVars, Owner!lockVars
  <2>3. \A k \in Owner!Kinds : Claims(k)' = Claims(k)
    <3>1. ~Holds(t) /\ ~Holds(t)'
      BY <1>4, <1>11, <2>2 DEF Owner!HpxStarted, Holds
    <3>2. \A k \in Owner!Kinds : Cardinality(Holders(k))' = Cardinality(Holders(k))
      BY <1>1, <3>1, HoldersStep DEF OnlyMoves
    <3> QED BY <1>4, <3>2 DEF Claims
  <2>4. BooksExact' /\ EngineExclusive'
    BY <2>2, <2>3 DEF BooksExact, EngineExclusive, Owner!Kinds
  <2>5. Mutex'
    BY <1>2, <1>3, <2>2 DEF Mutex, Inside
  <2>6. OwnerBusy' /\ OwnerCalm'
    <3>1. ~Owner!Conflict(attaching[t])'
      BY <1>4, <2>1, <2>2 DEF Owner!Conflict
    <3> QED BY <1>3, <1>4, <2>1, <2>2, <3>1 DEF OwnerBusy, OwnerCalm, Transient
  <2> QED BY <1>8, <2>4, <2>5, <2>6
<1>12. CASE Owner!AttachClaims(t)
  <2>1. /\ attaching[t] # "Endpoint" /\ ~Owner!Conflict(attaching[t]) /\ ~started /\ hpx = "up"
        /\ ~engine /\ ~runtime
    BY <1>6, <1>7, <1>12 DEF Owner!AttachClaims, OwnerBusy
  <2>2. /\ mu' = NoThread /\ tpc'[t] = "attached" /\ hpx' = hpx
        /\ started' /\ endpoints' = endpoints /\ refcount' = refcount + 1
    BY <1>12 DEF Owner!AttachClaims, Owner!Claim, Owner!TypeOK
  <2>3. (engine' <=> attaching[t] = "Engine") /\ (runtime' <=> attaching[t] = "Runtime")
    BY <1>12, <2>1, Zenon DEF Owner!AttachClaims, Owner!Claim
  <2>4. attaching[t] = "Engine" \/ attaching[t] = "Runtime"
    BY <1>7, <2>1 DEF Owner!Kinds
  <2>5. \A k \in Owner!Kinds : Claims(k)' = IF k = attaching[t] THEN Claims(k) + 1 ELSE Claims(k)
    <3>1. ~Holds(t) /\ Holds(t)'
      BY <1>12, <2>2 DEF Owner!AttachClaims, Holds
    <3>2. \A k \in Owner!Kinds : Cardinality(Holders(k))' =
             IF k = attaching[t] THEN Cardinality(Holders(k)) + 1 ELSE Cardinality(Holders(k))
      BY <1>1, <1>4, <3>1, HoldersStep DEF OnlyMoves
    <3> QED BY <1>4, <1>5, <3>2 DEF Claims
  <2>6. BooksExact'
    BY <2>1, <2>2, <2>3, <2>4, <2>5 DEF BooksExact, Owner!Kinds
  <2>7. EngineExclusive'
    <3>1. attaching[t] = "Engine" => ~(endpoints > 0)
      BY <2>1 DEF Owner!Conflict
    <3> QED BY <2>2, <2>3, <3>1 DEF EngineExclusive, Owner!TypeOK
  <2>8. Mutex'
    BY <1>3, <2>2 DEF Mutex, Inside
  <2>9. OwnerBusy' /\ OwnerCalm'
    <3>1. \A u \in Threads : tpc'[u] \notin Transient
      BY <1>3, <2>2 DEF Transient
    <3> QED BY <2>1, <2>2, <2>3, <2>4, <3>1 DEF OwnerBusy, OwnerCalm, Transient
  <2> QED BY <1>8, <2>6, <2>7, <2>8, <2>9
<1> QED BY <1>9, <1>10, <1>11, <1>12

LEMMA DetachSteps ==
  ASSUME IsFiniteSet(Threads), NoThread \notin Threads, OwnerInv, Owner!TypeOK', NEW t \in Threads,
         Owner!DetachEndpoint(t) \/ Owner!DetachOwner(t) \/ Owner!HpxStopped(t) \/ Owner!DetachDone(t)
  PROVE  OwnerInv'
<1> USE DEF OwnerInv
<1>1. OnlyMoves(t)
  BY StepMovesOne DEF Owner!Step
<1>2. mu = t /\ tpc[t] \in Inside
  BY DEF Mutex, Inside, Owner!DetachEndpoint, Owner!DetachOwner, Owner!HpxStopped, Owner!DetachDone
<1>3. \A u \in Threads : u # t => tpc[u] \notin Inside /\ tpc[u] \notin Transient
                                  /\ tpc'[u] = tpc[u]
  BY <1>1, <1>2, Alone DEF OnlyMoves
<1>4. attaching' = attaching /\ call' = call /\ live' = live
  BY DEF Owner!DetachEndpoint, Owner!DetachOwner, Owner!HpxStopped, Owner!DetachDone
<1>5. \A k \in Owner!Kinds : live[k] \in Nat /\ Cardinality(Holders(k)) \in Nat
  BY HoldersCount DEF Owner!TypeOK
<1>6. attaching[t] \in Owner!Kinds
  BY DEF Owner!TypeOK
<1>7. tpc'[t] \in {"return", "stopping"} /\ CallMatches'
  BY <1>1, <1>4 DEF CallMatches, OnlyMoves, Owner!TypeOK, Owner!DetachEndpoint, Owner!DetachOwner, Owner!HpxStopped,
              Owner!DetachDone
<1>8. ASSUME tpc[t] = "detach", tpc'[t] # "detach"
      PROVE  /\ \A k \in Owner!Kinds : Claims(k)' = IF k = attaching[t] THEN Claims(k) - 1 ELSE Claims(k)
             /\ Claims(attaching[t]) >= 1
  <2>1. Holds(t) /\ ~Holds(t)'
    BY <1>7, <1>8 DEF Holds, Owner!TypeOK, CallMatches
  <2>2. \A k \in Owner!Kinds : Cardinality(Holders(k))' =
           IF k = attaching[t] THEN Cardinality(Holders(k)) - 1 ELSE Cardinality(Holders(k))
    BY <1>1, <1>4, <2>1, HoldersStep DEF OnlyMoves
  <2>3. Cardinality(Holders(attaching[t])) >= 1
    <3>1. t \in Holders(attaching[t])
      BY <2>1 DEF Holders
    <3> QED BY <3>1, HoldersCount
  <2> QED BY <1>4, <1>5, <1>6, <2>2, <2>3 DEF Claims
<1>9. CASE Owner!DetachEndpoint(t)
  <2>1. /\ attaching[t] = "Endpoint" /\ mu' = NoThread /\ tpc[t] = "detach" /\ tpc'[t] = "return"
        /\ endpoints' = IF endpoints > 0 THEN endpoints - 1 ELSE endpoints
        /\ UNCHANGED <<engine, runtime, started, refcount, hpx>>
    BY <1>9 DEF Owner!DetachEndpoint, Owner!TypeOK
  <2>2. /\ Claims("Endpoint")' = Claims("Endpoint") - 1 /\ Claims("Endpoint") >= 1
        /\ Claims("Engine")' = Claims("Engine") /\ Claims("Runtime")' = Claims("Runtime")
    BY <1>8, <2>1 DEF Owner!Kinds
  <2>3. BooksExact' /\ EngineExclusive'
    BY <2>1, <2>2 DEF BooksExact, EngineExclusive, Owner!TypeOK
  <2>4. Mutex'
    BY <1>3, <2>1 DEF Mutex, Inside
  <2>5. OwnerBusy' /\ OwnerCalm'
    <3>1. \A u \in Threads : tpc'[u] \notin Transient /\ tpc[u] \notin Transient
      BY <1>3, <2>1 DEF Transient
    <3> QED BY <2>1, <3>1 DEF OwnerBusy, OwnerCalm, Transient
  <2> QED BY <1>7, <2>3, <2>4, <2>5
<1>10. CASE Owner!DetachOwner(t)
  <2>1. /\ attaching[t] = "Engine" \/ attaching[t] = "Runtime"
        /\ tpc[t] = "detach" /\ tpc'[t] # "detach"
    BY <1>6, <1>7, <1>10 DEF Owner!DetachOwner, Owner!Kinds
  <2>2. /\ \A k \in Owner!Kinds : Claims(k)' = IF k = attaching[t] THEN Claims(k) - 1 ELSE Claims(k)
        /\ Claims(attaching[t]) >= 1
    BY <1>8, <2>1
  <2>3. /\ attaching[t] = "Engine" => engine /\ ~runtime
        /\ attaching[t] = "Runtime" => runtime /\ ~engine
        /\ refcount = 1
    BY <2>1, <2>2 DEF BooksExact, EngineExclusive, Owner!TypeOK
  <2>4. \A u \in Threads : tpc[u] \notin Transient
    BY <1>3, <2>1 DEF Transient
  <2>5. started /\ hpx = "up"
    BY <2>1, <2>3, <2>4 DEF OwnerCalm
  <2>6. IF attaching[t] = "Engine" THEN engine ELSE runtime
    BY <2>1, <2>3
  <2>7. /\ hpx' = "stopping" /\ tpc'[t] = "stopping" /\ mu' = mu /\ refcount' = 0
        /\ endpoints' = endpoints
    BY <1>10, <2>3, <2>5, <2>6 DEF Owner!DetachOwner, Owner!TypeOK
  <2>8. ~engine' /\ ~runtime' /\ started'
    <3>1. /\ engine' = (engine /\ attaching[t] # "Engine")
          /\ runtime' = (runtime /\ attaching[t] # "Runtime") /\ started' = started
      BY <1>10, <2>6, Zenon DEF Owner!DetachOwner
    <3> QED BY <2>1, <2>3, <2>5, <3>1, Zenon
  <2>9. BooksExact'
    BY <2>1, <2>2, <2>3, <2>7, <2>8 DEF BooksExact, Owner!Kinds
  <2>10. EngineExclusive' /\ OwnerCalm'
    BY <2>7, <2>8 DEF EngineExclusive, OwnerCalm, Transient
  <2>11. Mutex'
    BY <1>2, <1>3, <2>7 DEF Mutex, Inside
  <2>12. OwnerBusy'
    BY <1>3, <2>7, <2>8 DEF OwnerBusy, Transient
  <2> QED BY <1>7, <2>9, <2>10, <2>11, <2>12
<1>11. CASE Owner!HpxStopped(t) \/ Owner!DetachDone(t)
  <2>1. /\ started /\ ~engine /\ ~runtime /\ tpc[t] = "stopping"
        /\ UNCHANGED <<engine, runtime, endpoints, refcount>> /\ hpx' = "down"
    BY <1>11 DEF Owner!HpxStopped, Owner!DetachDone, OwnerBusy, Owner!ownerVars
  <2>2. \A k \in Owner!Kinds : Claims(k)' = Claims(k)
    <3>1. ~Holds(t) /\ ~Holds(t)'
      BY <1>7, <2>1 DEF Holds
    <3>2. \A k \in Owner!Kinds : Cardinality(Holders(k))' = Cardinality(Holders(k))
      BY <1>1, <3>1, HoldersStep DEF OnlyMoves
    <3> QED BY <1>4, <3>2 DEF Claims
  <2>3. BooksExact' /\ EngineExclusive'
    BY <2>1, <2>2 DEF BooksExact, EngineExclusive, Owner!Kinds
  <2>4. CASE Owner!HpxStopped(t)
    <3>1. mu' = mu /\ tpc' = tpc /\ started' = started
      BY <2>4 DEF Owner!HpxStopped, Owner!lockVars, Owner!ownerVars
    <3>2. OwnerBusy' /\ OwnerCalm'
      BY <1>3, <2>1, <3>1 DEF OwnerBusy, OwnerCalm, Transient
    <3> QED BY <1>7, <2>3, <3>1, <3>2 DEF Mutex
  <2>5. CASE Owner!DetachDone(t)
    <3>1. mu' = NoThread /\ tpc'[t] = "return" /\ ~started'
      BY <2>5 DEF Owner!DetachDone, Owner!TypeOK
    <3>2. Mutex'
      BY <1>3, <3>1 DEF Mutex, Inside
    <3>3. OwnerBusy' /\ OwnerCalm'
      BY <1>3, <2>1, <3>1 DEF OwnerBusy, OwnerCalm, Transient
    <3> QED BY <1>7, <2>3, <3>2, <3>3
  <2> QED BY <1>11, <2>4, <2>5
<1> QED BY <1>9, <1>10, <1>11

\* The invariant holds, whatever the threads do.
THEOREM OwnerInvariant == Spec => []OwnerInv
<1>1. PyInit => OwnerInv
  <2> SUFFICES ASSUME Owner!Init PROVE OwnerInv
    BY DEF PyInit
  <2>1. \A k \in Owner!Kinds : Claims(k) = 0
    <3>1. \A k : Holders(k) = {}
      BY DEF Owner!Init, Holders, Holds
    <3>2. \A k : Cardinality(Holders(k)) = 0
      BY <3>1, FS_EmptySet
    <3> QED BY <3>2 DEF Owner!Init, Claims
  <2>2. ~engine /\ ~runtime /\ ~started /\ endpoints = 0 /\ refcount = 0
    BY DEF Owner!Init
  <2>3. BooksExact /\ EngineExclusive
    BY <2>1, <2>2 DEF BooksExact, EngineExclusive, Owner!Kinds
  <2>4. Mutex /\ CallMatches
    BY OwnerBounds DEF Owner!Init, Mutex, CallMatches, Inside
  <2>5. OwnerBusy /\ OwnerCalm
    BY <2>2 DEF Owner!Init, OwnerBusy, OwnerCalm
  <2> QED BY <2>3, <2>4, <2>5, InitTyped DEF OwnerInv
<1>2. OwnerInv /\ [Owner!Next]_ownerVars => OwnerInv'
  <2> SUFFICES ASSUME OwnerInv, [Owner!Next]_ownerVars PROVE OwnerInv'
    OBVIOUS
  <2>1. Owner!TypeOK'
    BY TypesKept DEF OwnerInv
  <2>2. ASSUME NEW t \in Threads, Owner!Step(t) PROVE OwnerInv'
    BY <2>1, <2>2, OwnerBounds, LockSteps, AttachSteps, DetachSteps DEF Owner!Step
  <2>3. ASSUME NEW t \in Threads, NEW k \in Owner!Kinds, Owner!Construct(t, k) \/ Owner!Shutdown(t, k)
        PROVE  OwnerInv'
    BY <2>1, <2>3, OwnerBounds, LockSteps
  <2>4. CASE UNCHANGED ownerVars
    BY <2>1, <2>4 DEF ownerVars, OwnerInv, Mutex, CallMatches, BooksExact, Claims, Holders, Holds,
                      EngineExclusive, OwnerBusy, OwnerCalm, Owner!Conflict
  <2> QED BY <2>2, <2>3, <2>4 DEF Owner!Next
<1> QED BY <1>1, <1>2, PartSteps, PTL DEF Spec

\* Which objects can be alive together in one process, whatever the threads
\* that make and shut them down ("ENGINE: exclusive", "RUNTIME: singleton",
\* "ENDPOINT: not with Engine"; attach() and detach() of ProcessHpxOwner).
THEOREM PackagePolicy == Spec => []PolicyMatrix
<1>1. OwnerInv => Owner!PolicyMatrix
  <2> SUFFICES ASSUME OwnerInv PROVE Owner!PolicyMatrix
    OBVIOUS
  <2>1. \A k \in Owner!Kinds : live[k] \in Nat /\ Cardinality(Holders(k)) \in Nat
    BY OwnerBounds, HoldersCount DEF OwnerInv, Owner!TypeOK
  <2> QED BY <2>1 DEF OwnerInv, BooksExact, EngineExclusive, Claims, Owner!PolicyMatrix, Owner!Kinds
<1>2. OwnerInv => PolicyMatrix
  BY <1>1 DEF PolicyMatrix
<1> QED BY <1>2, OwnerInvariant, PTL

\* HPX runs exactly while an Engine or a Runtime holds it, and is never started
\* a second time under them (start_hpx_locked(), stop_process_hpx()).
THEOREM PackageHpxLife == Spec => []HpxFollowsOwners
<1>1. OwnerInv => Owner!HpxFollowsOwners /\ Owner!StartedOnce
  <2> SUFFICES ASSUME OwnerInv PROVE Owner!HpxFollowsOwners /\ Owner!StartedOnce
    OBVIOUS
  <2> USE DEF OwnerInv
  <2>1. \A k \in Owner!Kinds : live[k] \in Nat /\ Cardinality(Holders(k)) \in Nat
    BY OwnerBounds, HoldersCount DEF Owner!TypeOK
  <2>2. live["Engine"] + live["Runtime"] > 0 => engine \/ runtime
    BY <2>1 DEF BooksExact, Claims, Owner!Kinds
  <2>3. engine \/ runtime => \A t \in Threads : tpc[t] \notin Transient
    BY DEF OwnerBusy, Transient, Owner!Conflict, Owner!TypeOK, Owner!Kinds
  <2>4. mu = NoThread => \A t \in Threads : tpc[t] \notin Transient
    BY OwnerBounds DEF Mutex, Inside, Transient
  <2>5. Owner!HpxFollowsOwners
    BY <2>2, <2>3, <2>4 DEF OwnerCalm, Owner!HpxFollowsOwners
  <2>6. Owner!StartedOnce
    <3>1. CASE \A t \in Threads : tpc[t] \notin Transient
      BY <3>1 DEF OwnerCalm, Owner!StartedOnce
    <3>2. CASE \E t \in Threads : tpc[t] \in Transient
      BY <3>2 DEF OwnerBusy, Owner!StartedOnce, Transient
    <3> QED BY <3>1, <3>2
  <2> QED BY <2>5, <2>6
<1>2. OwnerInv => HpxFollowsOwners
  BY <1>1 DEF HpxFollowsOwners
<1> QED BY <1>2, OwnerInvariant, PTL

\* Failed constructors and repeated shutdowns leave no claim on the owner.
THEOREM PackageBooks == Spec => []BooksMatchObjects
<1>1. OwnerInv => Owner!TypeOK /\ Owner!BooksMatchObjects
  <2> SUFFICES ASSUME OwnerInv, \A t \in Threads : tpc[t] = "idle"
               PROVE  /\ endpoints = live["Endpoint"]
                      /\ engine <=> live["Engine"] = 1
                      /\ runtime <=> live["Runtime"] = 1
                      /\ refcount = live["Engine"] + live["Runtime"]
    BY DEF Owner!BooksMatchObjects, OwnerInv
  <2>1. \A k : Holders(k) = {}
    BY DEF Holders, Holds
  <2>2. \A k \in Owner!Kinds : Claims(k) = live[k]
    <3>1. \A k : Cardinality(Holders(k)) = 0
      BY <2>1, FS_EmptySet
    <3>2. \A k \in Owner!Kinds : live[k] \in Nat
      BY DEF OwnerInv, Owner!TypeOK
    <3> QED BY <3>1, <3>2 DEF Claims
  <2> QED BY <2>2 DEF OwnerInv, BooksExact, EngineExclusive, Owner!Kinds
<1>2. OwnerInv => BooksMatchObjects
  BY <1>1 DEF BooksMatchObjects
<1> QED BY <1>2, OwnerInvariant, PTL

-----------------------------------------------------------------------------
(* The bridge.                                                              *)

\* A caller between acquire() and release().
InCall(c) == cpc[c] \in {"dispatch", "enqueue", "get", "release"}

InFlight == {c \in Callers : InCall(c)}

\* What the driver's place in the constructor or in shutdown() says of the
\* slot and of the engine.
StageShape ==
    /\ bridge # 0 => stage \in {"live", "shutdown"} /\ bridge = generation
    /\ lanes <=> stage \in {"built", "live", "shutdown", "asleep", "awake", "drained", "cancelled"}
    /\ hpxUp <=> stage # "none"

\* Nobody is in flight but between the publication and the end of the drain.
DrainGate ==
    stage \in {"none", "attached", "built", "drained", "cancelled", "joined"} => inFlight = 0

\* Every caller in flight holds the engine that lives.
HeldAlive == \A c \in Callers : InCall(c) => held[c] = generation

\* Slot 0 of a lane is the item in service, slot i the i-th that waits.
Slots(l) == 0 .. Len(laneQueue[l])
Item(l, i) == IF i = 0 THEN serving[l] ELSE laneQueue[l][i]

\* A caller's request is in one slot of one lane at most, and only while the
\* caller waits for it in get().
OnePlace ==
    \A l \in Bridge!LaneIds : \A i \in Slots(l) : Item(l, i) \in Callers =>
        /\ cpc[Item(l, i)] = "get"
        /\ \A m \in Bridge!LaneIds : \A j \in Slots(m) : Item(m, j) = Item(l, i) => m = l /\ j = i

BridgeInv == Bridge!TypeOK /\ StageShape /\ DrainGate /\ HeldAlive /\ OnePlace /\ Bridge!InFlightExact

-----------------------------------------------------------------------------
(* Types.                                                                   *)

\* The steps of the driver and of a spurious wake leave the callers alone.
LEMMA TypeDriver ==
  ASSUME Bridge!TypeOK,
         Bridge!CtorAttach \/ Bridge!Shutdown \/ Bridge!SpuriousWake \/ Bridge!Driver
  PROVE  Bridge!TypeOK'
<1> USE DEF Bridge!slotVars, Bridge!engineVars, Bridge!laneVars, Bridge!callerVars
<1>0. 0 \in Bridge!LaneIds /\ generation \in 0 .. MaxRuntimes /\ MaxRuntimes \in Nat
  BY BridgeBounds DEF Bridge!LaneIds, Bridge!TypeOK
<1>1. CASE Bridge!CtorAttach
  <2>1. generation + 1 \in 0 .. MaxRuntimes
    BY <1>0, <1>1 DEF Bridge!CtorAttach
  <2> QED BY <1>0, <1>1, <2>1 DEF Bridge!CtorAttach, Bridge!TypeOK
<1>2. CASE Bridge!Shutdown \/ Bridge!SpuriousWake
  BY <1>2 DEF Bridge!Shutdown, Bridge!SpuriousWake, Bridge!TypeOK
<1>3. CASE Bridge!CtorLanes \/ Bridge!CtorFails \/ Bridge!StopAndJoin \/ Bridge!Detach
  BY <1>3 DEF Bridge!CtorLanes, Bridge!CtorFails, Bridge!StopAndJoin, Bridge!Detach, Bridge!TypeOK
<1>4. CASE Bridge!Publish \/ Bridge!Drain \/ Bridge!DrainAwake
  <2>1. draining' \in BOOLEAN
    BY <1>4, Zenon DEF Bridge!Publish, Bridge!Drain, Bridge!DrainAwake, Bridge!TypeOK
  <2>2. bridge' \in 0 .. MaxRuntimes
    BY <1>0, <1>4 DEF Bridge!Publish, Bridge!Drain, Bridge!DrainAwake, Bridge!TypeOK
  <2> QED BY <1>4, <2>1, <2>2 DEF Bridge!Publish, Bridge!Drain, Bridge!DrainAwake, Bridge!TypeOK
<1>5. CASE Bridge!CancelPending
  <2>1. driverOp' \in [Ops -> {"new", "queued", "done", "cancelled"}]
    BY <1>5 DEF Bridge!CancelPending, Bridge!TypeOK
  <2> QED BY <1>5, <2>1 DEF Bridge!CancelPending, Bridge!TypeOK
<1> QED BY <1>1, <1>2, <1>3, <1>4, <1>5 DEF Bridge!Driver

\* The lane after the last one is the first.
LEMMA NextLane == Bridge!TypeOK => Bridge!Next_rr \in Bridge!LaneIds
<1> SUFFICES ASSUME Bridge!TypeOK PROVE Bridge!Next_rr \in Bridge!LaneIds
  OBVIOUS
<1>1. NumLanes \in Nat /\ NumLanes > 0 /\ rr + 1 \in Nat
  BY BridgeBounds DEF Bridge!TypeOK, Bridge!LaneIds
<1>2. (rr + 1) % NumLanes \in 0 .. NumLanes - 1
  BY <1>1
<1> QED BY <1>2 DEF Bridge!Next_rr, Bridge!LaneIds

\* A caller's steps and the driver's submissions keep the types.
LEMMA TypeCalls ==
  ASSUME Bridge!TypeOK,
         (\E o \in Ops : Bridge!Submit(o)) \/ \E c \in Callers : Bridge!Call(c) \/ Bridge!Caller(c)
  PROVE  Bridge!TypeOK'
<1> USE DEF Bridge!slotVars, Bridge!engineVars, Bridge!laneVars, Bridge!callerVars
<1>0. Bridge!Next_rr \in Bridge!LaneIds /\ 0 \in Bridge!LaneIds
  BY BridgeBounds, NextLane DEF Bridge!LaneIds
<1>1. ASSUME NEW o \in Ops, Bridge!Submit(o) PROVE Bridge!TypeOK'
  <2>1. /\ laneQueue' \in [Bridge!LaneIds -> Seq(Bridge!Items)]
        /\ driverOp' \in [Ops -> {"new", "queued", "done", "cancelled"}]
    BY <1>1 DEF Bridge!Submit, Bridge!TypeOK, Bridge!Items
  <2> QED BY <1>0, <1>1, <2>1 DEF Bridge!Submit, Bridge!TypeOK
<1>2. ASSUME NEW c \in Callers, Bridge!Call(c) \/ Bridge!AcquireFails(c) \/ Bridge!DispatchThrows(c)
      PROVE  Bridge!TypeOK'
  BY <1>2 DEF Bridge!Call, Bridge!AcquireFails, Bridge!DispatchThrows, Bridge!TypeOK
<1>3. ASSUME NEW c \in Callers, Bridge!Acquire(c) PROVE Bridge!TypeOK'
  BY <1>3 DEF Bridge!Acquire, Bridge!TypeOK
<1>4. ASSUME NEW c \in Callers, Bridge!Dispatch(c) PROVE Bridge!TypeOK'
  BY <1>0, <1>4 DEF Bridge!Dispatch, Bridge!TypeOK
<1>5. ASSUME NEW c \in Callers, Bridge!Enqueue(c) PROVE Bridge!TypeOK'
  <2>1. laneQueue' \in [Bridge!LaneIds -> Seq(Bridge!Items)]
    BY <1>5 DEF Bridge!Enqueue, Bridge!TypeOK, Bridge!Items
  <2> QED BY <1>0, <1>5, <2>1 DEF Bridge!Enqueue, Bridge!TypeOK
<1>6. ASSUME NEW c \in Callers, Bridge!Release(c) PROVE Bridge!TypeOK'
  <2>1. inFlight' \in Nat /\ held' \in [Callers -> 0 .. MaxRuntimes]
    BY BridgeBounds, <1>6 DEF Bridge!Release, Bridge!TypeOK
  <2> QED BY <1>6, <2>1 DEF Bridge!Release, Bridge!TypeOK
<1> QED BY <1>1, <1>2, <1>3, <1>4, <1>5, <1>6 DEF Bridge!Caller

\* So do the lanes' workers.
LEMMA TypeWorker ==
  ASSUME Bridge!TypeOK, NEW l \in Bridge!LaneIds, Bridge!Worker(l)
  PROVE  Bridge!TypeOK'
<1> USE DEF Bridge!slotVars, Bridge!engineVars, Bridge!laneVars, Bridge!callerVars
<1>1. CASE Bridge!WorkerPop(l)
  <2>1. laneQueue[l] \in Seq(Bridge!Items) /\ laneQueue[l] # <<>>
    BY <1>1 DEF Bridge!WorkerPop, Bridge!TypeOK
  <2>2. Head(laneQueue[l]) \in Bridge!Items /\ Tail(laneQueue[l]) \in Seq(Bridge!Items)
    BY <2>1
  <2>3. /\ laneQueue' \in [Bridge!LaneIds -> Seq(Bridge!Items)]
        /\ serving' \in [Bridge!LaneIds -> Bridge!Items \cup {Nobody}]
    BY <1>1, <2>2 DEF Bridge!WorkerPop, Bridge!TypeOK
  <2> QED BY <1>1, <2>3 DEF Bridge!WorkerPop, Bridge!TypeOK
<1>2. CASE Bridge!WorkerFinish(l)
  <2>1. serving' \in [Bridge!LaneIds -> Bridge!Items \cup {Nobody}]
    BY <1>2 DEF Bridge!WorkerFinish, Bridge!TypeOK
  <2>2. driverOp' \in [Ops -> {"new", "queued", "done", "cancelled"}]
        /\ cpc' \in [Callers -> {"idle", "acquire", "dispatch", "enqueue", "get", "release"}]
    BY <1>2 DEF Bridge!WorkerFinish, Bridge!TypeOK
  <2> QED BY <1>2, <2>1, <2>2 DEF Bridge!WorkerFinish, Bridge!TypeOK
<1> QED BY <1>1, <1>2 DEF Bridge!Worker

\* Every step keeps the types.
LEMMA TypeStep == Bridge!TypeOK /\ [Bridge!Next]_bridgeVars => Bridge!TypeOK'
<1> SUFFICES ASSUME Bridge!TypeOK, [Bridge!Next]_bridgeVars PROVE Bridge!TypeOK'
  OBVIOUS
<1>1. CASE UNCHANGED bridgeVars
  BY <1>1 DEF bridgeVars, Bridge!TypeOK
<1> QED BY <1>1, TypeDriver, TypeCalls, TypeWorker DEF Bridge!Next
-----------------------------------------------------------------------------
(* The invariant: the driver's stages, and the callers in flight.           *)

\* A step in which nobody enters or leaves the bridge, and what is counted.
LEMMA NobodyInFlight ==
  ASSUME Bridge!InFlightExact, inFlight = 0
  PROVE  \A c \in Callers : ~InCall(c)
<1>1. InFlight = {c \in Callers : cpc[c] \in {"dispatch", "enqueue", "get", "release"}}
  BY DEF InFlight, InCall
<1>2. IsFiniteSet(InFlight) /\ Cardinality(InFlight) = 0
  BY BridgeBounds, <1>1, FS_Subset DEF InFlight, Bridge!InFlightExact, Bridge!Cardinality, Cardinality
<1>3. InFlight = {}
  BY <1>2, FS_EmptySet
<1> QED BY <1>3 DEF InFlight

\* The count of in_flight_ after one caller's step.
LEMMA CountedStep ==
  ASSUME Bridge!TypeOK, Bridge!InFlightExact, NEW c \in Callers, NEW p,
         cpc' = [cpc EXCEPT ![c] = p],
         \/ InCall(c) /\ p = "idle" /\ inFlight' = inFlight - 1
         \/ ~InCall(c) /\ p = "dispatch" /\ inFlight' = inFlight + 1
         \/ ~InCall(c) /\ p \in {"idle", "acquire"} /\ inFlight' = inFlight
         \/ InCall(c) /\ p \in {"enqueue", "get", "release"} /\ inFlight' = inFlight
  PROVE  Bridge!InFlightExact'
<1> DEFINE Points == {"dispatch", "enqueue", "get", "release"}
           Others == {d \in Callers : d # c /\ cpc[d] \in Points}
           Before == {d \in Callers : cpc[d] \in Points}
           After == {d \in Callers : cpc'[d] \in Points}
<1>1. IsFiniteSet(Callers) /\ Others \subseteq Callers /\ Before \subseteq Callers
  BY BridgeBounds
<1>2. IsFiniteSet(Others) /\ IsFiniteSet(Before) /\ c \notin Others
  BY <1>1, FS_Subset
<1>3. Cardinality(Others) \in Nat /\ Cardinality(Others \cup {c}) = Cardinality(Others) + 1
  BY <1>2, FS_CardinalityType, FS_AddElement
<1>4. Before = IF InCall(c) THEN Others \cup {c} ELSE Others
  BY DEF InCall
<1>5. cpc'[c] = p /\ \A d \in Callers : d # c => cpc'[d] = cpc[d]
  BY DEF Bridge!TypeOK
<1>6. After = IF p \in Points THEN Others \cup {c} ELSE Others
  BY <1>5
<1>7. inFlight = Cardinality(Before)
  BY DEF Bridge!InFlightExact, Bridge!Cardinality, Cardinality
<1> HIDE DEF Others, Before, After
<1>8. inFlight' = Cardinality(After)
  BY <1>3, <1>4, <1>6, <1>7
<1> QED BY <1>8 DEF Bridge!InFlightExact, Bridge!Cardinality, Cardinality, After

\* in_flight_ goes up with acquire() and down with release().
LEMMA CountStep ==
  ASSUME BridgeInv, [Bridge!Next]_bridgeVars
  PROVE  Bridge!InFlightExact'
<1>0. /\ Bridge!TypeOK /\ Bridge!InFlightExact /\ inFlight \in Nat
      /\ \A c \in Callers : InCall(c) => inFlight > 0
  BY NobodyInFlight DEF BridgeInv, Bridge!TypeOK
<1>1. ASSUME UNCHANGED <<inFlight, cpc>> PROVE Bridge!InFlightExact'
  BY <1>0, <1>1 DEF Bridge!InFlightExact
<1>2. CASE Bridge!CtorAttach \/ Bridge!Shutdown \/ Bridge!SpuriousWake \/ Bridge!Driver
           \/ \E o \in Ops : Bridge!Submit(o)
  BY <1>1, <1>2 DEF Bridge!CtorAttach, Bridge!Shutdown, Bridge!SpuriousWake, Bridge!Driver,
     Bridge!CtorLanes, Bridge!CtorFails, Bridge!Publish, Bridge!Drain, Bridge!DrainAwake,
     Bridge!CancelPending, Bridge!StopAndJoin, Bridge!Detach, Bridge!Submit, Bridge!slotVars,
     Bridge!callerVars
<1>3. ASSUME NEW c \in Callers, Bridge!Call(c) \/ Bridge!Caller(c) PROVE Bridge!InFlightExact'
  <2>1. CASE Bridge!Call(c)
    BY <1>0, <2>1, CountedStep DEF Bridge!Call, InCall, Bridge!slotVars
  <2>2. CASE Bridge!Acquire(c)
    BY <1>0, <2>2, CountedStep DEF Bridge!Acquire, InCall
  <2>3. CASE Bridge!AcquireFails(c)
    BY <1>0, <2>3, CountedStep DEF Bridge!AcquireFails, InCall, Bridge!slotVars
  <2>4. CASE Bridge!Dispatch(c)
    BY <1>0, <2>4, CountedStep DEF Bridge!Dispatch, InCall, Bridge!slotVars
  <2>5. CASE Bridge!DispatchThrows(c)
    BY <1>0, <2>5, CountedStep DEF Bridge!DispatchThrows, InCall, Bridge!slotVars
  <2>6. CASE Bridge!Enqueue(c)
    BY <1>0, <2>6, CountedStep DEF Bridge!Enqueue, InCall, Bridge!slotVars
  <2>7. CASE Bridge!Release(c)
    <3>1. inFlight > 0 /\ inFlight' = inFlight - 1
      BY <1>0, <2>7 DEF Bridge!Release, InCall
    <3> QED BY <1>0, <2>7, <3>1, CountedStep DEF Bridge!Release, InCall
  <2> QED BY <1>3, <2>1, <2>2, <2>3, <2>4, <2>5, <2>6, <2>7 DEF Bridge!Caller
<1>4. ASSUME NEW l \in Bridge!LaneIds, Bridge!Worker(l) PROVE Bridge!InFlightExact'
  <2>1. CASE Bridge!WorkerPop(l)
    BY <1>1, <2>1 DEF Bridge!WorkerPop, Bridge!slotVars, Bridge!callerVars
  <2>2. CASE Bridge!WorkerFinish(l) /\ UNCHANGED Bridge!callerVars
    BY <1>1, <2>2 DEF Bridge!WorkerFinish, Bridge!slotVars, Bridge!callerVars
  <2>3. CASE /\ Bridge!WorkerFinish(l) /\ serving[l] \in Callers
             /\ cpc' = [cpc EXCEPT ![serving[l]] = "release"]
    <3>1. 0 \in Slots(l) /\ Item(l, 0) = serving[l]
      BY <1>0 DEF Slots, Item, Bridge!TypeOK
    <3>2. cpc[serving[l]] = "get"
      BY <2>3, <3>1 DEF BridgeInv, OnePlace
    <3> QED BY <1>0, <2>3, <3>2, CountedStep DEF Bridge!WorkerFinish, InCall, Bridge!slotVars
  <2> QED BY <1>4, <2>1, <2>2, <2>3 DEF Bridge!Worker, Bridge!WorkerFinish
<1>5. CASE UNCHANGED bridgeVars
  BY <1>1, <1>5 DEF bridgeVars
<1> QED BY <1>2, <1>3, <1>4, <1>5 DEF Bridge!Next

\* Every step keeps the slot and the engine in the driver's stage.
LEMMA StageStep ==
  ASSUME BridgeInv, [Bridge!Next]_bridgeVars
  PROVE  StageShape' /\ DrainGate'
<1>0. Bridge!TypeOK /\ StageShape /\ DrainGate /\ inFlight \in Nat
  BY DEF BridgeInv, Bridge!TypeOK
<1> USE DEF Bridge!slotVars, Bridge!engineVars, Bridge!laneVars, Bridge!callerVars
<1>1. ASSUME UNCHANGED <<bridge, inFlight, generation, stage, hpxUp, lanes>>
      PROVE  StageShape' /\ DrainGate'
  BY <1>0, <1>1 DEF StageShape, DrainGate
<1>2. CASE Bridge!CtorAttach \/ Bridge!CtorLanes \/ Bridge!CtorFails \/ Bridge!Publish
  BY <1>0, <1>2 DEF Bridge!CtorAttach, Bridge!CtorLanes, Bridge!CtorFails, Bridge!Publish,
     StageShape, DrainGate
<1>3. CASE Bridge!Shutdown \/ Bridge!SpuriousWake \/ Bridge!Drain \/ Bridge!DrainAwake
  BY <1>0, <1>3 DEF Bridge!Shutdown, Bridge!SpuriousWake, Bridge!Drain, Bridge!DrainAwake,
     StageShape, DrainGate
<1>4. CASE Bridge!CancelPending \/ Bridge!StopAndJoin \/ Bridge!Detach
  BY <1>0, <1>4 DEF Bridge!CancelPending, Bridge!StopAndJoin, Bridge!Detach, StageShape, DrainGate
<1>5. ASSUME NEW o \in Ops, Bridge!Submit(o) PROVE StageShape' /\ DrainGate'
  BY <1>1, <1>5 DEF Bridge!Submit
<1>6. ASSUME NEW c \in Callers, Bridge!Call(c) \/ Bridge!Caller(c) PROVE StageShape' /\ DrainGate'
  <2>1. CASE Bridge!Acquire(c)
    BY <1>0, <2>1 DEF Bridge!Acquire, StageShape, DrainGate
  <2>2. CASE Bridge!Release(c)
    BY <1>0, <2>2 DEF Bridge!Release, StageShape, DrainGate
  <2>3. CASE Bridge!Call(c) \/ Bridge!AcquireFails(c) \/ Bridge!Dispatch(c) \/ Bridge!DispatchThrows(c)
             \/ Bridge!Enqueue(c)
    BY <1>1, <2>3 DEF Bridge!Call, Bridge!AcquireFails, Bridge!Dispatch, Bridge!DispatchThrows,
       Bridge!Enqueue
  <2> QED BY <1>6, <2>1, <2>2, <2>3 DEF Bridge!Caller
<1>7. ASSUME NEW l \in Bridge!LaneIds, Bridge!Worker(l) PROVE StageShape' /\ DrainGate'
  BY <1>1, <1>7 DEF Bridge!Worker, Bridge!WorkerPop, Bridge!WorkerFinish
<1>8. CASE UNCHANGED bridgeVars
  BY <1>1, <1>8 DEF bridgeVars
<1> QED BY <1>2, <1>3, <1>4, <1>5, <1>6, <1>7, <1>8 DEF Bridge!Next, Bridge!Driver

\* No Runtime is constructed while a caller holds the one before it.
LEMMA HeldStep ==
  ASSUME BridgeInv, [Bridge!Next]_bridgeVars
  PROVE  HeldAlive'
<1>0. Bridge!TypeOK /\ StageShape /\ DrainGate /\ HeldAlive /\ Bridge!InFlightExact /\ OnePlace
  BY DEF BridgeInv
<1> USE DEF Bridge!slotVars, Bridge!engineVars, Bridge!laneVars, Bridge!callerVars
<1>1. ASSUME generation' = generation, UNCHANGED <<cpc, held>> PROVE HeldAlive'
  BY <1>0, <1>1 DEF HeldAlive, InCall
<1>2. CASE Bridge!CtorAttach
  <2>1. \A c \in Callers : ~InCall(c)
    BY <1>0, <1>2, NobodyInFlight DEF Bridge!CtorAttach, DrainGate
  <2> QED BY <1>2, <2>1 DEF Bridge!CtorAttach, HeldAlive, InCall
<1>3. CASE Bridge!Shutdown \/ Bridge!SpuriousWake \/ Bridge!Driver \/ \E o \in Ops : Bridge!Submit(o)
  BY <1>1, <1>3 DEF Bridge!Shutdown, Bridge!SpuriousWake, Bridge!Driver, Bridge!CtorLanes,
     Bridge!CtorFails, Bridge!Publish, Bridge!Drain, Bridge!DrainAwake, Bridge!CancelPending,
     Bridge!StopAndJoin, Bridge!Detach, Bridge!Submit
<1>4. ASSUME NEW c \in Callers, NEW p, cpc' = [cpc EXCEPT ![c] = p], UNCHANGED <<generation, held>>,
             InCall(c) \/ p \in {"idle", "acquire"}
      PROVE  HeldAlive'
  <2>1. cpc'[c] = p /\ \A d \in Callers : d # c => cpc'[d] = cpc[d]
    BY <1>0, <1>4 DEF Bridge!TypeOK
  <2> QED BY <1>0, <1>4, <2>1 DEF HeldAlive, InCall
<1>5. ASSUME NEW c \in Callers, Bridge!Call(c) \/ Bridge!Caller(c) PROVE HeldAlive'
  <2>1. CASE Bridge!Acquire(c)
    <3>1. held'[c] = generation /\ generation' = generation
          /\ \A d \in Callers : d # c => held'[d] = held[d] /\ cpc'[d] = cpc[d]
      BY <1>0, <2>1 DEF Bridge!Acquire, StageShape, Bridge!TypeOK
    <3> QED BY <1>0, <3>1 DEF HeldAlive, InCall
  <2>2. CASE Bridge!Release(c)
    <3>1. cpc'[c] = "idle" /\ generation' = generation
          /\ \A d \in Callers : d # c => held'[d] = held[d] /\ cpc'[d] = cpc[d]
      BY <1>0, <2>2 DEF Bridge!Release, Bridge!TypeOK
    <3> QED BY <1>0, <3>1 DEF HeldAlive, InCall
  <2>3. CASE Bridge!Call(c) \/ Bridge!AcquireFails(c)
    BY <1>4, <2>3 DEF Bridge!Call, Bridge!AcquireFails
  <2>4. CASE Bridge!Dispatch(c) \/ Bridge!DispatchThrows(c) \/ Bridge!Enqueue(c)
    BY <1>4, <2>4 DEF Bridge!Dispatch, Bridge!DispatchThrows, Bridge!Enqueue, InCall
  <2> QED BY <1>5, <2>1, <2>2, <2>3, <2>4 DEF Bridge!Caller
<1>6. ASSUME NEW l \in Bridge!LaneIds, Bridge!Worker(l) PROVE HeldAlive'
  <2>1. CASE UNCHANGED Bridge!callerVars
    BY <1>1, <1>6, <2>1 DEF Bridge!Worker, Bridge!WorkerPop, Bridge!WorkerFinish
  <2>2. CASE Bridge!WorkerFinish(l) /\ serving[l] \in Callers /\ UNCHANGED held
             /\ cpc' = [cpc EXCEPT ![serving[l]] = "release"]
    <3>1. 0 \in Slots(l) /\ Item(l, 0) = serving[l]
      BY <1>0 DEF Slots, Item, Bridge!TypeOK
    <3>2. cpc[serving[l]] = "get"
      BY <1>0, <2>2, <3>1 DEF OnePlace
    <3> QED BY <1>4, <2>2, <3>2 DEF Bridge!WorkerFinish, InCall
  <2> QED BY <1>6, <2>1, <2>2 DEF Bridge!Worker, Bridge!WorkerPop, Bridge!WorkerFinish
<1>7. CASE UNCHANGED bridgeVars
  BY <1>1, <1>7 DEF bridgeVars
<1> QED BY <1>2, <1>3, <1>5, <1>6, <1>7 DEF Bridge!Next
-----------------------------------------------------------------------------
(* The places of the callers' requests.                                     *)

\* A step that moves no request and no waiting caller.
LEMMA PlacesKept ==
  ASSUME OnePlace, UNCHANGED <<laneQueue, serving>>,
         \A c \in Callers : cpc[c] = "get" => cpc'[c] = "get"
  PROVE  OnePlace'
BY DEF OnePlace, Slots, Item

\* A step of a caller that is not in get() moves no request and no other
\* caller.
LEMMA CallerPlaces ==
  ASSUME Bridge!TypeOK, OnePlace, NEW c \in Callers, Bridge!Call(c) \/ Bridge!Caller(c),
         UNCHANGED <<laneQueue, serving>>
  PROVE  OnePlace'
<1> USE DEF Bridge!callerVars
<1>1. cpc[c] # "get" /\ \A d \in Callers : d # c => cpc'[d] = cpc[d]
  BY DEF Bridge!Call, Bridge!Caller, Bridge!Acquire, Bridge!AcquireFails, Bridge!Dispatch,
     Bridge!DispatchThrows, Bridge!Enqueue, Bridge!Release, Bridge!TypeOK
<1> QED BY <1>1, PlacesKept

\* A request appended to the queue of the lane k takes a slot of its own.
LEMMA AppendedSlots ==
  ASSUME Bridge!TypeOK, NEW k \in Bridge!LaneIds, NEW x \in Bridge!Items,
         laneQueue' = [laneQueue EXCEPT ![k] = Append(@, x)], serving' = serving
  PROVE  \A l \in Bridge!LaneIds : \A i \in Slots(l)' :
           \/ i \in Slots(l) /\ Item(l, i)' = Item(l, i)
           \/ l = k /\ i = Len(laneQueue[k]) + 1 /\ Item(l, i)' = x
<1> SUFFICES ASSUME NEW l \in Bridge!LaneIds, NEW i \in Slots(l)'
             PROVE  \/ i \in Slots(l) /\ Item(l, i)' = Item(l, i)
                    \/ l = k /\ i = Len(laneQueue[k]) + 1 /\ Item(l, i)' = x
  OBVIOUS
<1>1. laneQueue[l] \in Seq(Bridge!Items) /\ laneQueue[k] \in Seq(Bridge!Items)
  BY DEF Bridge!TypeOK
<1>2. CASE l # k
  <2>1. laneQueue'[l] = laneQueue[l]
    BY <1>2 DEF Bridge!TypeOK
  <2> QED BY <2>1 DEF Slots, Item
<1>3. CASE l = k
  <2>1. laneQueue'[k] = Append(laneQueue[k], x)
    BY DEF Bridge!TypeOK
  <2>2. Len(laneQueue'[k]) = Len(laneQueue[k]) + 1 /\ Len(laneQueue[k]) \in Nat
        /\ (\A j \in 1 .. Len(laneQueue[k]) : laneQueue'[k][j] = laneQueue[k][j])
        /\ laneQueue'[k][Len(laneQueue[k]) + 1] = x
    BY <1>1, <2>1
  <2>3. i \in 0 .. Len(laneQueue[k]) + 1
    BY <1>3, <2>2 DEF Slots
  <2> QED BY <1>3, <2>2, <2>3 DEF Slots, Item
<1> QED BY <1>2, <1>3

\* Every step leaves each waiting request in one place.
LEMMA PlaceStep ==
  ASSUME BridgeInv, [Bridge!Next]_bridgeVars
  PROVE  OnePlace'
<1>0. Bridge!TypeOK /\ OnePlace
  BY DEF BridgeInv
<1>1. CASE Bridge!CtorAttach \/ Bridge!Shutdown \/ Bridge!SpuriousWake \/ Bridge!Driver
           \/ UNCHANGED bridgeVars
  <2>1. UNCHANGED <<laneQueue, serving, cpc>>
    BY <1>1 DEF Bridge!CtorAttach, Bridge!Shutdown, Bridge!SpuriousWake, Bridge!Driver,
       Bridge!CtorLanes, Bridge!CtorFails, Bridge!Publish, Bridge!Drain, Bridge!DrainAwake,
       Bridge!CancelPending, Bridge!StopAndJoin, Bridge!Detach, Bridge!laneVars, Bridge!callerVars,
       bridgeVars
  <2> QED BY <1>0, <2>1, PlacesKept
<1>2. ASSUME NEW o \in Ops, Bridge!Submit(o) PROVE OnePlace'
  <2>1. /\ rr \in Bridge!LaneIds /\ o \in Bridge!Items /\ o \notin Callers
        /\ laneQueue' = [laneQueue EXCEPT ![rr] = Append(@, o)] /\ serving' = serving /\ cpc' = cpc
    BY BridgeBounds, <1>0, <1>2 DEF Bridge!Submit, Bridge!TypeOK, Bridge!Items, Bridge!callerVars
  <2>2. \A l \in Bridge!LaneIds : \A i \in Slots(l)' :
          Item(l, i)' \in Callers => i \in Slots(l) /\ Item(l, i)' = Item(l, i)
    BY <1>0, <2>1, AppendedSlots
  <2> QED BY <1>0, <2>1, <2>2 DEF OnePlace
<1>3. ASSUME NEW c \in Callers, Bridge!Enqueue(c) PROVE OnePlace'
  <2>1. /\ at[c] \in Bridge!LaneIds /\ c \in Bridge!Items /\ cpc[c] = "enqueue"
        /\ laneQueue' = [laneQueue EXCEPT ![at[c]] = Append(@, c)] /\ serving' = serving
        /\ cpc'[c] = "get" /\ \A d \in Callers : d # c => cpc'[d] = cpc[d]
    BY <1>0, <1>3 DEF Bridge!Enqueue, Bridge!TypeOK, Bridge!Items
  <2>2. \A l \in Bridge!LaneIds : \A i \in Slots(l)' :
          \/ i \in Slots(l) /\ Item(l, i)' = Item(l, i)
          \/ l = at[c] /\ i = Len(laneQueue[at[c]]) + 1 /\ Item(l, i)' = c
    BY <1>0, <2>1, AppendedSlots
  <2>3. \A l \in Bridge!LaneIds : \A i \in Slots(l) : Item(l, i) # c
    BY <1>0, <2>1 DEF OnePlace
  <2> QED BY <1>0, <2>1, <2>2, <2>3 DEF OnePlace
<1>4. ASSUME NEW c \in Callers, Bridge!Call(c) \/ Bridge!Caller(c), ~Bridge!Enqueue(c) PROVE OnePlace'
  <2>1. UNCHANGED <<laneQueue, serving>>
    BY <1>4 DEF Bridge!Call, Bridge!Caller, Bridge!Acquire, Bridge!AcquireFails, Bridge!Dispatch,
       Bridge!DispatchThrows, Bridge!Release, Bridge!laneVars
  <2> QED BY <1>0, <1>4, <2>1, CallerPlaces
<1>5. ASSUME NEW l \in Bridge!LaneIds, Bridge!WorkerPop(l) PROVE OnePlace'
  <2>1. laneQueue[l] \in Seq(Bridge!Items) /\ laneQueue[l] # <<>> /\ cpc' = cpc
    BY <1>0, <1>5 DEF Bridge!WorkerPop, Bridge!TypeOK, Bridge!callerVars
  <2>2. /\ laneQueue'[l] = Tail(laneQueue[l]) /\ serving'[l] \in {Head(laneQueue[l]), Nobody}
        /\ \A m \in Bridge!LaneIds : m # l => laneQueue'[m] = laneQueue[m] /\ serving'[m] = serving[m]
    BY <1>0, <1>5 DEF Bridge!WorkerPop, Bridge!TypeOK
  <2>3. /\ Len(laneQueue'[l]) = Len(laneQueue[l]) - 1
        /\ Len(laneQueue[l]) \in Nat /\ Len(laneQueue[l]) > 0
        /\ Head(laneQueue[l]) = laneQueue[l][1]
        /\ \A i \in 1 .. Len(laneQueue[l]) - 1 : laneQueue'[l][i] = laneQueue[l][i + 1]
    BY <2>1, <2>2
  <2>4. \A i \in Slots(l)' : Item(l, i)' \in Callers =>
          i + 1 \in Slots(l) /\ i \in Nat /\ Item(l, i)' = Item(l, i + 1)
    <3> SUFFICES ASSUME NEW i \in Slots(l)', Item(l, i)' \in Callers
                 PROVE  i + 1 \in Slots(l) /\ i \in Nat /\ Item(l, i)' = Item(l, i + 1)
      OBVIOUS
    <3>1. i \in 0 .. Len(laneQueue[l]) - 1 /\ i + 1 \in Slots(l) /\ Item(l, i + 1) = laneQueue[l][i + 1]
      BY <2>3 DEF Slots, Item
    <3>2. CASE i = 0
      <4>1. Item(l, i)' = serving'[l] /\ serving'[l] # Nobody
        BY BridgeBounds, <3>2 DEF Item
      <4> QED BY <2>2, <2>3, <3>1, <3>2, <4>1
    <3>3. CASE i # 0
      <4>1. Item(l, i)' = laneQueue'[l][i]
        BY <3>3 DEF Item
      <4> QED BY <2>3, <3>1, <3>3, <4>1
    <3> QED BY <3>2, <3>3
  <2>5. \A m \in Bridge!LaneIds : m # l =>
          Slots(m)' = Slots(m) /\ \A i \in Slots(m) : Item(m, i)' = Item(m, i)
    BY <2>2 DEF Slots, Item
  <2> QED BY <1>0, <2>1, <2>4, <2>5 DEF OnePlace
<1>6. ASSUME NEW l \in Bridge!LaneIds, Bridge!WorkerFinish(l) PROVE OnePlace'
  <2>1. laneQueue' = laneQueue /\ serving'[l] = Nobody /\ Nobody \notin Callers
        /\ \A m \in Bridge!LaneIds : m # l => serving'[m] = serving[m]
    BY BridgeBounds, <1>0, <1>6 DEF Bridge!WorkerFinish, Bridge!TypeOK
  <2>2. \A m \in Bridge!LaneIds : \A i \in Slots(m)' : Item(m, i)' \in Callers =>
          i \in Slots(m) /\ Item(m, i)' = Item(m, i) /\ ~(m = l /\ i = 0)
    BY <2>1 DEF Slots, Item
  <2>3. 0 \in Slots(l) /\ Item(l, 0) = serving[l]
    BY <1>0 DEF Slots, Item, Bridge!TypeOK
  <2>4. \A c \in Callers : c # serving[l] => cpc'[c] = cpc[c]
    BY <1>0, <1>6 DEF Bridge!WorkerFinish, Bridge!TypeOK, Bridge!callerVars
  <2>5. \A m \in Bridge!LaneIds : \A i \in Slots(m)' :
            Item(m, i)' \in Callers => Item(m, i)' # serving[l]
    BY <1>0, <2>2, <2>3 DEF OnePlace
  <2> QED BY <1>0, <2>2, <2>4, <2>5 DEF OnePlace
<1> QED BY <1>1, <1>2, <1>3, <1>4, <1>5, <1>6 DEF Bridge!Next, Bridge!Worker
-----------------------------------------------------------------------------
(* The invariant and what follows from it.                                  *)

\* The bridge before the first Runtime.
LEMMA InitBridge == Bridge!Init => BridgeInv
<1> SUFFICES ASSUME Bridge!Init PROVE BridgeInv
  OBVIOUS
<1>1. Bridge!TypeOK
  <2>1. 0 \in Bridge!LaneIds /\ 0 \in 0 .. MaxRuntimes
    BY BridgeBounds DEF Bridge!LaneIds
  <2>2. draining \in BOOLEAN /\ hpxUp \in BOOLEAN /\ lanes \in BOOLEAN
    BY Zenon DEF Bridge!Init
  <2> QED BY <2>1, <2>2 DEF Bridge!Init, Bridge!TypeOK
<1>2. StageShape /\ DrainGate /\ HeldAlive
  BY DEF Bridge!Init, StageShape, DrainGate, HeldAlive, InCall
<1>3. OnePlace
  BY BridgeBounds DEF Bridge!Init, OnePlace, Slots, Item
<1>4. {c \in Callers : cpc[c] \in {"dispatch", "enqueue", "get", "release"}} = {}
  BY DEF Bridge!Init
<1>5. Bridge!InFlightExact
  BY <1>4, FS_EmptySet DEF Bridge!Init, Bridge!InFlightExact, Bridge!Cardinality, Cardinality
<1> QED BY <1>1, <1>2, <1>3, <1>5 DEF BridgeInv

\* One step of the driver, a caller or a worker keeps the invariant.
LEMMA BridgeStep == BridgeInv /\ [Bridge!Next]_bridgeVars => BridgeInv'
BY TypeStep, StageStep, CountStep, HeldStep, PlaceStep DEF BridgeInv

\* The drain gate of the endpoint bridge: the slot, the drain, in_flight_ and
\* the queues agree whatever calls race a shutdown.
THEOREM BridgeInvariant == Spec => []BridgeInv
<1>1. PyInit => BridgeInv
  BY InitBridge DEF PyInit
<1>2. BridgeInv /\ [Next]_pyVars => BridgeInv'
  BY BridgeStep, PartSteps
<1> QED BY <1>1, <1>2, PTL DEF Spec

\* What the invariant says of the callers in flight: the drain gate keeps the
\* engine, its lanes and HPX alive under them, and counts them exactly.
LEMMA CallsCovered ==
  ASSUME BridgeInv
  PROVE  Bridge!TypeOK /\ Bridge!EngineOutlivesCalls /\ Bridge!InFlightExact
<1>1. Bridge!TypeOK /\ StageShape /\ DrainGate /\ HeldAlive /\ Bridge!InFlightExact
  BY DEF BridgeInv
<1>2. ASSUME NEW c \in Callers, InCall(c) PROVE held[c] = generation /\ lanes /\ hpxUp
  <2>1. inFlight # 0
    BY <1>1, <1>2, NobodyInFlight
  <2>2. stage \in {"live", "shutdown", "asleep", "awake"}
    BY <1>1, <2>1 DEF DrainGate, Bridge!TypeOK
  <2> QED BY <1>1, <1>2, <2>2 DEF StageShape, HeldAlive
<1> QED BY <1>1, <1>2 DEF Bridge!EngineOutlivesCalls, InCall

\* And of a shutdown that has drained: no bridged request is in its lanes.
LEMMA LanesFreeOfCallers ==
  ASSUME BridgeInv
  PROVE  Bridge!BridgedNeverCancelled
<1> SUFFICES ASSUME stage \in {"drained", "cancelled", "joined", "none"}
             PROVE  /\ inFlight = 0
                    /\ \A l \in Bridge!LaneIds : serving[l] \notin Callers
                    /\ \A l \in Bridge!LaneIds :
                         \A i \in 1 .. Len(laneQueue[l]) : laneQueue[l][i] \notin Callers
  BY DEF Bridge!BridgedNeverCancelled
<1>1. inFlight = 0 /\ \A c \in Callers : cpc[c] # "get"
  BY NobodyInFlight DEF BridgeInv, DrainGate, InCall
<1>2. \A l \in Bridge!LaneIds : \A i \in Slots(l) : Item(l, i) \notin Callers
  BY <1>1 DEF BridgeInv, OnePlace
<1>3. \A l \in Bridge!LaneIds : Len(laneQueue[l]) \in Nat
  BY DEF BridgeInv, Bridge!TypeOK
<1>4. \A l \in Bridge!LaneIds :
        0 \in Slots(l) /\ \A i \in 1 .. Len(laneQueue[l]) : i \in Slots(l) /\ i # 0
  BY <1>3 DEF Slots
<1> QED BY <1>1, <1>2, <1>4 DEF Item

\* The engine, its lanes and HPX outlive every call in flight, and in_flight_
\* is exactly the calls the drain has to wait for (RuntimeBridgeSlot).
THEOREM PackageOutlivesCalls == Spec => []EngineOutlivesCalls
<1>1. BridgeInv => EngineOutlivesCalls
  BY CallsCovered DEF EngineOutlivesCalls
<1> QED BY <1>1, BridgeInvariant, PTL

\* The shutdown's cancel_pending() never meets a bridged request.
THEOREM PackageBridgedSafe == Spec => []BridgedNeverCancelled
<1>1. BridgeInv => BridgedNeverCancelled
  BY LanesFreeOfCallers DEF BridgedNeverCancelled
<1> QED BY <1>1, BridgeInvariant, PTL

-----------------------------------------------------------------------------
(* The endpoints and their listener.                                        *)

\* The peer process: an id that was never registered is not wired, and the
\* share count is that of the live transport endpoints.
PeerInv ==
    /\ near \in BOOLEAN /\ epFaults \in Nat
    /\ reg \in [Ids -> {"none", "live", "closed", "lost"}]
    /\ wired \subseteq {i \in Ids : reg[i] # "none"}
    /\ lst \in {"off", "up", "broken"}
    /\ rc = Cardinality(Live \cap wired)
    /\ rc > 0 => lst # "off"
    /\ epFaults = 0 => lst # "broken" /\ (lst = "up" <=> rc > 0)

\* A connection is to an id that was registered.
Connected == conn.id \in Ids /\ reg[conn.id] # "none"

\* What the status in a frame says of the endpoint it was asked of.
Answer(status, truth) ==
    /\ status = "OK" => truth = "live"
    /\ status = "NOT_FOUND" => truth \in {"closed", "lost"}

\* The client's call: the frame names the connected id until it is served, and
\* carries a true answer after that.
CallInv ==
    /\ DOMAIN conn = {"id", "remote", "open"}
    /\ conn # NoConn => Connected
    /\ DOMAIN cli = {"op", "at", "frame", "truth"}
    /\ cli.at \in {"idle", "sent", "served", "answered"}
    /\ cli.at # "idle" => cli.op \in {"ping", "call_op"} /\ Connected
    /\ cli.at = "sent" => cli.frame.magic = "RAYX" /\ cli.frame.target = conn.id
    /\ cli.at \in {"served", "answered"} =>
         cli.frame.magic \in {"none", "RAYX"} /\ Answer(cli.frame.status, cli.truth)

EndpointInv == PeerInv /\ CallInv /\ AnswersTrue

\* The shares of a set of ids that gains or loses one.
LEMMA ShareCount ==
  ASSUME NEW S \in SUBSET Ids, NEW i \in Ids
  PROVE  /\ Cardinality(S) \in Nat
         /\ Cardinality(S) > 0 <=> S # {}
         /\ i \notin S => Cardinality(S \cup {i}) = Cardinality(S) + 1
         /\ i \in S => Cardinality(S \ {i}) = Cardinality(S) - 1
<1>1. IsFiniteSet(S)
  BY EndpointBounds, FS_Subset
<1>2. Cardinality(S) \in Nat /\ (Cardinality(S) = 0 <=> S = {})
  BY <1>1, FS_CardinalityType, FS_EmptySet
<1>3. i \notin S => Cardinality(S \cup {i}) = Cardinality(S) + 1
  BY <1>1, FS_AddElement
<1>4. i \in S => Cardinality(S \ {i}) = Cardinality(S) - 1
  BY <1>1, FS_RemoveElement
<1> QED BY <1>2, <1>3, <1>4

\* Opening, closing and losing endpoints keeps the share count.
LEMMA PeerKeeps ==
  ASSUME PeerInv, PeerStep
  PROVE  PeerInv'
<1>0. rc \in Nat /\ Live \cap wired \in SUBSET Ids
  <2>1. Live \cap wired \in SUBSET Ids
    BY DEF Live
  <2>2. CASE Ids = {}
    <3>1. Live \cap wired = {}
      BY <2>2 DEF Live
    <3> QED BY <2>1, <3>1, FS_EmptySet DEF PeerInv
  <2>3. CASE Ids # {}
    BY <2>1, <2>3, ShareCount DEF PeerInv
  <2> QED BY <2>1, <2>2, <2>3
<1>1. ASSUME NEW i \in Ids, NEW t \in BOOLEAN, OpenEndpoint(i, t) PROVE PeerInv'
  <2>0. /\ reg[i] = "none" /\ near' = near /\ i \notin wired
        /\ \A j \in Ids : j # i => reg'[j] = reg[j]
        /\ \A s \in {"live", "closed"} : reg' = [reg EXCEPT ![i] = s] => reg'[i] = s
    BY <1>1 DEF OpenEndpoint, PeerInv
  <2>1. CASE /\ reg' = [reg EXCEPT ![i] = "live"] /\ epFaults' = epFaults
             /\ wired' = IF t THEN wired \cup {i} ELSE wired
             /\ rc' = IF t THEN rc + 1 ELSE rc
             /\ lst' = IF t /\ lst = "off" THEN "up" ELSE lst
    <3>1. (Live \cap wired)' = IF t THEN (Live \cap wired) \cup {i} ELSE Live \cap wired
      BY <2>0, <2>1 DEF Live, PeerInv
    <3>2. rc' = Cardinality((Live \cap wired)')
      BY <1>0, <2>0, <2>1, <3>1, ShareCount DEF PeerInv
    <3>3. reg' \in [Ids -> {"none", "live", "closed", "lost"}]
          /\ wired' \subseteq {j \in Ids : reg'[j] # "none"}
      BY <2>0, <2>1 DEF PeerInv
    <3>4. /\ lst' \in {"off", "up", "broken"} /\ (rc' > 0 => lst' # "off")
          /\ epFaults' = 0 => lst' # "broken" /\ (lst' = "up" <=> rc' > 0)
      BY <1>0, <2>1 DEF PeerInv
    <3> QED BY <2>0, <2>1, <3>2, <3>3, <3>4 DEF PeerInv
  <2>2. CASE /\ reg' = [reg EXCEPT ![i] = "closed"] /\ epFaults' = epFaults + 1
             /\ lst = "off" /\ lst' \in {"off", "broken"} /\ UNCHANGED <<wired, rc>>
    <3>1. (Live \cap wired)' = Live \cap wired
      BY <2>0, <2>2 DEF Live, PeerInv
    <3>2. reg' \in [Ids -> {"none", "live", "closed", "lost"}]
          /\ wired' \subseteq {j \in Ids : reg'[j] # "none"}
      BY <2>0, <2>2 DEF PeerInv
    <3>3. /\ epFaults' \in Nat /\ epFaults' # 0
          /\ lst' \in {"off", "up", "broken"} /\ (rc' > 0 => lst' # "off")
      BY <1>0, <2>2 DEF PeerInv
    <3>4. rc' = Cardinality((Live \cap wired)')
      BY <2>2, <3>1 DEF PeerInv
    <3> QED BY <2>0, <3>2, <3>3, <3>4 DEF PeerInv
  <2> QED BY <1>1, <2>1, <2>2 DEF OpenEndpoint
<1>2. ASSUME NEW i \in Ids, CloseEndpoint(i) PROVE PeerInv'
  <2>1. /\ reg[i] = "live" /\ reg'[i] = "closed" /\ \A j \in Ids : j # i => reg'[j] = reg[j]
        /\ UNCHANGED <<near, wired, epFaults>>
        /\ reg' \in [Ids -> {"none", "live", "closed", "lost"}]
        /\ wired' \subseteq {j \in Ids : reg'[j] # "none"}
    BY <1>2 DEF CloseEndpoint, PeerInv
  <2>2. /\ (Live \cap wired)' = IF i \in wired THEN (Live \cap wired) \ {i} ELSE Live \cap wired
        /\ i \in wired => i \in Live \cap wired
    BY <2>1 DEF Live
  <2>3. rc' = Cardinality((Live \cap wired)') /\ (i \in wired => rc > 0)
    <3> DEFINE S == Live \cap wired
    <3>1. S \in SUBSET Ids /\ rc = Cardinality(S)
      BY <1>0 DEF PeerInv
    <3> HIDE DEF S
    <3>2. i \in S => Cardinality(S \ {i}) = Cardinality(S) - 1 /\ Cardinality(S) > 0
      BY <3>1, ShareCount
    <3>3. S' = IF i \in wired THEN S \ {i} ELSE S
      BY <2>2 DEF S
    <3>4. rc' = IF i \in wired THEN rc - 1 ELSE rc
      BY <1>2 DEF CloseEndpoint
    <3>5. i \in wired => i \in S
      BY <2>2 DEF S
    <3>6. rc' = Cardinality(S')
      BY <3>1, <3>2, <3>3, <3>4, <3>5
    <3> QED BY <3>1, <3>2, <3>5, <3>6 DEF S
  <2>4. /\ lst' \in {"off", "up", "broken"} /\ (rc' > 0 => lst' # "off")
        /\ epFaults' = 0 => lst' # "broken" /\ (lst' = "up" <=> rc' > 0)
    BY <1>0, <1>2, <2>3 DEF CloseEndpoint, PeerInv
  <2> QED BY <2>1, <2>3, <2>4 DEF PeerInv
<1>3. CASE Shutdown
  <2>1. Live \cap wired = {} /\ UNCHANGED <<near, reg, wired, rc, epFaults>>
    BY <1>3 DEF Shutdown
  <2>2. rc = 0
    BY <2>1, FS_EmptySet DEF PeerInv
  <2> QED BY <1>3, <2>1, <2>2 DEF Shutdown, PeerInv, Live
<1>4. CASE RuntimeUp \/ RuntimeDown
  BY <1>4 DEF RuntimeUp, RuntimeDown, PeerInv, Live
<1>5. CASE PeerReplaced
  <2>1. (Live \cap wired)' = {} /\ rc' = 0 /\ lst' = "off" /\ near' = near /\ wired' = wired
        /\ epFaults' = epFaults + 1
        /\ reg' = [i \in Ids |-> IF reg[i] = "none" THEN "none" ELSE "lost"]
    BY <1>5 DEF PeerReplaced, Live
  <2>2. reg' \in [Ids -> {"none", "live", "closed", "lost"}]
        /\ wired' \subseteq {j \in Ids : reg'[j] # "none"}
    BY <2>1 DEF PeerInv
  <2> QED BY <2>1, <2>2, FS_EmptySet DEF PeerInv
<1> QED BY <1>1, <1>2, <1>3, <1>4, <1>5 DEF PeerStep

\* What the registry and the bridge answer to a request for the connected id.
LEMMA ServedTrue ==
  ASSUME PeerInv, CallInv, cli.at = "sent",
         NEW f, f = IF cli.op = "ping" THEN serve_ping(cli.frame) ELSE serve_call_op(cli.frame)
  PROVE  f.magic = "RAYX" /\ Answer(f.status, reg[conn.id])
<1>0. /\ conn.id \in Ids /\ reg[conn.id] \in {"live", "closed", "lost"}
      /\ cli.frame.magic = "RAYX" /\ cli.frame.target = conn.id
  BY DEF PeerInv, CallInv, Connected
<1>1. decode_request(cli.frame)[3] = conn.id /\ decode_call_op(cli.frame)[3] = conn.id
  BY <1>0 DEF decode_request, decode_call_op
<1>2. /\ Reach(conn.id) = "LIVE" => reg[conn.id] = "live"
      /\ Reach(conn.id) \in {"LIVE", "CLOSED"} \/ reg[conn.id] \in {"closed", "lost"}
  BY <1>0 DEF Reach, lookup, Live
<1>3. \A code, args : bridge_dispatch(code, args) # "NOT_FOUND"
  BY DEF bridge_dispatch
<1>4. CASE cli.op = "ping"
  <2>1. /\ f.magic = "RAYX"
        /\ f.status = CASE Reach(conn.id) = "LIVE" -> "OK"
                        [] Reach(conn.id) = "CLOSED" -> "PEER_CLOSED"
                        [] OTHER -> "NOT_FOUND"
    BY <1>1, <1>4 DEF serve_ping, encode_response
  <2> QED BY <1>2, <2>1 DEF Answer
<1>5. CASE cli.op # "ping"
  <2>1. PICK code, args :
          /\ f.magic = "RAYX"
          /\ f.status = CASE Reach(conn.id) = "LIVE" -> bridge_dispatch(code, args)
                          [] Reach(conn.id) = "CLOSED" -> "PEER_CLOSED"
                          [] OTHER -> "NOT_FOUND"
    BY <1>1, <1>5 DEF serve_call_op, encode_call_resp
  <2> QED BY <1>2, <1>3, <2>1 DEF Answer
<1> QED BY <1>4, <1>5

\* A client that has not finished its call is connected, and stays so.
LEMMA StaysConnected ==
  ASSUME PeerInv, Connected, PeerStep
  PROVE  Connected'
BY DEF PeerInv, Connected, PeerStep, OpenEndpoint, CloseEndpoint, Shutdown, RuntimeUp,
       RuntimeDown, PeerReplaced

\* The peer's steps leave the call alone, or end it without an answer.
LEMMA PeerCall ==
  ASSUME PeerInv, CallInv, PeerStep
  PROVE  CallInv'
<1>0. Connected => Connected'
  BY StaysConnected
<1>1. CASE UNCHANGED <<conn, cli>>
  BY <1>0, <1>1 DEF CallInv, Connected
<1>2. CASE PeerReplaced /\ cli.at \in {"sent", "served"}
  <2>1. conn' = conn /\ cli' = Failed("CONN_CLOSED")
    BY <1>2 DEF PeerReplaced
  <2>2. /\ DOMAIN cli' = {"op", "at", "frame", "truth"} /\ cli'.at = "answered" /\ cli'.op = cli.op
        /\ cli'.frame.magic = "none" /\ cli'.frame.status = "CONN_CLOSED"
    BY <2>1 DEF Failed, CallInv
  <2> QED BY <1>0, <1>2, <2>1, <2>2 DEF CallInv, Connected, Answer
<1> QED BY <1>1, <1>2 DEF PeerStep, OpenEndpoint, CloseEndpoint, Shutdown, RuntimeUp, RuntimeDown,
                         PeerReplaced

\* The client's own steps: connect() answers from the registry, and a request
\* goes out in the name of the connected id.
LEMMA ClientCall ==
  ASSUME PeerInv, CallInv, AnswersTrue, ClientStep
  PROVE  CallInv' /\ AnswersTrue'
<1>1. ASSUME NEW i \in Ids, NEW m, Connect(i, m) PROVE CallInv' /\ AnswersTrue'
  <2> DEFINE refusal == connect_refusal(m)
             found == IF near THEN reg[i] = "live" ELSE lst # "off"
             what == IF refusal # "none" THEN refusal
                     ELSE IF found THEN "ok"
                     ELSE IF near THEN "EndpointNotFoundError" ELSE "EndpointUnreachableError"
  <2>1. refusal \in {"EndpointValidationError", "EndpointProtocolError", "EndpointUnreachableError",
                     "none"}
    BY DEF connect_refusal
  <2>2. /\ out' = [call |-> "connect", what |-> what, truth |-> reg[i], id |-> i]
        /\ conn' = IF what = "ok" THEN [id |-> i, remote |-> ~near, open |-> TRUE] ELSE conn
        /\ cli = NoCall /\ reg[i] # "none" /\ cli' = cli /\ near' = near /\ reg' = reg
    BY <1>1 DEF Connect, Finish
  <2> HIDE DEF refusal
  <2>3. AnswersTrue'
    BY <2>1, <2>2 DEF AnswersTrue, PeerInv
  <2>4. Connected' \/ conn' = conn
    BY <2>2 DEF Connected
  <2>5. CallInv'
    BY <2>2, <2>4 DEF CallInv, Connected, NoCall
  <2> QED BY <2>3, <2>5
<1>2. ASSUME NEW op \in {"ping", "call_op"}, NEW f, f.magic = "RAYX", f.target = conn.id,
             conn # NoConn, Sent(op, f)
      PROVE  CallInv' /\ AnswersTrue'
  <2>1. UNCHANGED <<near, reg, conn, out>> /\ Connected
    BY <1>2 DEF Sent, CallInv
  <2>2. CASE cli' = [op |-> op, at |-> "sent", frame |-> f, truth |-> "none"]
    BY <1>2, <2>1, <2>2 DEF CallInv, Connected, AnswersTrue
  <2>3. CASE cli' = [Failed("CONN_CLOSED") EXCEPT !.op = op]
    <3>1. /\ DOMAIN cli' = {"op", "at", "frame", "truth"} /\ cli'.at = "answered" /\ cli'.op = op
          /\ cli'.frame.magic = "none" /\ cli'.frame.status = "CONN_CLOSED"
      BY <2>3 DEF Failed, CallInv
    <3> QED BY <2>1, <3>1 DEF CallInv, Connected, AnswersTrue, Answer
  <2> QED BY <1>2, <2>2, <2>3 DEF Sent
<1>3. ASSUME NEW n, Ping(n) PROVE CallInv' /\ AnswersTrue'
  BY <1>2, <1>3 DEF Ping, encode_request
<1>4. ASSUME NEW op, NEW args, CallOp(op, args) PROVE CallInv' /\ AnswersTrue'
  BY <1>2, <1>4 DEF CallOp, encode_call_op
<1>5. CASE CloseConnection
  <2>1. UNCHANGED <<near, reg, cli, out>> /\ cli = NoCall /\ conn' = [conn EXCEPT !.open = FALSE]
    BY <1>5 DEF CloseConnection
  <2>2. Connected
    BY <1>5 DEF CloseConnection, CallInv, NoConn
  <2>3. conn'.id = conn.id /\ DOMAIN conn' = DOMAIN conn
    BY <2>1 DEF CallInv
  <2> QED BY <2>1, <2>2, <2>3 DEF CallInv, Connected, AnswersTrue, NoCall
<1> QED BY <1>1, <1>3, <1>4, <1>5 DEF ClientStep

\* The status a client reads is the one in the frame.
LEMMA FrameStatus ==
  ASSUME cli.frame.magic \in {"none", "RAYX"}
  PROVE  Status = cli.frame.status
<1>1. cli.frame.magic = "RAYX" => /\ decode_response(cli.frame)[2] = cli.frame.status
                                  /\ decode_call_resp(cli.frame)[2] = cli.frame.status
  BY DEF decode_response, decode_call_resp
<1>2. CASE cli.frame.magic = "none"
  BY <1>2 DEF Status
<1>3. CASE cli.frame.magic = "RAYX" /\ cli.op = "ping"
  <2>1. Status = decode_response(cli.frame)[2]
    BY <1>3 DEF Status
  <2> QED BY <1>1, <1>3, <2>1
<1>4. CASE cli.frame.magic = "RAYX" /\ cli.op # "ping"
  <2>1. Status = decode_call_resp(cli.frame)[2]
    BY <1>4 DEF Status
  <2> QED BY <1>1, <1>4, <2>1
<1> QED BY <1>2, <1>3, <1>4

\* The listener, the deadline and the end of the call.
LEMMA ListenerCall ==
  ASSUME PeerInv, CallInv, AnswersTrue, Listener
  PROVE  CallInv' /\ AnswersTrue'
<1>1. CASE Serve
  <2>1. PICK f : f = IF cli.op = "ping" THEN serve_ping(cli.frame) ELSE serve_call_op(cli.frame)
    OBVIOUS
  <2>2. /\ cli.at = "sent" /\ UNCHANGED <<near, reg, conn, out>>
        /\ cli' = [cli EXCEPT !.at = "served", !.truth = reg[conn.id], !.frame = f]
    BY <1>1, <2>1 DEF Serve
  <2>3. f.magic = "RAYX" /\ Answer(f.status, reg[conn.id])
    BY <2>1, <2>2, ServedTrue
  <2>4. /\ DOMAIN cli' = {"op", "at", "frame", "truth"} /\ cli'.at = "served" /\ cli'.op = cli.op
        /\ cli'.frame = f /\ cli'.truth = reg[conn.id]
    BY <2>2 DEF CallInv
  <2> QED BY <2>2, <2>3, <2>4 DEF CallInv, Connected, AnswersTrue
<1>2. CASE Respond
  <2>1. /\ cli.at = "served" /\ UNCHANGED <<near, reg, conn, out>>
        /\ cli' = [cli EXCEPT !.at = "answered"]
    BY <1>2 DEF Respond
  <2>2. /\ DOMAIN cli' = {"op", "at", "frame", "truth"} /\ cli'.at = "answered" /\ cli'.op = cli.op
        /\ cli'.frame = cli.frame /\ cli'.truth = cli.truth
    BY <2>1 DEF CallInv
  <2> QED BY <2>1, <2>2 DEF CallInv, Connected, AnswersTrue
<1>3. CASE Expire
  <2>1. PICK status \in {"CONN_CLOSED", "TIMEOUT"} : cli' = Failed(status)
    BY <1>3 DEF Expire
  <2>2. cli.at \in {"sent", "served"} /\ UNCHANGED <<near, reg, conn, out>>
    BY <1>3 DEF Expire
  <2>3. /\ DOMAIN cli' = {"op", "at", "frame", "truth"} /\ cli'.at = "answered" /\ cli'.op = cli.op
        /\ cli'.frame.magic = "none" /\ cli'.frame.status = status
    BY <2>1 DEF Failed, CallInv
  <2> QED BY <2>2, <2>3 DEF CallInv, Connected, AnswersTrue, Answer
<1>4. CASE ReadAnswer
  <2>1. /\ cli.at = "answered" /\ cli.op \in {"ping", "call_op"}
        /\ Status = cli.frame.status /\ Answer(Status, cli.truth)
    BY <1>4, FrameStatus DEF ReadAnswer, CallInv
  <2>2. ping(Status) = "value" => Status = "OK"
    BY DEF ping
  <2>3. ping(Status) = "EndpointNotFoundError" => Status = "NOT_FOUND"
    BY DEF ping
  <2>4. _call_op(Status) = "value" => Status = "OK"
    BY DEF _call_op
  <2>5. _call_op(Status) = "EndpointNotFoundError" => Status = "NOT_FOUND"
    BY DEF _call_op
  <2>6. /\ out'.call = cli.op /\ out'.truth = cli.truth
        /\ out'.what = IF cli.op = "ping" THEN ping(Status) ELSE _call_op(Status)
        /\ cli' = NoCall /\ UNCHANGED <<near, reg, conn>>
    BY <1>4 DEF ReadAnswer, Finish
  <2>7. AnswersTrue'
    BY <2>1, <2>2, <2>3, <2>4, <2>5, <2>6 DEF AnswersTrue, Answer
  <2>8. CallInv'
    BY <2>6 DEF CallInv, Connected, NoCall
  <2> QED BY <2>7, <2>8
<1> QED BY <1>1, <1>2, <1>3, <1>4 DEF Listener

\* Every step of the package keeps the invariant of the endpoints.
LEMMA EndpointStep == EndpointInv /\ [Next]_pyVars => EndpointInv'
<1> SUFFICES ASSUME EndpointInv, [Next]_pyVars PROVE EndpointInv'
  OBVIOUS
<1>1. CASE UNCHANGED epVars
  BY <1>1 DEF EndpointInv, PeerInv, CallInv, AnswersTrue, Connected, Live, epVars
<1>2. CASE PeerStep
  <2>1. PeerInv' /\ CallInv'
    BY <1>2, PeerKeeps, PeerCall DEF EndpointInv
  <2>2. UNCHANGED <<near, out>>
    BY <1>2 DEF PeerStep, OpenEndpoint, CloseEndpoint, Shutdown, RuntimeUp, RuntimeDown, PeerReplaced
  <2> QED BY <2>1, <2>2 DEF EndpointInv, AnswersTrue
<1>3. CASE ClientStep \/ Listener
  <2>1. UNCHANGED <<near, reg, wired, lst, rc, epFaults>>
    BY <1>3 DEF ClientStep, Connect, Ping, CallOp, Sent, CloseConnection, Listener, Serve, Respond,
                Expire, ReadAnswer
  <2>2. PeerInv'
    BY <2>1 DEF EndpointInv, PeerInv, Live
  <2> QED BY <1>3, <2>2, ClientCall, ListenerCall DEF EndpointInv
<1> QED BY <1>1, <1>2, <1>3 DEF Next, FacadeNext, Lanes_, Returns_, EndpointNext, Listener_,
                               OwnerNext, BridgeNext, pyVars, epVars

\* No endpoint yet, and nobody connected.
LEMMA InitEndpoint == PyInit => EndpointInv
<1> SUFFICES ASSUME PyInit PROVE EndpointInv
  OBVIOUS
<1>1. EpInit
  BY DEF PyInit
<1>2. Live \cap wired = {} /\ Cardinality({}) = 0
  BY <1>1, FS_EmptySet DEF EpInit, Live
<1>3. PeerInv
  BY <1>1, <1>2 DEF EpInit, PeerInv
<1>4. CallInv
  BY <1>1 DEF EpInit, CallInv, NoConn, NoCall
<1>5. AnswersTrue
  BY <1>1 DEF EpInit, AnswersTrue, Nothing
<1> QED BY <1>3, <1>4, <1>5 DEF EndpointInv

\* The inductive invariant of the endpoints, their listener and the client.
THEOREM EndpointInvariant == Spec => []EndpointInv
BY InitEndpoint, EndpointStep, PTL DEF Spec

\* The listener runs exactly while some endpoint holds a share of it, unless
\* its thread could not be created (endpoint_transport_acquire()/release()).
THEOREM PackageListener == Spec => []ListenerFollows
<1>1. EndpointInv => ListenerFollows
  BY DEF EndpointInv, PeerInv, ListenerFollows
<1> QED BY <1>1, EndpointInvariant, PTL

\* A client never takes one endpoint's answer for another's or a dead one's
\* (the registry lookup by the id in the frame, serve_ping, serve_call_op).
THEOREM PackageAnswers == Spec => []AnswersTrue
BY EndpointInvariant, PTL DEF EndpointInv

-----------------------------------------------------------------------------
(* The facades.                                                             *)

FutureRows ==
    [lane : Lanes, st : {"none", "queued", "active", "done"},
     op : {"none", "single", "chunked", "boom"}, token : BOOLEAN, asked : BOOLEAN, late : BOOLEAN,
     bad : BOOLEAN, status : {"none", "completed", "failed", "cancelled"}, retired : BOOLEAN]

FacadeType ==
    /\ kind \in Facades \cup {"endpoint", "owner", "bridge"}
    /\ closed \in BOOLEAN /\ actor \in {"none", "live", "released"}
    /\ queue \in [Lanes -> Seq(Futures)]
    /\ active \in [Lanes -> Futures \cup {NoFuture}]
    /\ fut \in [Futures -> FutureRows]

\* Futures are made in order of their numbers.
Numbered == \E k \in 0..MaxFutures : Made = 1..k

\* A future that is queued or in service is in its own lane, once.
Placed ==
    /\ \A l \in Lanes : \A i \in 1..Len(queue[l]) :
         fut[queue[l][i]].st = "queued" /\ fut[queue[l][i]].lane = l
    /\ \A l \in Lanes : \A i, j \in 1..Len(queue[l]) : queue[l][i] = queue[l][j] => i = j
    /\ \A f \in Futures : fut[f].st = "queued" =>
         \E i \in 1..Len(queue[fut[f].lane]) : queue[fut[f].lane][i] = f
    /\ \A l \in Lanes : active[l] # NoFuture => /\ fut[active[l]].st = "active"
                                                /\ fut[active[l]].lane = l
    /\ \A f \in Futures : fut[f].st = "active" => active[fut[f].lane] = f

\* Only a request with a token is ever asked to stop, and in service only a
\* chunked one; what its row says is settled by that.
Asked ==
    \A f \in Futures :
        /\ ~fut[f].bad
        /\ fut[f].asked => fut[f].token
        /\ fut[f].asked /\ fut[f].st = "active" => fut[f].op = "chunked"
        /\ Settled(f) => /\ fut[f].status = "cancelled" <=> fut[f].asked
                         /\ fut[f].status = "failed" => fut[f].op = "boom"

\* The two teardowns: who may still have work in the lanes.
TornDown ==
    /\ drv.call = "shutdown" => closed
    /\ drv.call = "release" => actor = "live"
    /\ closed /\ drv.call # "shutdown" =>
         \A f \in Futures : fut[f].st # "none" => Settled(f)
    /\ actor = "released" =>
         \A f \in Futures : fut[f].st # "none" /\ fut[f].lane = Actor => Settled(f)

\* The inputs of the generator are those in flight, those ready and those
\* yielded, and no future is two of these.
Generated ==
    /\ DOMAIN gen = {"state", "inputs", "inflight", "ready", "out"}
    /\ gen.out \in Seq(Futures) /\ gen.inputs \subseteq Futures
    /\ gen.inflight \subseteq gen.inputs /\ gen.ready \subseteq gen.inputs
    /\ \A f \in gen.inputs : \/ f \in gen.inflight \/ f \in gen.ready
                             \/ \E i \in DOMAIN gen.out : gen.out[i] = f
    /\ \A f \in gen.ready : Settled(f) /\ f \notin gen.inflight
    /\ \A i \in DOMAIN gen.out :
         /\ gen.out[i] \in gen.inputs /\ gen.out[i] \notin gen.inflight
         /\ gen.out[i] \notin gen.ready /\ Settled(gen.out[i])
    /\ \A i, j \in DOMAIN gen.out : gen.out[i] = gen.out[j] => i = j
    /\ gen.state = "done" => gen.inflight = {} /\ gen.ready = {}
    /\ drv.call = "gen" => gen.state = "live" /\ gen.ready = {} /\ drv.on = gen.inflight

FacadeInv == FacadeType /\ Numbered /\ Placed /\ Asked /\ TornDown /\ Generated

\* Futures are numbered from 1, so that 0 is none of them.
LEMMA FutureNumbers == NoFuture \notin Futures /\ Futures \subseteq Nat /\ MaxFutures \in Nat \ {0}
BY FacadeBounds DEF NoFuture, Futures

-----------------------------------------------------------------------------
\* A sequence of checks that passes has no first check that fails.
LEMMA NoFirstFailure ==
  ASSUME NEW s, FirstError(s) = "ok"
  PROVE  \A k \in DOMAIN s : s[k] = "ok" \/ \E j \in 1..(k - 1) : s[j] # "ok"
<1> SUFFICES ASSUME NEW k \in DOMAIN s, s[k] # "ok", \A j \in 1..(k - 1) : s[j] = "ok" PROVE FALSE
  OBVIOUS
<1> DEFINE i == CHOOSE i \in DOMAIN s : s[i] # "ok" /\ \A j \in 1..(i - 1) : s[j] = "ok"
<1>1. s[i] # "ok"
  OBVIOUS
<1>2. FirstError(s) = s[i]
  BY DEF FirstError
<1> QED BY <1>1, <1>2

\* One check passes when it does; below, two and three.
LEMMA OnePasses ==
  ASSUME NEW a, FirstError(<<a>>) = "ok"
  PROVE  a = "ok"
<1>1. \A k \in DOMAIN <<a>> : <<a>>[k] = "ok" \/ \E j \in 1..(k - 1) : <<a>>[j] # "ok"
  BY NoFirstFailure
<1> QED BY <1>1

\* Two checks.
LEMMA TwoPass ==
  ASSUME NEW a, NEW b, FirstError(<<a, b>>) = "ok"
  PROVE  a = "ok" /\ b = "ok"
<1>1. \A k \in DOMAIN <<a, b>> :
        <<a, b>>[k] = "ok" \/ \E j \in 1..(k - 1) : <<a, b>>[j] # "ok"
  BY NoFirstFailure
<1> QED BY <1>1

\* Three checks.
LEMMA ThreePass ==
  ASSUME NEW a, NEW b, NEW c, FirstError(<<a, b, c>>) = "ok"
  PROVE  a = "ok" /\ b = "ok" /\ c = "ok"
<1>1. \A k \in DOMAIN <<a, b, c>> :
        <<a, b, c>>[k] = "ok" \/ \E j \in 1..(k - 1) : <<a, b, c>>[j] # "ok"
  BY NoFirstFailure
<1>2. a = "ok" /\ b = "ok"
  BY <1>1
<1> QED BY <1>1, <1>2

\* Within() and Require() let through what lies between the bounds and what holds.
LEMMA WithinPasses ==
  ASSUME NEW v, NEW lo, NEW hi, Within(v, lo, hi) = "ok"
  PROVE  v >= lo /\ v <= hi
BY DEF Within, Require

\* The facade's checks leave the native body nothing to refuse
\* (validate_call() in _validate.py, the preconditions in runtime_ops.hpp).
LEMMA ValidatedIsAccepted ==
  ASSUME NEW op_id, NEW args, validate_call(op_id, args) = "ok"
  PROVE  NativeAccepts(op_id, [i \in DOMAIN args |-> ValueOf(args[i])])
<1> DEFINE v == [i \in DOMAIN args |-> ValueOf(args[i])]
<1>1. FirstError(OpRanges(op_id, v)) = "ok"
  BY DEF validate_call
<1> HIDE DEF v
<1>2. ASSUME op_id = "fanout_sum"
      PROVE  v[1] >= 0 /\ v[2] >= 1 /\ v[2] <= 1024
  <2>1. FirstError(<<Require(v[1] >= 0, "ValueError"), Within(v[2], 1, PARTS_MAX)>>) = "ok"
    BY <1>1, <1>2 DEF OpRanges
  <2>2. Require(v[1] >= 0, "ValueError") = "ok" /\ Within(v[2], 1, PARTS_MAX) = "ok"
    BY <2>1, TwoPass
  <2> QED BY <2>2, WithinPasses DEF PARTS_MAX, Require
<1>3. ASSUME op_id = "park_ms"
      PROVE  v[1] >= 0 /\ v[1] <= 60000
  <2>1. FirstError(<<Within(v[1], 0, PARK_MS_MAX)>>) = "ok"
    BY <1>1, <1>3 DEF OpRanges
  <2>2. Within(v[1], 0, PARK_MS_MAX) = "ok"
    BY <2>1, OnePasses
  <2> QED BY <2>2, WithinPasses DEF PARK_MS_MAX
<1>4. ASSUME op_id \in {"chain_sum_loop", "chain_sum_then"}
      PROVE  v[2] >= 0 /\ v[2] <= 10000 /\ v[3] >= 0 /\ v[3] <= 100000
  <2>1. FirstError(<<Within(v[2], 0, CHAIN_STEPS_MAX), Within(v[3], 0, CHAIN_QUANTUM_MAX)>>) = "ok"
    BY <1>1, <1>4 DEF OpRanges
  <2>2. /\ Within(v[2], 0, CHAIN_STEPS_MAX) = "ok"
        /\ Within(v[3], 0, CHAIN_QUANTUM_MAX) = "ok"
    BY <2>1, TwoPass
  <2> QED BY <2>2, WithinPasses DEF CHAIN_STEPS_MAX, CHAIN_QUANTUM_MAX
<1>5. ASSUME op_id = "chain_fanout"
      PROVE  /\ v[2] >= 1 /\ v[2] <= 256 /\ v[3] >= 0 /\ v[3] <= 10000
             /\ v[4] >= 0 /\ v[4] <= 100000
  <2>1. FirstError(<<Within(v[2], 1, CHAIN_FANOUT_K_MAX), Within(v[3], 0, CHAIN_STEPS_MAX),
                     Within(v[4], 0, CHAIN_QUANTUM_MAX)>>) = "ok"
    BY <1>1, <1>5 DEF OpRanges
  <2>2. /\ Within(v[2], 1, CHAIN_FANOUT_K_MAX) = "ok"
        /\ Within(v[3], 0, CHAIN_STEPS_MAX) = "ok"
        /\ Within(v[4], 0, CHAIN_QUANTUM_MAX) = "ok"
    BY <2>1, ThreePass
  <2> QED BY <2>2, WithinPasses DEF CHAIN_FANOUT_K_MAX, CHAIN_STEPS_MAX, CHAIN_QUANTUM_MAX
<1>6. ASSUME op_id = "barrier_fanin"
      PROVE  v[2] >= 1 /\ v[2] <= 64 /\ v[3] >= 0 /\ v[3] <= 100000
  <2>1. FirstError(<<Within(v[2], 1, FANIN_LEAVES_MAX), Within(v[3], 0, CHAIN_QUANTUM_MAX)>>) = "ok"
    BY <1>1, <1>6 DEF OpRanges
  <2>2. /\ Within(v[2], 1, FANIN_LEAVES_MAX) = "ok"
        /\ Within(v[3], 0, CHAIN_QUANTUM_MAX) = "ok"
    BY <2>1, TwoPass
  <2> QED BY <2>2, WithinPasses DEF FANIN_LEAVES_MAX, CHAIN_QUANTUM_MAX
<1>7. ASSUME op_id = "diamond_fanin"
      PROVE  v[2] >= 0 /\ v[2] <= 100000
  <2>1. FirstError(<<Within(v[2], 0, CHAIN_QUANTUM_MAX)>>) = "ok"
    BY <1>1, <1>7 DEF OpRanges
  <2>2. Within(v[2], 0, CHAIN_QUANTUM_MAX) = "ok"
    BY <2>1, OnePasses
  <2> QED BY <2>2, WithinPasses DEF CHAIN_QUANTUM_MAX
<1>8. ASSUME op_id = "overlap_probe"
      PROVE  v[2] >= 0 /\ v[2] <= 100000 /\ v[3] \in {0, 1}
  <2>1. FirstError(<<Within(v[2], 0, CHAIN_QUANTUM_MAX), Require(v[3] \in {0, 1}, "ValueError")>>) = "ok"
    BY <1>1, <1>8 DEF OpRanges
  <2>2. /\ Within(v[2], 0, CHAIN_QUANTUM_MAX) = "ok"
        /\ Require(v[3] \in {0, 1}, "ValueError") = "ok"
    BY <2>1, TwoPass
  <2> QED BY <2>2, WithinPasses DEF CHAIN_QUANTUM_MAX, Require
<1> QED BY <1>2, <1>3, <1>4, <1>5, <1>6, <1>7, <1>8 DEF NativeAccepts, v

-----------------------------------------------------------------------------
\* A queue has a length.
LEMMA LaneLength == FacadeType => \A l \in Lanes : Len(queue[l]) \in Nat
BY DEF FacadeType

\* A step that leaves the lanes alone, makes no future and settles none.
FlagsOnly ==
    /\ UNCHANGED <<kind, cap, queue, active>>
    /\ fut' \in [Futures -> FutureRows]
    /\ \A f \in Futures : /\ fut'[f].lane = fut[f].lane /\ fut'[f].st = fut[f].st
                          /\ fut'[f].op = fut[f].op /\ fut'[f].token = fut[f].token
                          /\ fut'[f].bad = fut[f].bad /\ fut'[f].status = fut[f].status
                          /\ fut'[f].asked = fut[f].asked \/ (fut'[f].asked /\ Cancellable(f))

\* Such a step keeps the futures' places and rows.
LEMMA FlagsKeep ==
  ASSUME FacadeType, Numbered, Placed, Asked, FlagsOnly
  PROVE  Numbered' /\ Placed' /\ Asked' /\ \A f \in Futures : Settled(f)' <=> Settled(f)
<1>1. Made' = Made
  BY DEF Made, FlagsOnly
<1>2. Numbered'
  BY <1>1 DEF Numbered
<1>3. ASSUME NEW l \in Lanes, NEW i \in 1..Len(queue[l])
      PROVE  queue[l][i] \in Futures
  BY <1>3 DEF FacadeType
<1>4. Placed'
  <2>1. /\ \A l \in Lanes : \A i \in 1..Len(queue'[l]) :
             fut'[queue'[l][i]].st = "queued" /\ fut'[queue'[l][i]].lane = l
        /\ \A l \in Lanes : \A i, j \in 1..Len(queue'[l]) : queue'[l][i] = queue'[l][j] => i = j
    BY <1>3 DEF Placed, FlagsOnly
  <2>2. \A f \in Futures : fut'[f].st = "queued" =>
          \E i \in 1..Len(queue'[fut'[f].lane]) : queue'[fut'[f].lane][i] = f
    BY DEF Placed, FlagsOnly
  <2>3. /\ \A l \in Lanes : active'[l] # NoFuture => /\ fut'[active'[l]].st = "active"
                                                     /\ fut'[active'[l]].lane = l
        /\ \A f \in Futures : fut'[f].st = "active" => active'[fut'[f].lane] = f
    <3>1. \A l \in Lanes : active[l] \in Futures \cup {NoFuture}
      BY DEF FacadeType
    <3> QED BY <3>1 DEF Placed, FlagsOnly
  <2> QED BY <2>1, <2>2, <2>3 DEF Placed
<1>5. Asked'
  BY DEF Asked, FlagsOnly, Cancellable, Settled
<1>6. \A f \in Futures : Settled(f)' <=> Settled(f)
  BY DEF Settled, FlagsOnly
<1> QED BY <1>2, <1>4, <1>5, <1>6

\* The futures made next are the next numbers.
LEMMA NextNumber ==
  ASSUME FacadeType, Numbered, Free # {}
  PROVE  /\ NextFuture \in Futures /\ fut[NextFuture].st = "none"
         /\ Made = 1..(NextFuture - 1)
         /\ Cardinality(Free) >= 2 => NextFuture + 1 \in Futures /\ fut[NextFuture + 1].st = "none"
<1>1. PICK k \in 0..MaxFutures : Made = 1..k
  BY DEF Numbered
<1>2. k \in Nat /\ k < MaxFutures /\ Free = (k + 1)..MaxFutures
  BY <1>1, FutureNumbers DEF Free, Futures
<1>3. k + 1 \in Free /\ \A g \in Free : k + 1 <= g
  BY <1>2, FutureNumbers
<1>4. NextFuture = k + 1
  <2>1. NextFuture \in Free /\ \A g \in Free : NextFuture <= g
    BY <1>3 DEF NextFuture
  <2> QED BY <1>2, <1>3, <2>1, FutureNumbers
<1>5. \A f \in Free : f \in Futures /\ fut[f].st = "none"
  BY DEF Free, Made
<1>6. ASSUME Cardinality(Free) >= 2 PROVE k + 2 \in Free
  <2>1. CASE MaxFutures = k + 1
    <3>1. Free = {k + 1}
      BY <1>2, <2>1
    <3>2. Cardinality(Free) = 1
      BY <3>1, FS_Singleton
    <3> QED BY <1>6, <3>2
  <2> QED BY <1>2, <2>1, FutureNumbers
<1> QED BY <1>1, <1>2, <1>3, <1>4, <1>5, <1>6

\* A call that admits the next n futures to a lane, at the end of its queue.
Admits(l, n) ==
    LET f == NextFuture IN
    /\ UNCHANGED <<kind, cap, closed, actor, active>>
    /\ f + n - 1 \in Futures
    /\ queue' \in [Lanes -> Seq(Futures)] /\ fut' \in [Futures -> FutureRows]
    /\ \A m \in Lanes : m # l => queue'[m] = queue[m]
    /\ Len(queue'[l]) = Len(queue[l]) + n
    /\ \A i \in 1..(Len(queue[l]) + n) :
         queue'[l][i] = IF i <= Len(queue[l]) THEN queue[l][i] ELSE f + (i - Len(queue[l])) - 1
    /\ \A g \in Futures :
         IF f <= g /\ g < f + n
         THEN /\ fut[g].st = "none" /\ fut'[g].lane = l /\ fut'[g].st = "queued"
              /\ ~fut'[g].bad /\ ~fut'[g].asked
         ELSE fut'[g] = fut[g]

\* Admission keeps every part of the invariant that speaks of futures.
LEMMA AdmitsKeep ==
  ASSUME FacadeType, Numbered, Placed, Asked, Free # {}, NEW l \in Lanes, NEW n \in {1, 2},
         Admits(l, n)
  PROVE  /\ FacadeType' /\ Numbered' /\ Placed' /\ Asked'
         /\ \A g \in Futures : Settled(g)' <=> Settled(g)
         /\ \A g \in Futures : fut'[g] = fut[g] \/ (fut[g].st = "none" /\ fut'[g].lane = l)
<1> DEFINE f == NextFuture
           new(g) == f <= g /\ g < f + n
           len == Len(queue[l])
<1>1. f \in Futures /\ f \in Nat /\ Futures \subseteq Nat /\ Made = 1..(f - 1)
  BY NextNumber, FutureNumbers
<1>2. /\ f + n - 1 \in Futures
      /\ \A m \in Lanes : m # l => queue'[m] = queue[m]
      /\ Len(queue'[l]) = len + n
      /\ \A i \in 1..(len + n) :
           queue'[l][i] = IF i <= len THEN queue[l][i] ELSE f + (i - len) - 1
      /\ UNCHANGED active
  BY DEF Admits
<1>3. /\ \A g \in Futures : ~new(g) => fut'[g] = fut[g]
      /\ \A g \in Futures : new(g) => /\ fut'[g].lane = l /\ fut'[g].st = "queued"
                                      /\ ~fut'[g].bad /\ ~fut'[g].asked /\ fut[g].st = "none"
  BY DEF Admits
<1>4. FacadeType'
  BY DEF Admits, FacadeType
<1>5. \A m \in Lanes : Len(queue[m]) \in Nat
  BY LaneLength
<1> HIDE DEF f
<1>6. Numbered'
  <2>1. Made' = Made \cup {g \in Futures : new(g)}
    BY <1>3 DEF Made
  <2>2. f + n - 1 \in 0..MaxFutures /\ Made' = 1..(f + n - 1)
    BY <1>1, <1>2, <2>1, FutureNumbers DEF Futures
  <2> QED BY <2>2 DEF Numbered
<1>7. ASSUME NEW m \in Lanes, NEW i \in 1..Len(queue[m])
      PROVE  queue[m][i] \in Futures /\ ~new(queue[m][i]) /\ fut'[queue[m][i]] = fut[queue[m][i]]
  <2>1. queue[m][i] \in Futures /\ fut[queue[m][i]].st = "queued"
    BY <1>7 DEF FacadeType, Placed
  <2> QED BY <1>3, <2>1
<1>8. ASSUME NEW m \in Lanes, NEW i \in 1..Len(queue'[m])
      PROVE  \/ i \in 1..Len(queue[m]) /\ queue'[m][i] = queue[m][i]
             \/ /\ m = l /\ i \in (len + 1)..(len + n) /\ queue'[m][i] = f + (i - len) - 1
                /\ queue'[m][i] \in Futures /\ new(queue'[m][i])
  <2>1. CASE m # l
    BY <1>2, <1>8, <2>1
  <2>2. CASE m = l
    <3>1. i \in 1..(len + n)
      BY <1>2, <1>8, <2>2
    <3>2. CASE i <= len
      BY <1>2, <1>5, <2>2, <3>1, <3>2
    <3>3. CASE i > len
      <4>1. i \in (len + 1)..(len + n) /\ queue'[m][i] = f + (i - len) - 1
        BY <1>2, <1>5, <2>2, <3>1, <3>3
      <4>2. f + (i - len) - 1 \in Futures /\ new(f + (i - len) - 1)
        <5>1. /\ f \in Nat /\ f >= 1 /\ len \in Nat /\ i \in Int /\ f + n - 1 <= MaxFutures
              /\ MaxFutures \in Nat
          BY <1>1, <1>2, <1>5, <4>1, FutureNumbers DEF Futures
        <5> HIDE DEF len
        <5>2. /\ f + (i - len) - 1 \in 1..MaxFutures
              /\ f <= f + (i - len) - 1 /\ f + (i - len) - 1 < f + n
          BY <4>1, <5>1, SMTT(30)
        <5> QED BY <5>2 DEF Futures
      <4> QED BY <2>2, <4>1, <4>2
    <3> QED BY <1>5, <3>1, <3>2, <3>3
  <2> QED BY <2>1, <2>2
<1>9. ASSUME NEW m \in Lanes, NEW i \in 1..Len(queue'[m])
      PROVE  fut'[queue'[m][i]].st = "queued" /\ fut'[queue'[m][i]].lane = m
  <2>1. CASE i \in 1..Len(queue[m]) /\ queue'[m][i] = queue[m][i]
    BY <1>7, <2>1 DEF Placed
  <2>2. CASE m = l /\ queue'[m][i] \in Futures /\ new(queue'[m][i])
    BY <1>3, <2>2
  <2> QED BY <1>8, <2>1, <2>2
<1>10. ASSUME NEW m \in Lanes, NEW i \in 1..Len(queue'[m]), NEW j \in 1..Len(queue'[m]),
              queue'[m][i] = queue'[m][j]
       PROVE  i = j
  <2>1. CASE ~new(queue'[m][i])
    <3>1. /\ i \in 1..Len(queue[m]) /\ queue'[m][i] = queue[m][i]
          /\ j \in 1..Len(queue[m]) /\ queue'[m][j] = queue[m][j]
      BY <1>8, <1>10, <2>1
    <3>2. \A p, q \in 1..Len(queue[m]) : queue[m][p] = queue[m][q] => p = q
      BY DEF Placed
    <3> QED BY <1>10, <3>1, <3>2
  <2>2. CASE new(queue'[m][i])
    <3>1. /\ i \in (len + 1)..(len + n) /\ queue'[m][i] = f + (i - len) - 1
          /\ j \in (len + 1)..(len + n) /\ queue'[m][j] = f + (j - len) - 1
      <4>1. \A p \in 1..Len(queue'[m]) : new(queue'[m][p]) =>
              ~(p \in 1..Len(queue[m]) /\ queue'[m][p] = queue[m][p])
        BY <1>7
      <4>2. new(queue'[m][j])
        BY <1>10, <2>2
      <4> QED BY <1>8, <2>2, <4>1, <4>2
    <3>2. f + (i - len) - 1 = f + (j - len) - 1
      BY <1>10, <3>1
    <3>3. i \in Int /\ j \in Int /\ len \in Nat
      BY <1>5, <3>1
    <3> QED BY <1>1, <3>2, <3>3
  <2> QED BY <2>1, <2>2
<1>11. ASSUME NEW g \in Futures, fut'[g].st = "queued"
       PROVE  \E i \in 1..Len(queue'[fut'[g].lane]) : queue'[fut'[g].lane][i] = g
  <2>1. CASE new(g)
    <3> DEFINE i == len + (g - f + 1)
    <3>1. /\ fut'[g].lane = l /\ i \in 1..(len + n) /\ i > len /\ f + (i - len) - 1 = g
      <4>1. fut'[g].lane = l
        BY <1>3, <2>1
      <4>2. len \in Nat /\ f \in Nat /\ g \in Nat
        BY <1>1, <1>5
      <4>3. f <= g /\ g < f + n
        BY <2>1
      <4> HIDE DEF len
      <4> QED BY <4>1, <4>2, <4>3
    <3> HIDE DEF i
    <3>2. queue'[l][i] = g /\ i \in 1..Len(queue'[l])
      BY <1>2, <1>5, <3>1
    <3> QED BY <3>1, <3>2
  <2>2. CASE ~new(g)
    <3>1. fut'[g] = fut[g] /\ fut[g].lane \in Lanes
      BY <1>3, <2>2 DEF FacadeType, FutureRows
    <3>2. PICK i \in 1..Len(queue[fut[g].lane]) : queue[fut[g].lane][i] = g
      BY <1>11, <3>1 DEF Placed
    <3>3. CASE fut[g].lane = l
      <4>1. i \in 1..len /\ i \in 1..(len + n) /\ i <= len
        BY <1>5, <3>2, <3>3
      <4> QED BY <1>2, <3>1, <3>2, <3>3, <4>1
    <3>4. CASE fut[g].lane # l
      BY <1>2, <3>1, <3>2, <3>4
    <3> QED BY <3>3, <3>4
  <2> QED BY <2>1, <2>2
<1>12. \A m \in Lanes : active'[m] # NoFuture => /\ fut'[active'[m]].st = "active"
                                                 /\ fut'[active'[m]].lane = m
  <2>1. \A m \in Lanes : active[m] \in Futures \cup {NoFuture}
    BY DEF FacadeType
  <2> QED BY <1>2, <1>3, <2>1 DEF Placed
<1>13. \A g \in Futures : fut'[g].st = "active" => active'[fut'[g].lane] = g
  BY <1>2, <1>3 DEF Placed
<1>14. Placed'
  BY <1>9, <1>10, <1>11, <1>12, <1>13 DEF Placed
<1>15. Asked'
  BY <1>3 DEF Asked, Settled
<1>16. \A g \in Futures : Settled(g)' <=> Settled(g)
  BY <1>3 DEF Settled
<1>17. \A g \in Futures : fut'[g] = fut[g] \/ (fut[g].st = "none" /\ fut'[g].lane = l)
  BY <1>3
<1> QED BY <1>4, <1>6, <1>14, <1>15, <1>16, <1>17

\* What a queue holds after one append, and after two.
LEMMA Appended ==
  ASSUME NEW S, NEW s \in Seq(S), NEW a \in S
  PROVE  /\ Append(s, a) \in Seq(S) /\ Len(Append(s, a)) = Len(s) + 1
         /\ \A i \in 1..(Len(s) + 1) : Append(s, a)[i] = IF i <= Len(s) THEN s[i] ELSE a
OBVIOUS

\* Two appends at once, as submit_batch does.
LEMMA AppendedTwo ==
  ASSUME NEW S, NEW s \in Seq(S), NEW a \in S, NEW b \in S
  PROVE  /\ s \o <<a, b>> \in Seq(S) /\ Len(s \o <<a, b>>) = Len(s) + 2
         /\ \A i \in 1..(Len(s) + 2) :
              (s \o <<a, b>>)[i] = IF i <= Len(s) THEN s[i] ELSE IF i = Len(s) + 1 THEN a ELSE b
OBVIOUS

\* One request is admitted to the lane it names.
LEMMA EnqueueAdmits ==
  ASSUME FacadeType, Numbered, Free # {}, NEW l \in Lanes,
         NEW o \in {"single", "chunked", "boom"}, Enqueue(l, o, TRUE, FALSE),
         UNCHANGED <<kind, cap, closed, actor, active>>
  PROVE  Admits(l, 1)
<1> DEFINE f == NextFuture
           row == [lane |-> l, st |-> "queued", op |-> o, token |-> TRUE, asked |-> FALSE,
                   late |-> FALSE, bad |-> FALSE, status |-> "none", retired |-> FALSE]
<1>1. f \in Futures /\ fut[f].st = "none" /\ f \in Nat
  BY NextNumber, FutureNumbers
<1>2. /\ queue' = [queue EXCEPT ![l] = Append(queue[l], f)]
      /\ fut' = [fut EXCEPT ![f] = [NewFuture EXCEPT !.lane = l, !.st = "queued", !.op = o,
                                                     !.token = TRUE, !.bad = FALSE]]
  BY DEF Enqueue
<1> HIDE DEF f
<1>3. queue[l] \in Seq(Futures) /\ Len(queue[l]) \in Nat
  BY DEF FacadeType
<1>4. /\ queue' \in [Lanes -> Seq(Futures)] /\ queue'[l] = Append(queue[l], f)
      /\ \A m \in Lanes : m # l => queue'[m] = queue[m]
  BY <1>1, <1>2, <1>3 DEF FacadeType
<1>5. /\ Len(queue'[l]) = Len(queue[l]) + 1
      /\ \A i \in 1..(Len(queue[l]) + 1) :
           queue'[l][i] = IF i <= Len(queue[l]) THEN queue[l][i] ELSE f + (i - Len(queue[l])) - 1
  <2> HIDE DEF row
  <2> DEFINE k == Len(queue[l])
  <2>1. f \in Nat /\ k \in Nat
    BY <1>1, <1>3
  <2>2. \A i \in 1..(k + 1) : i > k => f + (i - k) - 1 = f
    <3> HIDE DEF k
    <3> QED BY <2>1
  <2>3. /\ Len(Append(queue[l], f)) = k + 1
        /\ \A i \in 1..(k + 1) : Append(queue[l], f)[i] = IF i <= k THEN queue[l][i] ELSE f
    BY <1>1, <1>3, Appended
  <2>4. k \in Nat
    BY <2>1
  <2> HIDE DEF k
  <2>5. \A i \in 1..(k + 1) : i <= k \/ i > k
    BY <2>4
  <2>6. \A i \in 1..(k + 1) :
          Append(queue[l], f)[i] = IF i <= k THEN queue[l][i] ELSE f + (i - k) - 1
    BY <2>2, <2>3, <2>5
  <2> QED BY <1>4, <2>3, <2>6 DEF k
<1>6. row \in FutureRows
  BY DEF FutureRows
<1>7. /\ fut' \in [Futures -> FutureRows]
      /\ \A g \in Futures : fut'[g] = IF g = f THEN row ELSE fut[g]
  <2>1. fut'[f] = row /\ \A g \in Futures : g # f => fut'[g] = fut[g]
    BY <1>1, <1>2 DEF FacadeType, NewFuture
  <2> HIDE DEF row
  <2> QED BY <1>1, <1>2, <1>6, <2>1 DEF FacadeType
<1>8. /\ \A g \in Futures : f <= g /\ g < f + 1 <=> g = f
      /\ f + 1 - 1 = f
  <2>1. f \in Nat
    BY <1>1
  <2>2. Futures \subseteq Nat
    BY FutureNumbers
  <2> HIDE DEF row
  <2>3. f + 1 - 1 = f
    BY <2>1
  <2>4. ASSUME NEW g \in Futures PROVE f <= g /\ g < f + 1 <=> g = f
    BY <2>1, <2>2
  <2> QED BY <2>3, <2>4
<1>9. \A g \in Futures :
         IF f <= g /\ g < f + 1
         THEN /\ fut[g].st = "none" /\ fut'[g].lane = l /\ fut'[g].st = "queued"
              /\ ~fut'[g].bad /\ ~fut'[g].asked
         ELSE fut'[g] = fut[g]
  <2> SUFFICES ASSUME NEW g \in Futures
               PROVE  IF g = f
                      THEN /\ fut[g].st = "none" /\ fut'[g].lane = l /\ fut'[g].st = "queued"
                           /\ ~fut'[g].bad /\ ~fut'[g].asked
                      ELSE fut'[g] = fut[g]
    BY <1>8
  <2> QED BY <1>1, <1>7
<1> QED BY <1>1, <1>4, <1>5, <1>7, <1>8, <1>9 DEF Admits, f

\* A batch of two is admitted whole.
LEMMA BatchAdmits ==
  ASSUME FacadeType, Numbered, SubmitBatch
  PROVE  Free # {} /\ Admits("op", 2)
<1> DEFINE f == NextFuture
           row == [lane |-> "op", st |-> "queued", op |-> "single", token |-> FALSE, asked |-> FALSE,
                   late |-> FALSE, bad |-> FALSE, status |-> "none", retired |-> FALSE]
           q == queue["op"]
<1>0. Free # {} /\ Cardinality(Free) >= 2
  <2>1. Cardinality(Free) >= 2
    BY DEF SubmitBatch
  <2>2. Cardinality({}) = 0
    BY FS_EmptySet
  <2> QED BY <2>1, <2>2
<1>1. /\ f \in Futures /\ fut[f].st = "none" /\ f \in Nat
      /\ f + 1 \in Futures /\ fut[f + 1].st = "none"
  BY <1>0, NextNumber, FutureNumbers
<1>2. /\ queue' = [queue EXCEPT !["op"] = q \o <<f, f + 1>>]
      /\ fut' = [g \in Futures |-> IF g \in {f, f + 1}
                                   THEN [NewFuture EXCEPT !.st = "queued", !.op = "single"]
                                   ELSE fut[g]]
      /\ UNCHANGED <<kind, cap, closed, actor, active>>
  BY DEF SubmitBatch
<1> HIDE DEF f
<1>3. "op" \in Lanes /\ q \in Seq(Futures) /\ Len(q) \in Nat
  BY DEF Lanes, FacadeType
<1>4. /\ queue' \in [Lanes -> Seq(Futures)] /\ queue'["op"] = q \o <<f, f + 1>>
      /\ \A m \in Lanes : m # "op" => queue'[m] = queue[m]
  BY <1>1, <1>2, <1>3 DEF FacadeType
<1>5. /\ Len(queue'["op"]) = Len(q) + 2
      /\ \A i \in 1..(Len(q) + 2) :
           queue'["op"][i] = IF i <= Len(q) THEN q[i] ELSE f + (i - Len(q)) - 1
  <2>1. \A i \in 1..(Len(q) + 2) : i > Len(q) =>
          IF i = Len(q) + 1 THEN f + (i - Len(q)) - 1 = f ELSE f + (i - Len(q)) - 1 = f + 1
    <3>1. f \in Nat /\ Len(q) \in Nat
      BY <1>1, <1>3
    <3> HIDE DEF row, q
    <3> QED BY <3>1
  <2>2. /\ Len(q \o <<f, f + 1>>) = Len(q) + 2
        /\ \A i \in 1..(Len(q) + 2) :
             (q \o <<f, f + 1>>)[i] = IF i <= Len(q) THEN q[i]
                                     ELSE IF i = Len(q) + 1 THEN f ELSE f + 1
    BY <1>1, <1>3, AppendedTwo
  <2>3. Len(q) \in Nat
    BY <1>3
  <2> HIDE DEF q, row
  <2>4. \A i \in 1..(Len(q) + 2) : i <= Len(q) \/ i > Len(q)
    BY <2>3
  <2>5. \A i \in 1..(Len(q) + 2) :
          (q \o <<f, f + 1>>)[i] = IF i <= Len(q) THEN q[i] ELSE f + (i - Len(q)) - 1
    BY <2>1, <2>2, <2>4
  <2> QED BY <1>4, <2>2, <2>5
<1>6. row \in FutureRows
  BY <1>3 DEF FutureRows
<1>7. /\ fut' \in [Futures -> FutureRows]
      /\ \A g \in Futures : fut'[g] = IF g \in {f, f + 1} THEN row ELSE fut[g]
  <2>1. /\ fut'[f] = row /\ fut'[f + 1] = row
        /\ \A g \in Futures : g \notin {f, f + 1} => fut'[g] = fut[g]
    BY <1>1, <1>2 DEF NewFuture
  <2> HIDE DEF row
  <2> QED BY <1>1, <1>2, <1>6, <2>1 DEF FacadeType
<1>8. /\ \A g \in Futures : f <= g /\ g < f + 2 <=> g \in {f, f + 1}
      /\ f + 2 - 1 = f + 1
  BY <1>1, FutureNumbers
<1>9. \A g \in Futures :
         IF f <= g /\ g < f + 2
         THEN /\ fut[g].st = "none" /\ fut'[g].lane = "op" /\ fut'[g].st = "queued"
              /\ ~fut'[g].bad /\ ~fut'[g].asked
         ELSE fut'[g] = fut[g]
  BY <1>1, <1>7, <1>8
<1>10. Admits("op", 2)
  BY <1>1, <1>2, <1>4, <1>5, <1>7, <1>8, <1>9 DEF Admits, f
<1> QED BY <1>0, <1>10

-----------------------------------------------------------------------------
\* A lane takes the head of its queue: into service, or out with a row that
\* says "cancelled".
LEMMA StartKeeps ==
  ASSUME FacadeType, Numbered, Placed, Asked, NEW l \in Lanes, LaneStart(l)
  PROVE  /\ FacadeType' /\ Numbered' /\ Placed' /\ Asked'
         /\ \A g \in Futures : /\ Settled(g) => Settled(g)'
                               /\ fut'[g].lane = fut[g].lane
                               /\ fut[g].st = "none" <=> fut'[g].st = "none"
<1> DEFINE f == Head(queue[l])
<1>1. /\ queue[l] \in Seq(Futures) /\ queue[l] # <<>> /\ Len(queue[l]) \in Nat \ {0}
      /\ f = queue[l][1]
  BY DEF LaneStart, FacadeType
<1>2. f \in Futures /\ fut[f].st = "queued" /\ fut[f].lane = l /\ fut[f] \in FutureRows
  BY <1>1 DEF Placed, FacadeType
<1>3. /\ active[l] = NoFuture /\ queue' = [queue EXCEPT ![l] = Tail(@)]
      /\ UNCHANGED <<kind, cap, closed, actor, drv, gen>>
      /\ \/ /\ fut[f].asked /\ active' = active
            /\ fut' = [fut EXCEPT ![f].st = "done", ![f].status = "cancelled"]
         \/ /\ ~fut[f].asked /\ active' = [active EXCEPT ![l] = f]
            /\ fut' = [fut EXCEPT ![f].st = "active"]
  BY DEF LaneStart
<1> HIDE DEF f
<1>4. /\ fut' \in [Futures -> FutureRows]
      /\ \A g \in Futures : g # f => fut'[g] = fut[g]
      /\ fut'[f].lane = l /\ fut'[f].op = fut[f].op /\ fut'[f].token = fut[f].token
      /\ fut'[f].asked = fut[f].asked /\ fut'[f].bad = fut[f].bad
      /\ fut'[f].st = IF fut[f].asked THEN "done" ELSE "active"
      /\ fut[f].asked => fut'[f].status = "cancelled"
  <2>1. CASE /\ fut[f].asked
             /\ fut' = [fut EXCEPT ![f].st = "done", ![f].status = "cancelled"]
    <3>1. fut'[f] = [fut[f] EXCEPT !.st = "done", !.status = "cancelled"]
      BY <1>2, <2>1 DEF FacadeType
    <3>2. fut'[f] \in FutureRows
      BY <1>2, <3>1 DEF FutureRows
    <3> QED BY <1>2, <2>1, <3>1, <3>2 DEF FacadeType, FutureRows
  <2>2. CASE ~fut[f].asked /\ fut' = [fut EXCEPT ![f].st = "active"]
    <3>1. fut'[f] = [fut[f] EXCEPT !.st = "active"]
      BY <1>2, <2>2 DEF FacadeType
    <3>2. fut'[f] \in FutureRows
      BY <1>2, <3>1 DEF FutureRows
    <3> QED BY <1>2, <2>2, <3>1, <3>2 DEF FacadeType, FutureRows
  <2> QED BY <1>3, <2>1, <2>2
<1>5. /\ queue' \in [Lanes -> Seq(Futures)] /\ Len(queue'[l]) = Len(queue[l]) - 1
      /\ \A i \in 1..(Len(queue[l]) - 1) : queue'[l][i] = queue[l][i + 1]
      /\ \A m \in Lanes : m # l => queue'[m] = queue[m]
  BY <1>1, <1>3 DEF FacadeType
<1>6. /\ active' \in [Lanes -> Futures \cup {NoFuture}]
      /\ \A m \in Lanes : active'[m] = IF m = l /\ ~fut[f].asked THEN f ELSE active[m]
  BY <1>2, <1>3 DEF FacadeType
<1>7. FacadeType'
  BY <1>3, <1>4, <1>5, <1>6 DEF FacadeType
<1>8. Numbered'
  <2>1. Made' = Made
    BY <1>2, <1>4 DEF Made
  <2> QED BY <2>1 DEF Numbered
<1>9. ASSUME NEW m \in Lanes, NEW i \in 1..Len(queue'[m])
      PROVE  \E k \in 1..Len(queue[m]) :
               /\ queue'[m][i] = queue[m][k] /\ queue[m][k] \in Futures \ {f}
               /\ k = IF m = l THEN i + 1 ELSE i
  <2>1. CASE m = l
    <3>1. i + 1 \in 1..Len(queue[l]) /\ i \in 1..(Len(queue[l]) - 1) /\ i + 1 # 1
      BY <1>1, <1>5, <1>9, <2>1
    <3>2. queue[l][i + 1] \in Futures
      BY <1>1, <3>1
    <3>3. queue[l][i + 1] # f
      BY <1>1, <3>1 DEF Placed
    <3> QED BY <1>5, <2>1, <3>1, <3>2, <3>3
  <2>2. CASE m # l
    <3>1. queue[m][i] \in Futures /\ fut[queue[m][i]].lane = m /\ queue'[m] = queue[m]
      BY <1>5, <1>9, <2>2 DEF FacadeType, Placed
    <3> QED BY <1>2, <1>9, <2>2, <3>1
  <2> QED BY <2>1, <2>2
<1>10. Placed'
  <2>1. ASSUME NEW m \in Lanes, NEW i \in 1..Len(queue'[m])
        PROVE  fut'[queue'[m][i]].st = "queued" /\ fut'[queue'[m][i]].lane = m
    <3>1. PICK k \in 1..Len(queue[m]) : /\ queue'[m][i] = queue[m][k]
                                        /\ queue[m][k] \in Futures \ {f}
      BY <1>9
    <3>2. fut[queue[m][k]].st = "queued" /\ fut[queue[m][k]].lane = m
      BY DEF Placed
    <3> QED BY <1>4, <3>1, <3>2
  <2>2. ASSUME NEW m \in Lanes, NEW i \in 1..Len(queue'[m]), NEW j \in 1..Len(queue'[m]),
               queue'[m][i] = queue'[m][j]
        PROVE  i = j
    <3>1. PICK k \in 1..Len(queue[m]) : /\ queue'[m][i] = queue[m][k]
                                        /\ k = IF m = l THEN i + 1 ELSE i
      BY <1>9
    <3>2. PICK h \in 1..Len(queue[m]) : /\ queue'[m][j] = queue[m][h]
                                        /\ h = IF m = l THEN j + 1 ELSE j
      BY <1>9
    <3>3. k = h
      <4>1. \A p, q \in 1..Len(queue[m]) : queue[m][p] = queue[m][q] => p = q
        BY DEF Placed
      <4> QED BY <2>2, <3>1, <3>2, <4>1
    <3>4. i \in Int /\ j \in Int
      OBVIOUS
    <3> QED BY <3>1, <3>2, <3>3, <3>4
  <2>3. ASSUME NEW g \in Futures, fut'[g].st = "queued"
        PROVE  \E i \in 1..Len(queue'[fut'[g].lane]) : queue'[fut'[g].lane][i] = g
    <3>1. g # f /\ fut'[g] = fut[g] /\ fut[g].lane \in Lanes
      BY <1>4, <2>3 DEF FacadeType, FutureRows
    <3>2. PICK k \in 1..Len(queue[fut[g].lane]) : queue[fut[g].lane][k] = g
      BY <2>3, <3>1 DEF Placed
    <3>3. CASE fut[g].lane = l
      <4>1. k # 1 /\ k - 1 \in 1..(Len(queue[l]) - 1) /\ (k - 1) + 1 = k
        BY <1>1, <3>1, <3>2, <3>3
      <4>2. queue'[l][k - 1] = g /\ k - 1 \in 1..Len(queue'[l])
        BY <1>5, <3>2, <3>3, <4>1
      <4> QED BY <3>1, <3>3, <4>2
    <3>4. CASE fut[g].lane # l
      BY <1>5, <3>1, <3>2, <3>4
    <3> QED BY <3>3, <3>4
  <2>4. ASSUME NEW m \in Lanes, active'[m] # NoFuture
        PROVE  fut'[active'[m]].st = "active" /\ fut'[active'[m]].lane = m
    <3>1. CASE m = l
      BY <1>3, <1>4, <1>6, <2>4, <3>1
    <3>2. CASE m # l
      <4>1. active'[m] = active[m] /\ active[m] \in Futures /\ fut[active[m]].st = "active"
            /\ fut[active[m]].lane = m
        BY <1>6, <2>4, <3>2 DEF Placed, FacadeType
      <4> QED BY <1>2, <1>4, <4>1
    <3> QED BY <3>1, <3>2
  <2>5. ASSUME NEW g \in Futures, fut'[g].st = "active" PROVE active'[fut'[g].lane] = g
    <3>1. CASE g = f
      BY <1>2, <1>4, <1>6, <2>5, <3>1
    <3>2. CASE g # f
      <4>1. fut'[g] = fut[g] /\ fut[g].lane \in Lanes /\ active[fut[g].lane] = g /\ g # NoFuture
        BY <1>4, <2>5, <3>2, FutureNumbers DEF Placed, FacadeType, FutureRows
      <4> QED BY <1>3, <1>6, <4>1
    <3> QED BY <3>1, <3>2
  <2> QED BY <2>1, <2>2, <2>3, <2>4, <2>5 DEF Placed
<1>11. Asked'
  BY <1>2, <1>4 DEF Asked, Settled
<1>12. \A g \in Futures : /\ Settled(g) => Settled(g)'
                          /\ fut'[g].lane = fut[g].lane
                          /\ fut[g].st = "none" <=> fut'[g].st = "none"
  BY <1>2, <1>4 DEF Settled
<1> QED BY <1>7, <1>8, <1>10, <1>11, <1>12

\* The request in service gets its row, and leaves the lane free.
LEMMA FinishKeeps ==
  ASSUME FacadeType, Numbered, Placed, Asked, NEW l \in Lanes, LaneFinish(l)
  PROVE  /\ FacadeType' /\ Numbered' /\ Placed' /\ Asked'
         /\ \A g \in Futures : /\ Settled(g) => Settled(g)'
                               /\ fut'[g].lane = fut[g].lane
                               /\ fut[g].st = "none" <=> fut'[g].st = "none"
<1> DEFINE f == active[l]
           row == IF fut[f].op = "boom" \/ fut[f].bad THEN "failed"
                  ELSE IF fut[f].asked THEN "cancelled" ELSE "completed"
<1>1. /\ f \in Futures /\ fut[f].st = "active" /\ fut[f].lane = l /\ fut[f] \in FutureRows
  BY DEF LaneFinish, Placed, FacadeType
<1>2. /\ fut' = [fut EXCEPT ![f].st = "done", ![f].status = row]
      /\ active' = [active EXCEPT ![l] = NoFuture]
      /\ UNCHANGED <<kind, cap, closed, actor, queue, drv, gen>>
  BY DEF LaneFinish
<1>3. /\ row \in {"failed", "cancelled", "completed"}
      /\ row = "cancelled" <=> fut[f].asked
      /\ row = "failed" => fut[f].op = "boom"
  BY <1>1 DEF Asked
<1> HIDE DEF row
<1>4. /\ fut' \in [Futures -> FutureRows]
      /\ \A g \in Futures : g # f => fut'[g] = fut[g]
      /\ fut'[f].lane = l /\ fut'[f].op = fut[f].op /\ fut'[f].token = fut[f].token
      /\ fut'[f].asked = fut[f].asked /\ fut'[f].bad = fut[f].bad
      /\ fut'[f].st = "done" /\ fut'[f].status = row
  <2> HIDE DEF f
  <2>1. fut'[f] = [fut[f] EXCEPT !.st = "done", !.status = row]
    BY <1>1, <1>2 DEF FacadeType
  <2>2. fut'[f] \in FutureRows
    BY <1>1, <1>3, <2>1 DEF FutureRows
  <2> QED BY <1>1, <1>2, <2>1, <2>2 DEF FacadeType, FutureRows
<1>5. /\ active' \in [Lanes -> Futures \cup {NoFuture}]
      /\ \A m \in Lanes : active'[m] = IF m = l THEN NoFuture ELSE active[m]
  BY <1>2 DEF FacadeType
<1>6. FacadeType'
  BY <1>2, <1>4, <1>5 DEF FacadeType
<1>7. Numbered'
  <2>1. Made' = Made
    BY <1>1, <1>4 DEF Made
  <2> QED BY <2>1 DEF Numbered
<1>8. Placed'
  <2>1. ASSUME NEW m \in Lanes, NEW i \in 1..Len(queue[m])
        PROVE  queue[m][i] \in Futures /\ queue[m][i] # f /\ fut'[queue[m][i]] = fut[queue[m][i]]
    <3>1. queue[m][i] \in Futures /\ fut[queue[m][i]].st = "queued"
      BY <2>1 DEF FacadeType, Placed
    <3> QED BY <1>1, <1>4, <3>1
  <2>2. \A m \in Lanes : \A i \in 1..Len(queue'[m]) :
          fut'[queue'[m][i]].st = "queued" /\ fut'[queue'[m][i]].lane = m
    <3>1. \A m \in Lanes : \A i \in 1..Len(queue[m]) :
            fut[queue[m][i]].st = "queued" /\ fut[queue[m][i]].lane = m
      BY DEF Placed
    <3>2. queue' = queue
      BY <1>2
    <3> QED BY <2>1, <3>1, <3>2
  <2>3. \A m \in Lanes : \A i, j \in 1..Len(queue'[m]) : queue'[m][i] = queue'[m][j] => i = j
    BY <1>2 DEF Placed
  <2>4. \A g \in Futures : fut'[g].st = "queued" =>
          \E i \in 1..Len(queue'[fut'[g].lane]) : queue'[fut'[g].lane][i] = g
    BY <1>2, <1>4, SMTT(30) DEF Placed
  <2>5. ASSUME NEW m \in Lanes, active'[m] # NoFuture
        PROVE  fut'[active'[m]].st = "active" /\ fut'[active'[m]].lane = m
    <3>1. m # l /\ active'[m] = active[m] /\ active[m] \in Futures
      BY <1>5, <2>5 DEF FacadeType
    <3>2. fut[active[m]].st = "active" /\ fut[active[m]].lane = m
      BY <2>5, <3>1 DEF Placed
    <3> QED BY <1>1, <1>4, <3>1, <3>2
  <2>6. ASSUME NEW g \in Futures, fut'[g].st = "active" PROVE active'[fut'[g].lane] = g
    <3>1. g # f /\ fut'[g] = fut[g] /\ fut[g].lane \in Lanes /\ active[fut[g].lane] = g
      BY <1>4, <2>6 DEF Placed, FacadeType, FutureRows
    <3> QED BY <1>5, <3>1
  <2> QED BY <2>2, <2>3, <2>4, <2>5, <2>6 DEF Placed
<1>9. Asked'
  BY <1>1, <1>3, <1>4 DEF Asked, Settled
<1>10. \A g \in Futures : /\ Settled(g) => Settled(g)'
                          /\ fut'[g].lane = fut[g].lane
                          /\ fut[g].st = "none" <=> fut'[g].st = "none"
  BY <1>1, <1>4 DEF Settled
<1> QED BY <1>6, <1>7, <1>8, <1>9, <1>10

-----------------------------------------------------------------------------
\* cancel() only marks its future.
LEMMA CancelMarks ==
  ASSUME FacadeType, NEW f \in Futures, Cancel(f) PROVE FlagsOnly
<1>1. fut' = [fut EXCEPT ![f].asked = TRUE] /\ Cancellable(f) /\ UNCHANGED <<kind, cap, queue, active>>
  BY DEF Cancel
<1>2. fut[f] \in FutureRows /\ fut'[f] = [fut[f] EXCEPT !.asked = TRUE]
  BY <1>1 DEF FacadeType
<1>3. fut'[f] \in FutureRows /\ \A g \in Futures : g # f => fut'[g] = fut[g]
  BY <1>1, <1>2 DEF FacadeType, FutureRows
<1>4. fut' \in [Futures -> FutureRows]
  BY <1>1, <1>3 DEF FacadeType
<1> QED BY <1>1, <1>2, <1>3, <1>4 DEF FlagsOnly, FutureRows

\* The last checkpoint of a body only marks its future.
LEMMA LastChunkMarks ==
  ASSUME FacadeType, NEW l \in Lanes, LaneLastChunk(l) PROVE FlagsOnly
<1> DEFINE f == active[l]
<1>1. /\ fut' = [fut EXCEPT ![f].late = TRUE] /\ f \in Futures
      /\ UNCHANGED <<kind, cap, queue, active>>
  BY DEF LaneLastChunk, FacadeType
<1> HIDE DEF f
<1>2. fut[f] \in FutureRows /\ fut'[f] = [fut[f] EXCEPT !.late = TRUE]
  BY <1>1 DEF FacadeType
<1>3. fut'[f] \in FutureRows /\ \A g \in Futures : g # f => fut'[g] = fut[g]
  BY <1>1, <1>2 DEF FacadeType, FutureRows
<1>4. fut' \in [Futures -> FutureRows]
  BY <1>1, <1>3 DEF FacadeType
<1> QED BY <1>1, <1>2, <1>3, <1>4 DEF FlagsOnly, FutureRows

\* result() and get() only retire their future.
LEMMA ResultMarks ==
  ASSUME FacadeType, ResultReturns PROVE FlagsOnly
<1>1. /\ fut' = [f \in Futures |-> IF f \in drv.on THEN [fut[f] EXCEPT !.retired = TRUE] ELSE fut[f]]
      /\ UNCHANGED <<kind, cap, queue, active>>
  BY DEF ResultReturns
<1>2. ASSUME NEW f \in Futures
      PROVE  /\ fut'[f] \in FutureRows
             /\ fut'[f].lane = fut[f].lane /\ fut'[f].st = fut[f].st /\ fut'[f].op = fut[f].op
             /\ fut'[f].token = fut[f].token /\ fut'[f].bad = fut[f].bad
             /\ fut'[f].status = fut[f].status /\ fut'[f].asked = fut[f].asked
  <2>1. fut[f] \in FutureRows
    BY DEF FacadeType
  <2>2. CASE f \in drv.on
    <3>1. fut'[f] = [fut[f] EXCEPT !.retired = TRUE]
      BY <1>1, <2>2
    <3> QED BY <2>1, <3>1 DEF FutureRows
  <2>3. CASE f \notin drv.on
    BY <1>1, <2>1, <2>3
  <2> QED BY <2>2, <2>3
<1>3. fut' \in [Futures -> FutureRows]
  BY <1>1, <1>2
<1> QED BY <1>1, <1>2, <1>3 DEF FlagsOnly

\* cancel_pending() on one lane.
LEMMA AskAllMarks ==
  ASSUME NEW F \in [Futures -> FutureRows], NEW l \in Lanes
  PROVE  /\ AskAll(F, l) \in [Futures -> FutureRows]
         /\ \A f \in Futures :
              /\ AskAll(F, l)[f].lane = F[f].lane /\ AskAll(F, l)[f].st = F[f].st
              /\ AskAll(F, l)[f].op = F[f].op /\ AskAll(F, l)[f].token = F[f].token
              /\ AskAll(F, l)[f].bad = F[f].bad /\ AskAll(F, l)[f].status = F[f].status
              /\ \/ AskAll(F, l)[f].asked = F[f].asked
                 \/ AskAll(F, l)[f].asked /\ Cancellable(f)
<1>1. ASSUME NEW f \in Futures
      PROVE  /\ AskAll(F, l)[f] \in FutureRows
             /\ AskAll(F, l)[f].lane = F[f].lane /\ AskAll(F, l)[f].st = F[f].st
             /\ AskAll(F, l)[f].op = F[f].op /\ AskAll(F, l)[f].token = F[f].token
             /\ AskAll(F, l)[f].bad = F[f].bad /\ AskAll(F, l)[f].status = F[f].status
             /\ \/ AskAll(F, l)[f].asked = F[f].asked
                \/ AskAll(F, l)[f].asked /\ Cancellable(f)
  <2>1. F[f] \in FutureRows
    OBVIOUS
  <2>2. CASE F[f].lane = l /\ Cancellable(f)
    <3>1. AskAll(F, l)[f] = [F[f] EXCEPT !.asked = TRUE]
      BY <2>2 DEF AskAll
    <3> QED BY <2>1, <2>2, <3>1 DEF FutureRows
  <2>3. CASE ~(F[f].lane = l /\ Cancellable(f))
    <3>1. AskAll(F, l)[f] = F[f]
      BY <2>3 DEF AskAll
    <3> QED BY <2>1, <3>1
  <2> QED BY <2>2, <2>3
<1>2. AskAll(F, l) \in [Futures -> FutureRows]
  BY <1>1 DEF AskAll
<1> QED BY <1>1, <1>2

\* The first half of shutdown() and of release_actor().
LEMMA TeardownMarks ==
  ASSUME FacadeType, EnterShutdown \/ EnterRelease PROVE FlagsOnly
<1>1. fut \in [Futures -> FutureRows] /\ Actor \in Lanes /\ "op" \in Lanes
  BY DEF FacadeType, Lanes
<1> DEFINE once == AskAll(fut, Actor)
           both == AskAll(once, "op")
<1>2. UNCHANGED <<kind, cap, queue, active>> /\ fut' \in {fut, once, both}
  BY DEF EnterShutdown, EnterRelease
<1>3. /\ once \in [Futures -> FutureRows]
      /\ \A f \in Futures : /\ once[f].lane = fut[f].lane /\ once[f].st = fut[f].st
                            /\ once[f].op = fut[f].op /\ once[f].token = fut[f].token
                            /\ once[f].bad = fut[f].bad /\ once[f].status = fut[f].status
                            /\ \/ once[f].asked = fut[f].asked
                               \/ once[f].asked /\ Cancellable(f)
  BY <1>1, AskAllMarks
<1> HIDE DEF once
<1>4. /\ both \in [Futures -> FutureRows]
      /\ \A f \in Futures : /\ both[f].lane = once[f].lane /\ both[f].st = once[f].st
                            /\ both[f].op = once[f].op /\ both[f].token = once[f].token
                            /\ both[f].bad = once[f].bad /\ both[f].status = once[f].status
                            /\ \/ both[f].asked = once[f].asked
                               \/ both[f].asked /\ Cancellable(f)
  BY <1>1, <1>3, AskAllMarks
<1> HIDE DEF both
<1>5. CASE fut' = fut
  BY <1>1, <1>2, <1>5 DEF FlagsOnly
<1>6. CASE fut' = once
  BY <1>2, <1>3, <1>6 DEF FlagsOnly
<1>7. CASE fut' = both
  BY <1>2, <1>3, <1>4, <1>7 DEF FlagsOnly
<1> QED BY <1>2, <1>5, <1>6, <1>7

-----------------------------------------------------------------------------
\* A step that leaves the generator alone and unsettles nothing.
LEMMA GeneratedKeeps ==
  ASSUME Generated, gen' = gen, drv' = drv \/ drv'.call # "gen",
         \A f \in Futures : Settled(f) => Settled(f)'
  PROVE  Generated'
<1>1. /\ \A f \in gen.ready : f \in Futures
      /\ \A i \in DOMAIN gen.out : gen.out[i] \in Futures
  BY DEF Generated
<1> QED BY <1>1 DEF Generated, Settled

\* A step that makes no future, unsettles none and leaves both teardowns where
\* they were.
LEMMA TornDownKeeps ==
  ASSUME TornDown, closed' = closed, actor' = actor,
         \/ drv' = drv
         \/ drv'.call \notin {"shutdown", "release"} /\ drv.call # "shutdown",
         \A f \in Futures : /\ Settled(f) => Settled(f)'
                            /\ fut'[f].lane = fut[f].lane
                            /\ fut[f].st = "none" <=> fut'[f].st = "none"
  PROVE  TornDown'
BY DEF TornDown

\* Every submission keeps the invariant.
LEMMA SubmissionKeeps ==
  ASSUME FacadeInv, NEW l \in Lanes, NEW n \in {1, 2}, Free # {}, Admits(l, n),
         ~closed, l = Actor => actor = "live", drv' = drv, gen' = gen
  PROVE  FacadeInv'
<1>1. /\ FacadeType' /\ Numbered' /\ Placed' /\ Asked'
      /\ \A g \in Futures : Settled(g)' <=> Settled(g)
      /\ \A g \in Futures : fut'[g] = fut[g] \/ (fut[g].st = "none" /\ fut'[g].lane = l)
  BY AdmitsKeep DEF FacadeInv
<1>2. closed' = closed /\ actor' = actor
  BY DEF Admits
<1>3. TornDown'
  <2>1. actor = "released" => l # Actor
    OBVIOUS
  <2> QED BY <1>1, <1>2, <2>1 DEF FacadeInv, TornDown, Settled
<1>4. Generated'
  BY <1>1, GeneratedKeeps DEF FacadeInv
<1> QED BY <1>1, <1>3, <1>4 DEF FacadeInv

\* Every step that only marks futures keeps it, if the teardowns stay as they are.
LEMMA MarksKeep ==
  ASSUME FacadeInv, FlagsOnly, closed' = closed, actor' = actor, gen' = gen,
         \/ drv' = drv
         \/ drv'.call \notin {"shutdown", "release", "gen"} /\ drv.call # "shutdown"
  PROVE  FacadeInv'
<1>1. Numbered' /\ Placed' /\ Asked' /\ \A f \in Futures : Settled(f)' <=> Settled(f)
  BY FlagsKeep DEF FacadeInv
<1>2. FacadeType'
  BY DEF FacadeInv, FacadeType, FlagsOnly
<1>3. TornDown'
  <2>1. \A f \in Futures : fut'[f].lane = fut[f].lane /\ fut'[f].st = fut[f].st
    BY DEF FlagsOnly
  <2> QED BY <1>1, <2>1, TornDownKeeps DEF FacadeInv
<1>4. Generated'
  BY <1>1, GeneratedKeeps DEF FacadeInv
<1> QED BY <1>1, <1>2, <1>3, <1>4 DEF FacadeInv

\* The two lanes are different ones.
LEMMA BothLanes == "op" \in Lanes /\ Actor \in Lanes /\ "op" # Actor
BY DEF Lanes, Actor

\* Engine.submit.
LEMMA SubmitKeeps ==
  ASSUME FacadeInv, NEW n, Submit(<<"int", n>>) PROVE FacadeInv'
<1>1. /\ ~closed /\ Free # {} /\ UNCHANGED <<kind, cap, closed, actor, active, drv, gen>>
      /\ \E o \in {"single", "chunked", "boom"} : Enqueue("op", o, TRUE, FALSE)
  BY DEF Submit
<1>2. Admits("op", 1)
  BY <1>1, BothLanes, EnqueueAdmits DEF FacadeInv
<1> QED BY <1>1, <1>2, BothLanes, SubmissionKeeps

\* Engine.submit_batch.
LEMMA SubmitBatchKeeps ==
  ASSUME FacadeInv, SubmitBatch PROVE FacadeInv'
<1>1. ~closed /\ drv' = drv /\ gen' = gen
  BY DEF SubmitBatch
<1>2. Free # {} /\ Admits("op", 2)
  BY BatchAdmits DEF FacadeInv
<1> QED BY <1>1, <1>2, BothLanes, SubmissionKeeps

\* Runtime.submit_operation: what the validators let through cannot be bad.
LEMMA SubmitOperationKeeps ==
  ASSUME FacadeInv, NEW op_id, NEW args, SubmitOperation(op_id, args) PROVE FacadeInv'
<1> DEFINE v == [i \in DOMAIN args |-> ValueOf(args[i])]
<1>1. /\ ~closed /\ Free # {} /\ UNCHANGED <<kind, cap, closed, actor, active, drv, gen>>
      /\ validate_call(op_id, args) = "ok"
      /\ \E o \in {"single", "chunked", "boom"} : Enqueue("op", o, TRUE, ~NativeAccepts(op_id, v))
  BY DEF SubmitOperation
<1>2. NativeAccepts(op_id, v)
  BY <1>1, ValidatedIsAccepted
<1> HIDE DEF v
<1>3. (~NativeAccepts(op_id, v)) = FALSE
  BY <1>2
<1>4. \E o \in {"single", "chunked", "boom"} : Enqueue("op", o, TRUE, FALSE)
  BY <1>1, <1>3
<1>5. Admits("op", 1)
  BY <1>1, <1>4, BothLanes, EnqueueAdmits DEF FacadeInv
<1> QED BY <1>1, <1>5, BothLanes, SubmissionKeeps

\* ActorHandle.call.
LEMMA ActorCallKeeps ==
  ASSUME FacadeInv, NEW m, NEW args, ActorCall(m, args) PROVE FacadeInv'
<1>1. /\ ~closed /\ actor = "live" /\ Free # {}
      /\ UNCHANGED <<kind, cap, closed, actor, active, drv, gen>>
      /\ \E o \in {"single", "chunked", "boom"} : Enqueue(Actor, o, TRUE, FALSE)
  BY DEF ActorCall
<1>2. Admits(Actor, 1)
  BY <1>1, BothLanes, EnqueueAdmits DEF FacadeInv
<1> QED BY <1>1, <1>2, BothLanes, SubmissionKeeps

\* The lanes' own steps.
LEMMA LaneKeeps ==
  ASSUME FacadeInv, NEW l \in Lanes, Lane(l) PROVE FacadeInv'
<1>1. CASE LaneLastChunk(l)
  <2>1. closed' = closed /\ actor' = actor /\ gen' = gen /\ drv' = drv
    BY <1>1 DEF LaneLastChunk
  <2> QED BY <1>1, <2>1, LastChunkMarks, MarksKeep DEF FacadeInv
<1>2. CASE LaneStart(l) \/ LaneFinish(l)
  <2>1. closed' = closed /\ actor' = actor /\ gen' = gen /\ drv' = drv
    BY <1>2 DEF LaneStart, LaneFinish
  <2>2. /\ FacadeType' /\ Numbered' /\ Placed' /\ Asked'
        /\ \A g \in Futures : /\ Settled(g) => Settled(g)'
                              /\ fut'[g].lane = fut[g].lane
                              /\ fut[g].st = "none" <=> fut'[g].st = "none"
    BY <1>2, StartKeeps, FinishKeeps DEF FacadeInv
  <2>3. TornDown'
    BY <2>1, <2>2, TornDownKeeps DEF FacadeInv
  <2>4. Generated'
    BY <2>1, <2>2, GeneratedKeeps DEF FacadeInv
  <2> QED BY <2>2, <2>3, <2>4 DEF FacadeInv
<1> QED BY <1>1, <1>2 DEF Lane

\* A step that touches neither the lanes nor a future.
LEMMA SameFutures ==
  ASSUME FacadeInv, UNCHANGED <<kind, cap, queue, active, fut>>
  PROVE  /\ Numbered' /\ Placed' /\ Asked'
         /\ closed' \in BOOLEAN /\ actor' \in {"none", "live", "released"} => FacadeType'
         /\ \A g \in Futures : Settled(g)' <=> Settled(g)
<1>1. Made' = Made
  BY DEF Made
<1>2. Numbered'
  BY <1>1 DEF FacadeInv, Numbered
<1>3. Placed'
  BY DEF FacadeInv, Placed
<1>4. Asked'
  BY DEF FacadeInv, Asked, Settled
<1> QED BY <1>2, <1>3, <1>4 DEF FacadeInv, FacadeType, Settled

\* A lane with nothing queued and nothing in service holds no unsettled future.
LEMMA DrainedSettles ==
  ASSUME FacadeInv, NEW l \in Lanes, Drained(l),
         NEW f \in Futures, fut[f].lane = l, fut[f].st # "none"
  PROVE  Settled(f)
<1>1. Len(queue[l]) = 0 /\ active[l] = NoFuture
  BY DEF Drained, lane_stats
<1>2. fut[f].st \in {"queued", "active", "done"}
  BY DEF FacadeInv, FacadeType, FutureRows
<1>3. CASE fut[f].st = "queued"
  BY <1>1, <1>3 DEF FacadeInv, Placed
<1>4. CASE fut[f].st = "active"
  BY <1>1, <1>4, FutureNumbers DEF FacadeInv, Placed
<1> QED BY <1>2, <1>3, <1>4 DEF Settled

\* The teardowns, and the actor that one of them ends.
LEMMA TeardownsKeep ==
  ASSUME FacadeInv,
         (\E args : CreateActor(args)) \/ EnterShutdown \/ EnterRelease
           \/ ShutdownReturns \/ ReleaseReturns
  PROVE  FacadeInv'
<1>1. CASE \E args : CreateActor(args)
  <2>1. /\ UNCHANGED <<kind, cap, closed, queue, active, fut, drv, gen>>
        /\ actor' = "live" /\ drv.call = "idle"
    BY <1>1 DEF CreateActor, Idle
  <2>2. TornDown'
    BY <2>1 DEF FacadeInv, TornDown, Settled
  <2>3. Generated'
    BY <2>1, SameFutures, GeneratedKeeps DEF FacadeInv
  <2> QED BY <2>1, <2>2, <2>3, SameFutures DEF FacadeInv, FacadeType
<1>2. CASE EnterShutdown \/ EnterRelease
  <2>1. FlagsOnly
    BY <1>2, TeardownMarks DEF FacadeInv
  <2>2. /\ actor' = actor /\ gen' = gen /\ drv.call = "idle" /\ closed' \in BOOLEAN
        /\ \/ closed' /\ drv'.call = "shutdown"
           \/ ~closed' /\ actor = "live" /\ drv'.call = "release"
    <3>1. closed \in BOOLEAN
      BY DEF FacadeInv, FacadeType
    <3>2. CASE EnterShutdown
      BY <3>2 DEF EnterShutdown, Idle
    <3>3. CASE EnterRelease
      BY <3>1, <3>3 DEF EnterRelease, Idle
    <3> QED BY <1>2, <3>2, <3>3
  <2>3. Numbered' /\ Placed' /\ Asked' /\ \A f \in Futures : Settled(f)' <=> Settled(f)
    BY <2>1, FlagsKeep DEF FacadeInv
  <2>4. FacadeType'
    BY <2>1, <2>2 DEF FacadeInv, FacadeType, FlagsOnly
  <2>5. TornDown'
    <3>1. \A f \in Futures : fut'[f].lane = fut[f].lane /\ fut'[f].st = fut[f].st
      BY <2>1 DEF FlagsOnly
    <3> QED BY <2>2, <2>3, <3>1 DEF FacadeInv, TornDown
  <2>6. Generated'
    BY <2>2, <2>3, GeneratedKeeps DEF FacadeInv
  <2> QED BY <2>3, <2>4, <2>5, <2>6 DEF FacadeInv
<1>3. CASE ShutdownReturns \/ ReleaseReturns
  <2>1. /\ UNCHANGED <<kind, cap, closed, queue, active, fut, gen>> /\ drv'.call = "idle"
        /\ actor' \in {"none", "live", "released"} /\ closed' \in BOOLEAN
        /\ \/ drv.call = "shutdown" /\ \A l \in Lanes : Drained(l)
           \/ drv.call = "release" /\ Drained(Actor)
    BY <1>3 DEF ShutdownReturns, ReleaseReturns, Idle, FacadeInv, FacadeType
  <2>2. \A f \in Futures : fut[f].st # "none" =>
          /\ drv.call = "shutdown" => Settled(f)
          /\ fut[f].lane = Actor => Settled(f)
    <3> SUFFICES ASSUME NEW f \in Futures, fut[f].st # "none"
                 PROVE  /\ drv.call = "shutdown" => Settled(f)
                        /\ fut[f].lane = Actor => Settled(f)
      OBVIOUS
    <3>1. fut[f].lane \in Lanes
      BY DEF FacadeInv, FacadeType, FutureRows
    <3> QED BY <2>1, <3>1, DrainedSettles, BothLanes
  <2>3. TornDown'
    BY <2>1, <2>2 DEF FacadeInv, TornDown, Settled
  <2>4. Generated'
    BY <2>1, SameFutures, GeneratedKeeps DEF FacadeInv
  <2> QED BY <2>1, <2>3, <2>4, SameFutures DEF FacadeInv
<1> QED BY <1>1, <1>2, <1>3

\* The calls that ask for rows: cancel(), wait(), result().
LEMMA RowCallsKeep ==
  ASSUME FacadeInv,
         (\E f \in Futures : Cancel(f) \/ EnterResult(f)) \/ (\E F, n : EnterWait(F, n))
           \/ WaitReturns \/ ResultReturns
  PROVE  FacadeInv'
<1>1. CASE \E f \in Futures : Cancel(f)
  <2>1. closed' = closed /\ actor' = actor /\ gen' = gen /\ drv' = drv /\ FlagsOnly
    BY <1>1, CancelMarks DEF Cancel, FacadeInv
  <2> QED BY <2>1, MarksKeep
<1>2. CASE ResultReturns
  <2>1. /\ closed' = closed /\ actor' = actor /\ gen' = gen /\ drv'.call = "idle"
        /\ drv.call # "shutdown" /\ FlagsOnly
    BY <1>2, ResultMarks DEF ResultReturns, FacadeInv, Idle
  <2> QED BY <2>1, MarksKeep
<1>3. CASE (\E f \in Futures : EnterResult(f)) \/ (\E F, n : EnterWait(F, n)) \/ WaitReturns
  <2>1. /\ UNCHANGED <<kind, cap, closed, actor, queue, active, fut, gen>>
        /\ drv'.call \in {"result", "wait", "idle"} /\ drv.call # "shutdown"
    BY <1>3 DEF EnterResult, EnterWait, WaitReturns, Idle
  <2>2. FlagsOnly
    BY <2>1 DEF FlagsOnly, FacadeInv, FacadeType
  <2> QED BY <2>1, <2>2, MarksKeep
<1> QED BY <1>1, <1>2, <1>3

\* as_completed(): the futures move from in flight to ready to yielded.
LEMMA GeneratorKeeps ==
  ASSUME FacadeInv,
         AsCompleted(Made) \/ (\E f \in Futures : GenYield(f)) \/ GenWait \/ GenReady
           \/ GenRaises \/ GenStops
  PROVE  FacadeInv'
<1>0. /\ UNCHANGED <<kind, cap, closed, actor, queue, active, fut>>
      /\ drv'.call \in {"idle", "gen"} /\ drv.call \in {"idle", "gen"}
  <2>1. CASE AsCompleted(Made) \/ GenRaises \/ GenStops
    BY <2>1 DEF AsCompleted, GenRaises, GenStops, Idle
  <2>4. CASE \E f \in Futures : GenYield(f)
    <3>1. PICK f \in Futures : GenYield(f)
      BY <2>4
    <3>2. UNCHANGED <<kind, cap, closed, actor, queue, active, fut, drv>> /\ drv = Idle
      BY <3>1 DEF GenYield
    <3> QED BY <3>2 DEF Idle
  <2>2. CASE GenWait
    BY <2>2 DEF GenWait, Idle
  <2>3. CASE GenReady
    BY <2>3 DEF GenReady, Idle
  <2> QED BY <2>1, <2>2, <2>3, <2>4
<1>1. Numbered' /\ Placed' /\ Asked' /\ FacadeType'
  BY <1>0, SameFutures DEF FacadeInv, FacadeType
<1>2. TornDown'
  BY <1>0 DEF FacadeInv, TornDown, Settled
<1>3. Generated
  BY DEF FacadeInv
<1>4. fut' = fut
  BY <1>0
<1>5. ASSUME AsCompleted(Made) PROVE Generated'
  <2>1. /\ gen' = [NoGenerator EXCEPT !.state = "live", !.inputs = Made, !.inflight = Made]
        /\ drv' = drv /\ drv.call = "idle" /\ Made \subseteq Futures
    BY <1>5 DEF AsCompleted, Idle, Made
  <2>2. /\ DOMAIN gen' = {"state", "inputs", "inflight", "ready", "out"} /\ gen'.state = "live"
        /\ gen'.inputs = Made /\ gen'.inflight = Made /\ gen'.ready = {} /\ gen'.out = <<>>
    BY <2>1 DEF NoGenerator
  <2>3. gen'.out \in Seq(Futures) /\ DOMAIN gen'.out = {}
    BY <2>2
  <2> QED BY <2>1, <2>2, <2>3 DEF Generated
<1>6. ASSUME NEW f \in Futures, GenYield(f) PROVE Generated'
  <2>1. /\ gen' = [gen EXCEPT !.ready = @ \ {f}, !.out = Append(@, f)] /\ f \in gen.ready
        /\ gen.state = "live" /\ drv' = drv /\ drv.call = "idle"
    BY <1>6 DEF GenYield, Idle
  <2>2. /\ DOMAIN gen' = DOMAIN gen /\ gen'.state = gen.state /\ gen'.inputs = gen.inputs
        /\ gen'.inflight = gen.inflight /\ gen'.ready = gen.ready \ {f}
        /\ gen'.out = Append(gen.out, f)
    BY <1>3, <2>1 DEF Generated
  <2>3. /\ gen'.out \in Seq(Futures) /\ DOMAIN gen'.out = 1..(Len(gen.out) + 1)
        /\ DOMAIN gen.out = 1..Len(gen.out) /\ Len(gen.out) \in Nat
        /\ \A i \in 1..(Len(gen.out) + 1) :
             gen'.out[i] = IF i <= Len(gen.out) THEN gen.out[i] ELSE f
    BY <1>3, <2>2, Appended DEF Generated
  <2>4. /\ \A i \in DOMAIN gen'.out : \/ i \in DOMAIN gen.out /\ gen'.out[i] = gen.out[i]
                                      \/ i = Len(gen.out) + 1 /\ gen'.out[i] = f
        /\ \A i \in DOMAIN gen.out : i \in DOMAIN gen'.out /\ gen'.out[i] = gen.out[i]
        /\ Len(gen.out) + 1 \in DOMAIN gen'.out /\ gen'.out[Len(gen.out) + 1] = f
    BY <2>3
  <2>5. /\ f \in gen.inputs /\ f \notin gen.inflight /\ Settled(f)
        /\ \A i \in DOMAIN gen.out : gen.out[i] # f
    BY <1>3, <2>1 DEF Generated
  <2>6. \A g \in gen'.inputs : \/ g \in gen'.inflight \/ g \in gen'.ready
                               \/ \E i \in DOMAIN gen'.out : gen'.out[i] = g
    BY <1>3, <2>2, <2>4 DEF Generated
  <2>7. \A i \in DOMAIN gen'.out :
          /\ gen'.out[i] \in gen'.inputs /\ gen'.out[i] \notin gen'.inflight
          /\ gen'.out[i] \notin gen'.ready /\ fut[gen'.out[i]].st = "done"
    BY <1>3, <2>2, <2>4, <2>5 DEF Generated, Settled
  <2>8. ASSUME NEW i \in DOMAIN gen'.out, NEW j \in DOMAIN gen'.out, gen'.out[i] = gen'.out[j]
        PROVE  i = j
    <3>1. CASE gen'.out[i] = f
      BY <2>4, <2>5, <2>8, <3>1
    <3>2. CASE gen'.out[i] # f
      <4>1. i \in DOMAIN gen.out /\ j \in DOMAIN gen.out /\ gen.out[i] = gen.out[j]
        BY <2>4, <2>8, <3>2
      <4> QED BY <1>3, <4>1 DEF Generated
    <3> QED BY <3>1, <3>2
  <2>9. \A g \in gen'.ready : fut[g].st = "done" /\ g \notin gen'.inflight
    BY <1>3, <2>2 DEF Generated, Settled
  <2>10. /\ DOMAIN gen' = {"state", "inputs", "inflight", "ready", "out"}
         /\ gen'.inputs \subseteq Futures
         /\ gen'.inflight \subseteq gen'.inputs /\ gen'.ready \subseteq gen'.inputs
    BY <1>3, <2>2 DEF Generated
  <2> QED BY <1>4, <2>1, <2>2, <2>3, <2>6, <2>7, <2>8, <2>9, <2>10 DEF Generated, Settled
<1>7. ASSUME GenWait PROVE Generated'
  <2>1. gen' = gen /\ drv' = [call |-> "gen", on |-> gen.inflight, n |-> 1]
        /\ gen.state = "live" /\ gen.ready = {}
    BY <1>7 DEF GenWait
  <2>2. drv'.call = "gen" /\ drv'.on = gen.inflight
    BY <2>1
  <2> QED BY <1>3, <1>4, <2>1, <2>2 DEF Generated, Settled
<1>8. ASSUME GenReady PROVE Generated'
  <2>1. /\ gen' = [gen EXCEPT !.ready = drv.on \ Unsettled(drv.on), !.inflight = Unsettled(drv.on)]
        /\ drv.on = gen.inflight /\ gen.ready = {} /\ gen.state = "live" /\ drv'.call = "idle"
    BY <1>3, <1>8 DEF GenReady, poll, Generated, Idle
  <2>2. /\ DOMAIN gen' = DOMAIN gen /\ gen'.state = gen.state /\ gen'.inputs = gen.inputs
        /\ gen'.out = gen.out
        /\ gen'.ready = gen.inflight \ Unsettled(gen.inflight)
        /\ gen'.inflight = Unsettled(gen.inflight)
    BY <1>3, <2>1 DEF Generated
  <2>3. \A f \in Futures \cup gen.inflight :
          /\ f \in gen'.inflight <=> f \in gen.inflight /\ fut[f].st # "done"
          /\ f \in gen'.ready <=> f \in gen.inflight /\ fut[f].st = "done"
    BY <2>2 DEF Unsettled, Settled
  <2>4. gen'.inflight \subseteq gen.inflight /\ gen'.ready \subseteq gen.inflight
    BY <2>2 DEF Unsettled
  <2> QED BY <1>3, <1>4, <2>1, <2>2, <2>3, <2>4 DEF Generated, Settled
<1>9. ASSUME GenRaises \/ GenStops PROVE Generated'
  <2>1. /\ \/ gen' = [gen EXCEPT !.state = "raised"]
           \/ gen' = [gen EXCEPT !.state = "done"] /\ gen.inflight = {} /\ gen.ready = {}
        /\ drv' = drv /\ drv.call = "idle"
    BY <1>9 DEF GenRaises, GenStops, Idle
  <2>2. /\ DOMAIN gen' = DOMAIN gen /\ gen'.state \in {"raised", "done"} /\ gen'.inputs = gen.inputs
        /\ gen'.inflight = gen.inflight /\ gen'.ready = gen.ready /\ gen'.out = gen.out
        /\ gen'.state = "done" => gen.inflight = {} /\ gen.ready = {}
    BY <1>3, <2>1 DEF Generated
  <2>3. drv'.call # "gen"
    BY <2>1
  <2> QED BY <1>3, <1>4, <2>2, <2>3 DEF Generated, Settled
<1>10. Generated'
  BY <1>5, <1>6, <1>7, <1>8, <1>9
<1> QED BY <1>1, <1>2, <1>10 DEF FacadeInv

\* Every step of the package keeps the invariant of the facades.
LEMMA FacadeStep == FacadeInv /\ [Next]_pyVars => FacadeInv'
<1> SUFFICES ASSUME FacadeInv, [Next]_pyVars PROVE FacadeInv'
  OBVIOUS
<1>1. CASE UNCHANGED vars
  BY <1>1 DEF FacadeInv, FacadeType, Numbered, Placed, Asked, TornDown, Generated, Made, Settled, vars
<1>2. ASSUME FutureCalls PROVE FacadeInv'
  BY <1>2, TeardownsKeep, RowCallsKeep, GeneratorKeeps DEF FutureCalls
<1>3. CASE FacadeCalls
  <2>1. ASSUME NEW counts, SyntheticActor(counts) PROVE FacadeInv'
    BY <1>2, <2>1, SubmitKeeps, SubmitBatchKeeps DEF SyntheticActor, _SyntheticServeMethod
  <2>2. ASSUME RuntimeCalls PROVE FacadeInv'
    BY <2>2, SubmitOperationKeeps, TeardownsKeep, ActorCallKeeps DEF RuntimeCalls
  <2> QED BY <1>2, <1>3, <2>1, <2>2 DEF FacadeCalls
<1>4. CASE Lanes_
  BY <1>4, LaneKeeps DEF Lanes_, LaneStep
<1>5. CASE Returns_
  BY <1>5, TeardownsKeep, RowCallsKeep, GeneratorKeeps DEF Returns_, Return
<1> QED BY <1>1, <1>3, <1>4, <1>5 DEF Next, FacadeNext, EndpointNext, Listener_, OwnerNext,
                                       BridgeNext, pyVars, vars

\* Nothing submitted yet.
LEMMA InitFacade == PyInit => FacadeInv
<1> SUFFICES ASSUME PyInit PROVE FacadeInv
  OBVIOUS
<1>1. /\ kind \in Facades \cup {"endpoint", "owner", "bridge"}
      /\ closed = FALSE /\ actor = "none"
      /\ queue = [l \in Lanes |-> <<>>] /\ active = [l \in Lanes |-> NoFuture]
      /\ fut = [f \in Futures |-> NewFuture] /\ drv = Idle /\ gen = NoGenerator
  BY DEF PyInit, Init, Facades
<1>2. NewFuture \in FutureRows
  BY BothLanes DEF NewFuture, FutureRows
<1>3. \A f \in Futures : fut[f].st = "none" /\ ~fut[f].bad /\ ~fut[f].asked
  BY <1>1 DEF NewFuture
<1>4. FacadeType
  <2>1. /\ kind \in Facades \cup {"endpoint", "owner", "bridge"}
        /\ closed \in BOOLEAN /\ actor \in {"none", "live", "released"}
    BY <1>1
  <2>2. <<>> \in Seq(Futures)
    OBVIOUS
  <2>3. queue \in [Lanes -> Seq(Futures)]
    BY <1>1, <2>2
  <2>4. active \in [Lanes -> Futures \cup {NoFuture}] /\ fut \in [Futures -> FutureRows]
    BY <1>1, <1>2
  <2> QED BY <2>1, <2>3, <2>4 DEF FacadeType
<1>5. Numbered
  <2>1. Made = {}
    BY <1>3 DEF Made
  <2>2. 1..0 = {}
    OBVIOUS
  <2>3. 0 \in 0..MaxFutures
    BY FutureNumbers
  <2> QED BY <2>1, <2>2, <2>3 DEF Numbered
<1>6. Placed
  BY <1>1, <1>3 DEF Placed
<1>7. Asked
  BY <1>3 DEF Asked, Settled
<1>8. TornDown
  BY <1>1 DEF TornDown, Idle
<1>9. Generated
  <2>1. /\ DOMAIN gen = {"state", "inputs", "inflight", "ready", "out"} /\ gen.state = "none"
        /\ gen.inputs = {} /\ gen.inflight = {} /\ gen.ready = {} /\ gen.out = <<>>
    BY <1>1 DEF NoGenerator
  <2>2. gen.out \in Seq(Futures) /\ DOMAIN gen.out = {}
    BY <2>1
  <2> QED BY <1>1, <2>1, <2>2 DEF Generated, Idle
<1> QED BY <1>4, <1>5, <1>6, <1>7, <1>8, <1>9 DEF FacadeInv

\* The inductive invariant of the facades.
THEOREM FacadeInvariant == Spec => []FacadeInv
BY InitFacade, FacadeStep, PTL DEF Spec

\* What a driver learns of its futures is true: a row says "cancelled" exactly
\* when a cancellation was settled and fails only when the operation does, and
\* as_completed() yields each input once, never before its row is there
\* (Future, RuntimeFuture, as_completed()).
THEOREM PackageFutures == Spec => []FuturesHonest
<1>1. ASSUME FacadeInv PROVE FuturesHonest
  <2>1. RowsHonest
    BY <1>1 DEF FacadeInv, Asked, RowsHonest
  <2>2. AsCompletedExact
    BY <1>1 DEF FacadeInv, Generated, AsCompletedExact
  <2> QED BY <2>1, <2>2 DEF FuturesHonest
<1> QED BY <1>1, FacadeInvariant, PTL

\* shutdown() and release_actor() leave nothing unsettled behind
\* (Engine.shutdown, Runtime.shutdown, Runtime.release_actor).
THEOREM PackageShutdown == Spec => []ShutdownSettlesAll
<1>1. FacadeInv => ShutdownSettlesAll
  BY DEF FacadeInv, TornDown, ShutdownSettlesAll, Unsettled, Made
<1> QED BY <1>1, FacadeInvariant, PTL

=============================================================================
