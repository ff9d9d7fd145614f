-------------------------- MODULE SupervisedProofs --------------------------
(***************************************************************************)
(* Proofs about MCSupervised, for any number of requests, faults and       *)
(* snapshots.                                                              *)
(***************************************************************************)
EXTENDS MCSupervised, FiniteSetTheorems, WellFoundedInduction, TLAPS

-----------------------------------------------------------------------------
(* An island under load: the requests in its slots.                        *)

Request == [st : {"queued", "calling", "peer", "back", "done", "late", "latepeer"},
            arm : {"ray", "hpx"}, own : BOOLEAN, ok : BOOLEAN]
Requests == [Load!Slots -> {Load!Free} \cup Request]

\* Which slots hold a request inside the coordinating method, one of the loop
\* under way, and one of those that has been counted by the coordinator (Ray
\* only) or by the peer.
In(q) == q.st \in {"calling", "peer", "back"}
Mine(q) == q.st # "free" /\ q.own
Answered(q) == q.st \in {"peer", "back"} \/ (q.st = "done" /\ q.ok)
Fetched(q) == Mine(q) /\ q.arm = "ray" /\ (q.st = "calling" \/ Answered(q))
Served(q) == Mine(q) /\ Answered(q)

InSlots(r) == {s \in Load!Slots : In(r[s])}
MineSlots(r) == {s \in Load!Slots : Mine(r[s])}
FetchedSlots(r) == {s \in Load!Slots : Fetched(r[s])}
ServedSlots(r) == {s \in Load!Slots : Served(r[s])}

\* A request counts once or not at all.
InN(q) == IF In(q) THEN 1 ELSE 0
MineN(q) == IF Mine(q) THEN 1 ELSE 0
FetchedN(q) == IF Fetched(q) THEN 1 ELSE 0
ServedN(q) == IF Served(q) THEN 1 ELSE 0

\* A set that changes in one element.
LEMMA OneElement ==
  ASSUME NEW s, NEW A, NEW B, IsFiniteSet(A), \A x : x # s => (x \in A <=> x \in B)
  PROVE  /\ s \in A /\ s \notin B => Cardinality(B) = Cardinality(A) - 1
         /\ s \notin A /\ s \in B => Cardinality(B) = Cardinality(A) + 1
         /\ (s \in A <=> s \in B) => Cardinality(B) = Cardinality(A)
<1>1. (s \in A <=> s \in B) => A = B
  OBVIOUS
<1>2. s \in A /\ s \notin B => B = A \ {s}
  OBVIOUS
<1>3. s \notin A /\ s \in B => B = A \cup {s}
  OBVIOUS
<1> QED BY <1>1, <1>2, <1>3, FS_AddElement, FS_RemoveElement

LEMMA SlotsFinite == IsFiniteSet(Load!Slots)
  BY FS_Interval, LoadBounds, FaultBound DEF Load!Slots

LEMMA SlotSets ==
  ASSUME NEW r
  PROVE  /\ IsFiniteSet(InSlots(r)) /\ IsFiniteSet(MineSlots(r))
         /\ IsFiniteSet(FetchedSlots(r)) /\ IsFiniteSet(ServedSlots(r))
         /\ Cardinality(InSlots(r)) \in Nat /\ Cardinality(MineSlots(r)) \in Nat
         /\ Cardinality(FetchedSlots(r)) \in Nat /\ Cardinality(ServedSlots(r)) \in Nat
<1>1. /\ InSlots(r) \subseteq Load!Slots /\ MineSlots(r) \subseteq Load!Slots
      /\ FetchedSlots(r) \subseteq Load!Slots /\ ServedSlots(r) \subseteq Load!Slots
  BY DEF InSlots, MineSlots, FetchedSlots, ServedSlots
<1>2. /\ IsFiniteSet(InSlots(r)) /\ IsFiniteSet(MineSlots(r))
      /\ IsFiniteSet(FetchedSlots(r)) /\ IsFiniteSet(ServedSlots(r))
  BY <1>1, SlotsFinite, FS_Subset
<1> QED BY <1>2, FS_CardinalityType

\* One slot changes.
LEMMA OneSlot ==
  ASSUME NEW r \in Requests, NEW s \in Load!Slots, NEW q
  PROVE LET t == [r EXCEPT ![s] = q] IN
         /\ Cardinality(InSlots(t)) = Cardinality(InSlots(r)) - InN(r[s]) + InN(q)
         /\ Cardinality(MineSlots(t)) = Cardinality(MineSlots(r)) - MineN(r[s]) + MineN(q)
         /\ Cardinality(FetchedSlots(t)) = Cardinality(FetchedSlots(r)) - FetchedN(r[s]) + FetchedN(q)
         /\ Cardinality(ServedSlots(t)) = Cardinality(ServedSlots(r)) - ServedN(r[s]) + ServedN(q)
<1> DEFINE t == [r EXCEPT ![s] = q]
<1>1. t[s] = q /\ \A x \in Load!Slots : x # s => t[x] = r[x]
  BY DEF Requests
<1>2. /\ (s \in InSlots(r) <=> In(r[s])) /\ (s \in InSlots(t) <=> In(q))
      /\ \A x : x # s => (x \in InSlots(r) <=> x \in InSlots(t))
  BY <1>1 DEF InSlots
<1>3. /\ (s \in MineSlots(r) <=> Mine(r[s])) /\ (s \in MineSlots(t) <=> Mine(q))
      /\ \A x : x # s => (x \in MineSlots(r) <=> x \in MineSlots(t))
  BY <1>1 DEF MineSlots
<1>4. /\ (s \in FetchedSlots(r) <=> Fetched(r[s])) /\ (s \in FetchedSlots(t) <=> Fetched(q))
      /\ \A x : x # s => (x \in FetchedSlots(r) <=> x \in FetchedSlots(t))
  BY <1>1 DEF FetchedSlots
<1>5. /\ (s \in ServedSlots(r) <=> Served(r[s])) /\ (s \in ServedSlots(t) <=> Served(q))
      /\ \A x : x # s => (x \in ServedSlots(r) <=> x \in ServedSlots(t))
  BY <1>1 DEF ServedSlots
<1>6. Cardinality(InSlots(t)) = Cardinality(InSlots(r)) - InN(r[s]) + InN(q)
  <2>1. IsFiniteSet(InSlots(r)) /\ Cardinality(InSlots(r)) \in Nat
    BY SlotSets
  <2>2. /\ In(r[s]) /\ ~In(q) => Cardinality(InSlots(t)) = Cardinality(InSlots(r)) - 1
        /\ ~In(r[s]) /\ In(q) => Cardinality(InSlots(t)) = Cardinality(InSlots(r)) + 1
        /\ (In(r[s]) <=> In(q)) => Cardinality(InSlots(t)) = Cardinality(InSlots(r))
    <3> DEFINE A == InSlots(r)
               B == InSlots(t)
    <3>1. IsFiniteSet(A) /\ \A x : x # s => (x \in A <=> x \in B)
      BY <2>1, <1>2
    <3>2. (s \in A <=> In(r[s])) /\ (s \in B <=> In(q))
      BY <1>2
    <3> HIDE DEF A, B
    <3>3. /\ s \in A /\ s \notin B => Cardinality(B) = Cardinality(A) - 1
          /\ s \notin A /\ s \in B => Cardinality(B) = Cardinality(A) + 1
          /\ (s \in A <=> s \in B) => Cardinality(B) = Cardinality(A)
      BY <3>1, OneElement
    <3> QED BY <3>2, <3>3 DEF A, B
  <2> QED BY <2>1, <2>2 DEF InN
<1>7. Cardinality(MineSlots(t)) = Cardinality(MineSlots(r)) - MineN(r[s]) + MineN(q)
  <2>1. IsFiniteSet(MineSlots(r)) /\ Cardinality(MineSlots(r)) \in Nat
    BY SlotSets
  <2>2. /\ Mine(r[s]) /\ ~Mine(q) => Cardinality(MineSlots(t)) = Cardinality(MineSlots(r)) - 1
        /\ ~Mine(r[s]) /\ Mine(q) => Cardinality(MineSlots(t)) = Cardinality(MineSlots(r)) + 1
        /\ (Mine(r[s]) <=> Mine(q)) => Cardinality(MineSlots(t)) = Cardinality(MineSlots(r))
    <3> DEFINE A == MineSlots(r)
               B == MineSlots(t)
    <3>1. IsFiniteSet(A) /\ \A x : x # s => (x \in A <=> x \in B)
      BY <2>1, <1>3
    <3>2. (s \in A <=> Mine(r[s])) /\ (s \in B <=> Mine(q))
      BY <1>3
    <3> HIDE DEF A, B
    <3>3. /\ s \in A /\ s \notin B => Cardinality(B) = Cardinality(A) - 1
          /\ s \notin A /\ s \in B => Cardinality(B) = Cardinality(A) + 1
          /\ (s \in A <=> s \in B) => Cardinality(B) = Cardinality(A)
      BY <3>1, OneElement
    <3> QED BY <3>2, <3>3 DEF A, B
  <2> QED BY <2>1, <2>2 DEF MineN
<1>8. Cardinality(FetchedSlots(t)) = Cardinality(FetchedSlots(r)) - FetchedN(r[s]) + FetchedN(q)
  <2>1. IsFiniteSet(FetchedSlots(r)) /\ Cardinality(FetchedSlots(r)) \in Nat
    BY SlotSets
  <2>2. /\ Fetched(r[s]) /\ ~Fetched(q) => Cardinality(FetchedSlots(t)) = Cardinality(FetchedSlots(r)) - 1
        /\ ~Fetched(r[s]) /\ Fetched(q) => Cardinality(FetchedSlots(t)) = Cardinality(FetchedSlots(r)) + 1
        /\ (Fetched(r[s]) <=> Fetched(q)) => Cardinality(FetchedSlots(t)) = Cardinality(FetchedSlots(r))
    <3> DEFINE A == FetchedSlots(r)
               B == FetchedSlots(t)
    <3>1. IsFiniteSet(A) /\ \A x : x # s => (x \in A <=> x \in B)
      BY <2>1, <1>4
    <3>2. (s \in A <=> Fetched(r[s])) /\ (s \in B <=> Fetched(q))
      BY <1>4
    <3> HIDE DEF A, B
    <3>3. /\ s \in A /\ s \notin B => Cardinality(B) = Cardinality(A) - 1
          /\ s \notin A /\ s \in B => Cardinality(B) = Cardinality(A) + 1
          /\ (s \in A <=> s \in B) => Cardinality(B) = Cardinality(A)
      BY <3>1, OneElement
    <3> QED BY <3>2, <3>3 DEF A, B
  <2> QED BY <2>1, <2>2 DEF FetchedN
<1>9. Cardinality(ServedSlots(t)) = Cardinality(ServedSlots(r)) - ServedN(r[s]) + ServedN(q)
  <2>1. IsFiniteSet(ServedSlots(r)) /\ Cardinality(ServedSlots(r)) \in Nat
    BY SlotSets
  <2>2. /\ Served(r[s]) /\ ~Served(q) => Cardinality(ServedSlots(t)) = Cardinality(ServedSlots(r)) - 1
        /\ ~Served(r[s]) /\ Served(q) => Cardinality(ServedSlots(t)) = Cardinality(ServedSlots(r)) + 1
        /\ (Served(r[s]) <=> Served(q)) => Cardinality(ServedSlots(t)) = Cardinality(ServedSlots(r))
    <3> DEFINE A == ServedSlots(r)
               B == ServedSlots(t)
    <3>1. IsFiniteSet(A) /\ \A x : x # s => (x \in A <=> x \in B)
      BY <2>1, <1>5
    <3>2. (s \in A <=> Served(r[s])) /\ (s \in B <=> Served(q))
      BY <1>5
    <3> HIDE DEF A, B
    <3>3. /\ s \in A /\ s \notin B => Cardinality(B) = Cardinality(A) - 1
          /\ s \notin A /\ s \in B => Cardinality(B) = Cardinality(A) + 1
          /\ (s \in A <=> s \in B) => Cardinality(B) = Cardinality(A)
      BY <3>1, OneElement
    <3> QED BY <3>2, <3>3 DEF A, B
  <2> QED BY <2>1, <2>2 DEF ServedN
<1> HIDE DEF t
<1> QED BY <1>6, <1>7, <1>8, <1>9 DEF t

\* What a loop leaves in flight is nobody's, and still runs.
LEMMA GivenUp ==
  ASSUME NEW r \in Requests
  PROVE  /\ Load!GiveUp(r) \in Requests
         /\ InSlots(Load!GiveUp(r)) = InSlots(r) /\ MineSlots(Load!GiveUp(r)) = {}
         /\ FetchedSlots(Load!GiveUp(r)) = {} /\ ServedSlots(Load!GiveUp(r)) = {}
<1> DEFINE g == Load!GiveUp(r)
<1>1. ASSUME NEW s \in Load!Slots
      PROVE  /\ g[s] \in {Load!Free} \cup Request
             /\ In(g[s]) <=> In(r[s])
             /\ ~Mine(g[s]) /\ ~Fetched(g[s]) /\ ~Served(g[s])
  <2>1. r[s] \in {Load!Free} \cup Request
    BY DEF Requests
  <2>2. g[s] = IF r[s].st = "free" \/ ~r[s].own THEN r[s]
               ELSE IF r[s].st = "done" THEN Load!Free ELSE [r[s] EXCEPT !.own = FALSE]
    BY DEF Load!GiveUp
  <2>3. CASE r[s].st = "free" \/ ~r[s].own
    BY <2>1, <2>2, <2>3 DEF In, Mine, Fetched, Served
  <2>4. CASE r[s].st # "free" /\ r[s].own
    <3>1. r[s] \in Request
      BY <2>1, <2>4 DEF Load!Free
    <3>2. CASE r[s].st = "done"
      BY <2>2, <2>4, <3>2 DEF In, Mine, Fetched, Served, Load!Free
    <3>3. CASE r[s].st # "done"
      <4>1. g[s] = [r[s] EXCEPT !.own = FALSE]
        BY <2>2, <2>4, <3>3
      <4>2. g[s] \in Request /\ g[s].st = r[s].st /\ ~g[s].own
        BY <3>1, <4>1 DEF Request
      <4> QED BY <4>2 DEF In, Mine, Fetched, Served
    <3> QED BY <3>2, <3>3
  <2> QED BY <2>3, <2>4
<1>2. g \in Requests
  BY <1>1 DEF Requests, Load!GiveUp
<1> QED BY <1>1, <1>2 DEF InSlots, MineSlots, FetchedSlots, ServedSlots

\* A set of naturals that is not empty has a least element.
LEMMA LeastOf ==
  ASSUME NEW T \in SUBSET Nat, T # {}
  PROVE  \E m \in T : \A n \in T : m <= n
<1>1. PICK m \in T : \A n \in T : <<n, m>> \notin OpToRel(<, Nat)
  BY NatLessThanWellFounded, WFMin
<1>2. \A n \in T : ~(n < m)
  BY <1>1 DEF OpToRel
<1> QED BY <1>2

NewRequest == [st |-> "queued", arm |-> Load!Arm, own |-> TRUE, ok |-> TRUE]

\* A new request goes to a free slot.
LEMMA Submits ==
  ASSUME NEW r \in Requests, \E t \in Load!Slots : r[t].st = "free"
  PROVE  \E t \in Load!Slots : r[t].st = "free" /\ Load!SubmitTo(r) = [r EXCEPT ![t] = NewRequest]
<1> DEFINE F == {t \in Load!Slots : r[t].st = "free"}
           P(t) == t \in Load!Slots /\ r[t].st = "free" /\ \A u \in Load!Slots : u < t => r[u].st # "free"
<1>1. F \in SUBSET Nat /\ F # {}
  BY LoadBounds, FaultBound DEF Load!Slots
<1>2. PICK m \in F : \A n \in F : m <= n
  BY <1>1, LeastOf
<1>3. P(m)
  <2>1. ASSUME NEW u \in Load!Slots, u < m, r[u].st = "free" PROVE FALSE
    <3>1. u \in F /\ m <= u /\ u \in Nat /\ m \in Nat
      BY <1>1, <1>2, <2>1
    <3> QED BY <2>1, <3>1
  <2> QED BY <2>1
<1>4. PICK t : t = (CHOOSE v \in Load!Slots :
                      r[v].st = "free" /\ \A u \in Load!Slots : u < v => r[u].st # "free")
  OBVIOUS
<1>5. t \in Load!Slots /\ r[t].st = "free"
  BY <1>3, <1>4
<1>6. Load!SubmitTo(r) = [r EXCEPT ![t] = NewRequest]
  BY <1>4 DEF Load!SubmitTo, NewRequest
<1> QED BY <1>5, <1>6

-----------------------------------------------------------------------------
(* What holds of the loops, the counters and the verifier.                 *)

Looping == {"fill", "wait", "enqueue_good", "enqueue_bad"}
Enqueuing == {"enqueue_good", "enqueue_bad"}
Items == {"good", "bad", "stop"}

LoadTypes ==
    /\ stage \in 1..4 /\ loop \in {"soak", "warm", "meas"} /\ reqs \in Requests
    /\ submitted \in Nat /\ completed \in Nat /\ taint \in Nat
    /\ served \in [Load!Counters -> Nat] /\ before \in [Load!Counters -> Nat]
    /\ active \in [Load!Methods -> [cur : Int, max : Int]]
    /\ verifier \in [q : Seq(Items), hand : Items \cup {"none"}, verified : Nat, invalid : Nat,
                     exception : BOOLEAN, high_water : Nat, blocked : BOOLEAN]

\* Which loop a step belongs to, and that only a loop under way has requests
\* of its own, as many as it has submitted and not yet got back.
SubmittedKept ==
    lpc \in Looping => /\ Cardinality(MineSlots(reqs)) + completed = submitted
                       /\ submitted <= Load!Total
SlotsOwned ==
    \A s \in Load!Slots : /\ Mine(reqs[s]) => reqs[s].arm = Load!Arm
                          /\ reqs[s].st \in {"late", "latepeer"} => ~reqs[s].own
LoadControl ==
    /\ lpc = "begin" => loop = "soak" /\ submitted = 0 /\ completed = 0
    /\ lpc = "window" => loop = "warm"
    /\ lpc \in Enqueuing \cup {"drain", "join"} => loop = "meas"
    /\ loop # "meas" => verifier = Load!NewVerifier /\ taint = 0
    /\ SubmittedKept /\ SlotsOwned
    /\ lpc \notin Looping => MineSlots(reqs) = {}

\* A wrong result leaves a trace until the batch is judged.
WrongSeen ==
    \/ lpc = "enqueue_bad" \/ verifier.hand = "bad" \/ verifier.invalid > 0 \/ verifier.exception
    \/ \E i \in DOMAIN verifier.q : verifier.q[i] = "bad"

Sum(f) == f["outgoing_ray_fetch"] + f["serving_ray_fetch"] + f["hpx_actions_served"]

\* The counters show at least the steps of the batch's own requests and those
\* of the requests given up before it, even where the first reading failed.
LoadCounted ==
    /\ active["coord"].cur = Cardinality(InSlots(reqs))
    /\ loop = "meas" /\ ~WrongSeen =>
         Sum(served) - Sum(before) >=
           (IF Load!Arm = "ray" THEN completed ELSE 0) + completed
             + Cardinality(FetchedSlots(reqs)) + Cardinality(ServedSlots(reqs)) + taint

\* Every result is in the queue, in hand or counted, and the stop mark is last.
Handed == verifier.verified + verifier.invalid + Len(verifier.q) + (IF verifier.hand = "none" THEN 0 ELSE 1)
LoadVerified ==
    /\ loop = "meas" /\ ~verifier.exception =>
         Handed = completed + (IF lpc \in Enqueuing THEN 0 - 1 ELSE IF lpc \in {"join", "judge"} THEN 1 ELSE 0)
    /\ loop = "meas" /\ lpc \in {"join", "judge"} =>
         \/ verifier.hand = "stop" /\ verifier.q = <<>>
         \/ verifier.q # <<>> /\ verifier.q[Len(verifier.q)] = "stop"

LoadInv == LoadTypes /\ LoadControl /\ LoadCounted /\ LoadVerified

LEMMA SumType ==
  ASSUME NEW f \in [Load!Counters -> Nat]
  PROVE  Sum(f) \in Nat
<1>1. f["outgoing_ray_fetch"] \in Nat /\ f["serving_ray_fetch"] \in Nat /\ f["hpx_actions_served"] \in Nat
  BY DEF Load!Counters
<1> QED BY <1>1 DEF Sum

-----------------------------------------------------------------------------
(* The actors.                                                             *)

\* A step of the actors: the loop's own requests stay its own, and whatever it
\* adds to their progress or to the foreign steps shows in the counters.
LEMMA QuietKeeps ==
  ASSUME LoadInv, Load!Quiet, reqs' \in Requests, taint' \in Nat, loop # "meas" => taint' = taint,
         served' \in [Load!Counters -> Nat], active' \in [Load!Methods -> [cur : Int, max : Int]],
         \A s \in Load!Slots : /\ Mine(reqs'[s]) <=> Mine(reqs[s])
                               /\ Mine(reqs'[s]) => reqs'[s].arm = reqs[s].arm
                               /\ reqs'[s].st \in {"late", "latepeer"} => ~reqs'[s].own,
         active'["coord"].cur = Cardinality(InSlots(reqs')),
         Sum(served') - Sum(served) >=
             Cardinality(FetchedSlots(reqs')) - Cardinality(FetchedSlots(reqs))
           + Cardinality(ServedSlots(reqs')) - Cardinality(ServedSlots(reqs)) + taint' - taint
  PROVE  LoadInv'
<1>1. UNCHANGED <<stage, lpc, loop, submitted, completed, before, verifier>>
  BY DEF Load!Quiet
<1>2. MineSlots(reqs') = MineSlots(reqs)
  BY DEF MineSlots
<1>3. LoadTypes'
  BY <1>1 DEF LoadInv, LoadTypes
<1>4. LoadControl'
  BY <1>1, <1>2 DEF LoadInv, LoadControl, SubmittedKept, SlotsOwned, Load!Total, Load!Arm, Load!Stages, Load!NewVerifier
<1>5. LoadCounted'
  <2>1. WrongSeen' <=> WrongSeen
    BY <1>1 DEF WrongSeen
  <2>2. Load!Arm' = Load!Arm
    BY <1>1 DEF Load!Arm
  <2>3. /\ Cardinality(FetchedSlots(reqs)) \in Nat /\ Cardinality(ServedSlots(reqs)) \in Nat
        /\ Cardinality(FetchedSlots(reqs')) \in Nat /\ Cardinality(ServedSlots(reqs')) \in Nat
    BY SlotSets
  <2>4. Sum(served) \in Nat /\ Sum(served') \in Nat /\ Sum(before) \in Nat /\ Sum(before') = Sum(before)
    <3>1. served \in [Load!Counters -> Nat] /\ before \in [Load!Counters -> Nat]
      BY DEF LoadInv, LoadTypes
    <3>2. before' = before
      BY <1>1
    <3> QED BY <3>1, <3>2, SumType
  <2>5. completed \in Nat /\ taint \in Nat /\ taint' \in Nat /\ completed' = completed
    BY <1>1 DEF LoadInv, LoadTypes
  <2> DEFINE F == Cardinality(FetchedSlots(reqs))
             G == Cardinality(ServedSlots(reqs))
             F1 == Cardinality(FetchedSlots(reqs'))
             G1 == Cardinality(ServedSlots(reqs'))
  <2>6. loop = "meas" /\ ~WrongSeen =>
          Sum(served) - Sum(before) >= (IF Load!Arm = "ray" THEN completed ELSE 0) + completed + F + G + taint
    BY DEF LoadInv, LoadCounted
  <2>7. Sum(served') - Sum(served) >= F1 - F + G1 - G + taint' - taint
    OBVIOUS
  <2> HIDE DEF F, G, F1, G1
  <2>8. loop = "meas" /\ ~WrongSeen =>
          Sum(served') - Sum(before) >= (IF Load!Arm = "ray" THEN completed ELSE 0) + completed + F1 + G1 + taint'
    BY <2>3, <2>4, <2>5, <2>6, <2>7 DEF F, G, F1, G1
  <2> QED BY <1>1, <2>1, <2>2, <2>4, <2>5, <2>8 DEF LoadCounted, F1, G1
<1>6. LoadVerified'
  BY <1>1 DEF LoadInv, LoadVerified, Handed
<1> QED BY <1>3, <1>4, <1>5, <1>6 DEF LoadInv

\* One request moves on.
LEMMA OneMoves ==
  ASSUME LoadInv, Load!Quiet, NEW s \in Load!Slots, NEW q \in {Load!Free} \cup Request,
         reqs' = [reqs EXCEPT ![s] = q],
         Mine(q) <=> Mine(reqs[s]), Mine(q) => q.arm = reqs[s].arm,
         q.st \in {"late", "latepeer"} => ~q.own,
         taint' \in Nat, loop # "meas" => taint' = taint,
         served' \in [Load!Counters -> Nat], active' \in [Load!Methods -> [cur : Int, max : Int]],
         active'["coord"].cur = active["coord"].cur - InN(reqs[s]) + InN(q),
         Sum(served') - Sum(served) >=
             FetchedN(q) - FetchedN(reqs[s]) + ServedN(q) - ServedN(reqs[s]) + taint' - taint
  PROVE  LoadInv'
<1>1. reqs \in Requests /\ reqs' \in Requests
  BY DEF LoadInv, LoadTypes, Requests
<1>2. \A u \in Load!Slots : reqs'[u] = IF u = s THEN q ELSE reqs[u]
  BY <1>1 DEF Requests
<1>3. \A u \in Load!Slots : /\ Mine(reqs'[u]) <=> Mine(reqs[u])
                            /\ Mine(reqs'[u]) => reqs'[u].arm = reqs[u].arm
                            /\ reqs'[u].st \in {"late", "latepeer"} => ~reqs'[u].own
  BY <1>2 DEF LoadInv, LoadControl, SlotsOwned
<1>4. /\ Cardinality(InSlots(reqs')) = Cardinality(InSlots(reqs)) - InN(reqs[s]) + InN(q)
      /\ Cardinality(FetchedSlots(reqs')) = Cardinality(FetchedSlots(reqs)) - FetchedN(reqs[s]) + FetchedN(q)
      /\ Cardinality(ServedSlots(reqs')) = Cardinality(ServedSlots(reqs)) - ServedN(reqs[s]) + ServedN(q)
  <2>1. reqs \in Requests
    BY <1>1
  <2> DEFINE t == [reqs EXCEPT ![s] = q]
  <2>2. /\ Cardinality(InSlots(t)) = Cardinality(InSlots(reqs)) - InN(reqs[s]) + InN(q)
        /\ Cardinality(FetchedSlots(t)) = Cardinality(FetchedSlots(reqs)) - FetchedN(reqs[s]) + FetchedN(q)
        /\ Cardinality(ServedSlots(t)) = Cardinality(ServedSlots(reqs)) - ServedN(reqs[s]) + ServedN(q)
    BY <2>1, OneSlot
  <2>3. reqs' = t
    OBVIOUS
  <2> HIDE DEF t
  <2> QED BY <2>2, <2>3
<1>5. active["coord"].cur = Cardinality(InSlots(reqs))
  BY DEF LoadInv, LoadCounted
<1>6. /\ Cardinality(FetchedSlots(reqs)) \in Nat /\ Cardinality(ServedSlots(reqs)) \in Nat
      /\ FetchedN(q) \in Nat /\ ServedN(q) \in Nat /\ FetchedN(reqs[s]) \in Nat /\ ServedN(reqs[s]) \in Nat
  BY SlotSets DEF FetchedN, ServedN
<1>7. Sum(served') - Sum(served) >=
             Cardinality(FetchedSlots(reqs')) - Cardinality(FetchedSlots(reqs))
           + Cardinality(ServedSlots(reqs')) - Cardinality(ServedSlots(reqs)) + taint' - taint
  <2>1. taint \in Nat /\ taint' \in Nat
    BY DEF LoadInv, LoadTypes
  <2>2. /\ Cardinality(FetchedSlots(reqs')) - Cardinality(FetchedSlots(reqs)) = FetchedN(q) - FetchedN(reqs[s])
        /\ Cardinality(ServedSlots(reqs')) - Cardinality(ServedSlots(reqs)) = ServedN(q) - ServedN(reqs[s])
        /\ Cardinality(FetchedSlots(reqs')) \in Int /\ Cardinality(ServedSlots(reqs')) \in Int
    BY <1>4, <1>6
  <2> QED BY <1>6, <2>1, <2>2
<1> QED BY <1>1, <1>3, <1>4, <1>5, <1>7, QuietKeeps

\* What a counted step, and one into or out of a method, does to the counters.
LEMMA Counted ==
  ASSUME LoadInv, NEW s \in Load!Slots, NEW k \in Load!Counters, Load!Count(s, k)
  PROVE  /\ served' \in [Load!Counters -> Nat] /\ Sum(served') = Sum(served) + 1
         /\ taint \in Nat /\ taint' \in Nat /\ taint' <= taint + 1
         /\ loop # "meas" \/ Mine(reqs[s]) => taint' = taint
<1>1. served \in [Load!Counters -> Nat] /\ taint \in Nat
  BY DEF LoadInv, LoadTypes
<1>2. served' = [served EXCEPT ![k] = @ + 1]
  BY DEF Load!Count
<1>3. served' \in [Load!Counters -> Nat]
  BY <1>1, <1>2
<1>4. Sum(served') = Sum(served) + 1
  <2>1. \A c \in Load!Counters : served[c] \in Nat /\ served'[c] = IF c = k THEN served[c] + 1 ELSE served[c]
    BY <1>1, <1>2
  <2>2. /\ "outgoing_ray_fetch" \in Load!Counters /\ "serving_ray_fetch" \in Load!Counters
        /\ "hpx_actions_served" \in Load!Counters
        /\ k \in {"outgoing_ray_fetch", "serving_ray_fetch", "hpx_actions_served"}
    BY DEF Load!Counters
  <2> QED BY <2>1, <2>2 DEF Sum
<1>5. taint' = IF Mine(reqs[s]) \/ loop # "meas" THEN taint ELSE taint + 1
  BY DEF Load!Count, Load!Own, Mine
<1> QED BY <1>1, <1>3, <1>4, <1>5

LEMMA Entered ==
  ASSUME LoadInv, NEW k \in Load!Methods, active' = Load!_active_enter(active, k)
  PROVE  /\ active' \in [Load!Methods -> [cur : Int, max : Int]]
         /\ active'["coord"].cur = active["coord"].cur + (IF k = "coord" THEN 1 ELSE 0)
<1>1. active \in [Load!Methods -> [cur : Int, max : Int]] /\ "coord" \in Load!Methods
  BY DEF LoadInv, LoadTypes, Load!Methods
<1> DEFINE e == [cur |-> active[k].cur + 1,
                 max |-> IF active[k].cur + 1 > active[k].max THEN active[k].cur + 1 ELSE active[k].max]
<1>2. active' = [active EXCEPT ![k] = e]
  BY DEF Load!_active_enter
<1>3. active[k] \in [cur : Int, max : Int] /\ active["coord"] \in [cur : Int, max : Int]
  BY <1>1
<1>4. e \in [cur : Int, max : Int] /\ e.cur = active[k].cur + 1
  BY <1>3
<1> HIDE DEF e
<1> QED BY <1>1, <1>2, <1>3, <1>4

LEMMA Exited ==
  ASSUME LoadInv, NEW k \in Load!Methods, active' = Load!_active_exit(active, k)
  PROVE  /\ active' \in [Load!Methods -> [cur : Int, max : Int]]
         /\ active'["coord"].cur = active["coord"].cur - (IF k = "coord" THEN 1 ELSE 0)
<1>1. active \in [Load!Methods -> [cur : Int, max : Int]] /\ "coord" \in Load!Methods
  BY DEF LoadInv, LoadTypes, Load!Methods
<1> DEFINE e == [active[k] EXCEPT !.cur = @ - 1]
<1>2. active' = [active EXCEPT ![k] = e]
  BY <1>1 DEF Load!_active_exit
<1>3. active[k] \in [cur : Int, max : Int] /\ active["coord"] \in [cur : Int, max : Int]
  BY <1>1
<1>4. e \in [cur : Int, max : Int] /\ e.cur = active[k].cur - 1
  BY <1>3
<1> HIDE DEF e
<1> QED BY <1>1, <1>2, <1>3, <1>4

\* A request that moves on keeps its arm, its owner and its answer.
LEMMA Moved ==
  ASSUME LoadInv, NEW s \in Load!Slots, reqs[s].st # "free",
         NEW st \in {"queued", "calling", "peer", "back", "done", "late", "latepeer"}
  PROVE  LET q == [reqs[s] EXCEPT !.st = st]
         IN  /\ reqs[s] \in Request
             /\ q \in Request /\ q.st = st /\ q.arm = reqs[s].arm /\ q.own = reqs[s].own /\ q.ok = reqs[s].ok
<1>1. reqs[s] \in {Load!Free} \cup Request
  BY DEF LoadInv, LoadTypes, Requests
<1>2. reqs[s] \in Request
  BY <1>1 DEF Load!Free
<1> QED BY <1>2 DEF Request

LEMMA RayCoordinateKeeps ==
  ASSUME LoadInv, NEW s \in Load!Slots, Load!ray_coordinate(s)
  PROVE  LoadInv'
<1> DEFINE q == [reqs[s] EXCEPT !.st = "calling"]
<1>1. /\ reqs[s].st = "queued" /\ reqs[s].arm = "ray" /\ Load!Quiet /\ reqs' = [reqs EXCEPT ![s] = q]
      /\ active' = Load!_active_enter(active, "coord") /\ Load!Count(s, "outgoing_ray_fetch")
  BY DEF Load!ray_coordinate, Load!Enter, Load!Move
<1>2. /\ reqs[s] \in Request /\ q \in Request
      /\ q.st = "calling" /\ q.arm = reqs[s].arm /\ q.own = reqs[s].own /\ q.ok = reqs[s].ok
  BY <1>1, Moved
<1>3. /\ served' \in [Load!Counters -> Nat] /\ Sum(served') = Sum(served) + 1
      /\ taint \in Nat /\ taint' \in Nat /\ taint' <= taint + 1
      /\ loop # "meas" \/ Mine(reqs[s]) => taint' = taint
  BY <1>1, Counted DEF Load!Counters
<1>4. /\ active' \in [Load!Methods -> [cur : Int, max : Int]]
      /\ active'["coord"].cur = active["coord"].cur + 1
  BY <1>1, Entered DEF Load!Methods
<1> HIDE DEF q
<1>5. Sum(served) \in Nat
  BY SumType DEF LoadInv, LoadTypes
<1>6. (Mine(q) <=> Mine(reqs[s])) /\ InN(reqs[s]) = 0 /\ InN(q) = 1
  BY <1>1, <1>2 DEF Mine, InN, In
<1>7. /\ FetchedN(reqs[s]) = 0 /\ ServedN(reqs[s]) = 0 /\ ServedN(q) = 0
      /\ FetchedN(q) = IF Mine(reqs[s]) THEN 1 ELSE 0
  BY <1>1, <1>2 DEF FetchedN, ServedN, Fetched, Served, Answered, Mine
<1>8. Sum(served') - Sum(served) >= FetchedN(q) - FetchedN(reqs[s]) + ServedN(q) - ServedN(reqs[s]) + taint' - taint
  BY <1>3, <1>5, <1>7
<1>9. active["coord"].cur \in Int
  BY DEF LoadInv, LoadTypes, Load!Methods
<1>10. active'["coord"].cur = active["coord"].cur - InN(reqs[s]) + InN(q)
  BY <1>4, <1>6, <1>9
<1> QED BY <1>1, <1>2, <1>3, <1>4, <1>6, <1>8, <1>10, OneMoves

LEMMA HpxCoordinateKeeps ==
  ASSUME LoadInv, NEW s \in Load!Slots, Load!hpx_coordinate(s)
  PROVE  LoadInv'
<1> DEFINE q == [reqs[s] EXCEPT !.st = "calling"]
<1>1. /\ reqs[s].st = "queued" /\ reqs[s].arm = "hpx" /\ Load!Quiet /\ reqs' = [reqs EXCEPT ![s] = q]
      /\ active' = Load!_active_enter(active, "coord") /\ served' = served /\ taint' = taint
  BY DEF Load!hpx_coordinate, Load!Enter, Load!Move
<1>2. /\ reqs[s] \in Request /\ q \in Request
      /\ q.st = "calling" /\ q.arm = reqs[s].arm /\ q.own = reqs[s].own /\ q.ok = reqs[s].ok
  BY <1>1, Moved
<1>3. served' \in [Load!Counters -> Nat] /\ taint' \in Nat
  BY <1>1 DEF LoadInv, LoadTypes
<1>4. /\ active' \in [Load!Methods -> [cur : Int, max : Int]]
      /\ active'["coord"].cur = active["coord"].cur + 1
  BY <1>1, Entered DEF Load!Methods
<1> HIDE DEF q
<1>5. Sum(served') \in Nat
  BY <1>3, SumType
<1>6. (Mine(q) <=> Mine(reqs[s])) /\ InN(reqs[s]) = 0 /\ InN(q) = 1
  BY <1>1, <1>2 DEF Mine, InN, In
<1>7. FetchedN(reqs[s]) = 0 /\ ServedN(reqs[s]) = 0 /\ ServedN(q) = 0 /\ FetchedN(q) = 0
  BY <1>1, <1>2 DEF FetchedN, ServedN, Fetched, Served, Answered, Mine
<1>8. Sum(served') - Sum(served) >= FetchedN(q) - FetchedN(reqs[s]) + ServedN(q) - ServedN(reqs[s]) + taint' - taint
  BY <1>1, <1>3, <1>5, <1>7
<1>9. active["coord"].cur \in Int
  BY DEF LoadInv, LoadTypes, Load!Methods
<1>10. active'["coord"].cur = active["coord"].cur - InN(reqs[s]) + InN(q)
  BY <1>4, <1>6, <1>9
<1> QED BY <1>1, <1>2, <1>3, <1>4, <1>6, <1>8, <1>10, OneMoves

LEMMA PeerEnterKeeps ==
  ASSUME LoadInv, NEW s \in Load!Slots, Load!PeerServes(s), reqs[s].st \in {"calling", "late"}
  PROVE  LoadInv'
<1> DEFINE st == IF reqs[s].st = "late" THEN "latepeer" ELSE "peer"
           k == IF reqs[s].arm = "ray" THEN "serving_ray_fetch" ELSE "hpx_actions_served"
           q == [reqs[s] EXCEPT !.st = st]
<1>1. /\ Load!Quiet /\ reqs' = [reqs EXCEPT ![s] = q]
      /\ active' = Load!_active_enter(active, Load!PeerMethod(s)) /\ Load!Count(s, k)
  BY DEF Load!PeerServes, Load!Move
<1>2. /\ reqs[s] \in Request /\ q \in Request
      /\ q.st = st /\ q.arm = reqs[s].arm /\ q.own = reqs[s].own /\ q.ok = reqs[s].ok
  <2>1. reqs[s].st # "free" /\ st \in {"queued", "calling", "peer", "back", "done", "late", "latepeer"}
    OBVIOUS
  <2> HIDE DEF st
  <2> QED BY <2>1, Moved
<1>3. k \in Load!Counters /\ Load!PeerMethod(s) \in Load!Methods /\ Load!PeerMethod(s) # "coord"
  BY DEF Load!Counters, Load!Methods, Load!PeerMethod
<1> HIDE DEF k
<1>4. /\ served' \in [Load!Counters -> Nat] /\ Sum(served') = Sum(served) + 1
      /\ taint \in Nat /\ taint' \in Nat /\ taint' <= taint + 1
      /\ loop # "meas" \/ Mine(reqs[s]) => taint' = taint
  BY <1>1, <1>3, Counted
<1>5. /\ active' \in [Load!Methods -> [cur : Int, max : Int]]
      /\ active'["coord"].cur = active["coord"].cur + 0
  BY <1>1, <1>3, Entered
<1> HIDE DEF q
<1>6. Sum(served) \in Nat
  BY SumType DEF LoadInv, LoadTypes
<1>7. (Mine(q) <=> Mine(reqs[s])) /\ InN(reqs[s]) = InN(q) /\ InN(q) \in Nat
  BY <1>2 DEF Mine, InN, In
<1>8. reqs[s].st = "late" => ~reqs[s].own
  BY DEF LoadInv, LoadControl, SlotsOwned
<1>9. /\ FetchedN(q) = FetchedN(reqs[s]) /\ ServedN(reqs[s]) = 0 /\ FetchedN(q) \in Nat
      /\ ServedN(q) = IF Mine(reqs[s]) THEN 1 ELSE 0
  BY <1>2, <1>8 DEF FetchedN, ServedN, Fetched, Served, Answered, Mine
<1>10. Sum(served') - Sum(served) >= FetchedN(q) - FetchedN(reqs[s]) + ServedN(q) - ServedN(reqs[s]) + taint' - taint
  BY <1>4, <1>6, <1>9
<1>11. active["coord"].cur \in Int
  BY DEF LoadInv, LoadTypes, Load!Methods
<1>12. active'["coord"].cur = active["coord"].cur - InN(reqs[s]) + InN(q)
  BY <1>5, <1>7, <1>11
<1>13. q.st \in {"late", "latepeer"} => ~q.own
  BY <1>2, <1>8
<1> QED BY <1>1, <1>2, <1>4, <1>5, <1>7, <1>10, <1>12, <1>13, OneMoves

LEMMA PeerExitKeeps ==
  ASSUME LoadInv, NEW s \in Load!Slots, Load!PeerServes(s), reqs[s].st \in {"peer", "latepeer"}
  PROVE  LoadInv'
<1> DEFINE b == [reqs[s] EXCEPT !.st = "back"]
           q == IF reqs[s].st = "peer" THEN b ELSE Load!Free
<1>1. /\ Load!Quiet /\ reqs' = [reqs EXCEPT ![s] = q]
      /\ active' = Load!_active_exit(active, Load!PeerMethod(s)) /\ served' = served /\ taint' = taint
  BY DEF Load!PeerServes
<1>2. /\ reqs[s] \in Request /\ b \in Request
      /\ b.st = "back" /\ b.arm = reqs[s].arm /\ b.own = reqs[s].own
  BY Moved
<1>3. Load!PeerMethod(s) \in Load!Methods /\ Load!PeerMethod(s) # "coord"
  BY DEF Load!Methods, Load!PeerMethod
<1>4. served' \in [Load!Counters -> Nat] /\ taint' \in Nat
  BY <1>1 DEF LoadInv, LoadTypes
<1>5. /\ active' \in [Load!Methods -> [cur : Int, max : Int]]
      /\ active'["coord"].cur = active["coord"].cur - 0
  BY <1>1, <1>3, Exited
<1>6. reqs[s].st = "latepeer" => ~reqs[s].own
  BY DEF LoadInv, LoadControl, SlotsOwned
<1>7. q \in {Load!Free} \cup Request /\ q.st \notin {"late", "latepeer"}
  BY <1>2 DEF Load!Free
<1>8. /\ (Mine(q) <=> Mine(reqs[s])) /\ (Mine(q) => q.arm = reqs[s].arm)
      /\ InN(reqs[s]) = InN(q) /\ InN(q) \in Nat
      /\ FetchedN(q) = FetchedN(reqs[s]) /\ FetchedN(q) \in Nat
      /\ ServedN(q) = ServedN(reqs[s]) /\ ServedN(q) \in Nat
  <2>1. CASE reqs[s].st = "peer"
    <3>1. q = b
      BY <2>1
    <3> HIDE DEF q, b
    <3> QED BY <1>2, <2>1, <3>1 DEF Mine, InN, In, FetchedN, Fetched, ServedN, Served, Answered
  <2>2. CASE reqs[s].st = "latepeer"
    <3>1. q = Load!Free /\ Load!Free.st = "free"
      BY <2>2 DEF Load!Free
    <3> HIDE DEF q, b
    <3> QED BY <1>2, <1>6, <2>2, <3>1 DEF Mine, InN, In, FetchedN, Fetched, ServedN, Served, Answered
  <2> QED BY <2>1, <2>2
<1> HIDE DEF q, b
<1>9. Sum(served) \in Nat /\ taint \in Nat
  BY SumType DEF LoadInv, LoadTypes
<1>10. Sum(served') - Sum(served) >= FetchedN(q) - FetchedN(reqs[s]) + ServedN(q) - ServedN(reqs[s]) + taint' - taint
  BY <1>1, <1>8, <1>9
<1>11. active["coord"].cur \in Int
  BY DEF LoadInv, LoadTypes, Load!Methods
<1>12. active'["coord"].cur = active["coord"].cur - InN(reqs[s]) + InN(q)
  BY <1>5, <1>8, <1>11
<1> QED BY <1>1, <1>4, <1>5, <1>7, <1>8, <1>10, <1>12, OneMoves

LEMMA ReturnKeeps ==
  ASSUME LoadInv, NEW s \in Load!Slots, Load!Return(s)
  PROVE  LoadInv'
<1>1. PICK ok \in BOOLEAN :
        reqs' = [reqs EXCEPT ![s] = IF @.own THEN [@ EXCEPT !.st = "done", !.ok = ok] ELSE Load!Free]
  BY DEF Load!Return
<1> DEFINE b == [reqs[s] EXCEPT !.st = "done", !.ok = ok]
           q == IF reqs[s].own THEN b ELSE Load!Free
<1>2. /\ reqs[s].st = "back" /\ Load!Quiet /\ reqs' = [reqs EXCEPT ![s] = q]
      /\ active' = Load!_active_exit(active, "coord") /\ served' = served /\ taint' = taint
  BY <1>1 DEF Load!Return
<1>3. reqs[s] \in Request
  BY <1>2, Moved
<1>4. b \in Request /\ b.st = "done" /\ b.arm = reqs[s].arm /\ b.own = reqs[s].own
  BY <1>3 DEF Request
<1>5. served' \in [Load!Counters -> Nat] /\ taint' \in Nat
  BY <1>2 DEF LoadInv, LoadTypes
<1>6. /\ active' \in [Load!Methods -> [cur : Int, max : Int]]
      /\ active'["coord"].cur = active["coord"].cur - 1
  BY <1>2, Exited DEF Load!Methods
<1>7. q \in {Load!Free} \cup Request /\ q.st \notin {"late", "latepeer"}
  BY <1>4 DEF Load!Free
<1>8. /\ (Mine(q) <=> Mine(reqs[s])) /\ (Mine(q) => q.arm = reqs[s].arm)
      /\ InN(reqs[s]) = 1 /\ InN(q) = 0
      /\ FetchedN(q) <= FetchedN(reqs[s]) /\ FetchedN(q) \in Nat /\ FetchedN(reqs[s]) \in Nat
      /\ ServedN(q) <= ServedN(reqs[s]) /\ ServedN(q) \in Nat /\ ServedN(reqs[s]) \in Nat
  <2>1. CASE reqs[s].own
    <3>1. q = b
      BY <2>1
    <3> HIDE DEF q, b
    <3>2. Mine(q) /\ Mine(reqs[s]) /\ q.arm = reqs[s].arm /\ In(reqs[s]) /\ ~In(q)
      BY <1>2, <1>4, <2>1, <3>1 DEF Mine, In
    <3>3. (Fetched(q) => Fetched(reqs[s])) /\ Served(reqs[s])
      BY <1>2, <3>2 DEF Fetched, Served, Answered
    <3> QED BY <3>2, <3>3 DEF InN, FetchedN, ServedN
  <2>2. CASE ~reqs[s].own
    <3>1. q = Load!Free /\ Load!Free.st = "free"
      BY <2>2 DEF Load!Free
    <3> HIDE DEF q, b
    <3> QED BY <1>2, <2>2, <3>1 DEF Mine, InN, In, FetchedN, Fetched, ServedN, Served, Answered
  <2> QED BY <2>1, <2>2
<1> HIDE DEF q, b
<1>9. Sum(served) \in Nat /\ taint \in Nat
  BY SumType DEF LoadInv, LoadTypes
<1>10. Sum(served') - Sum(served) >= FetchedN(q) - FetchedN(reqs[s]) + ServedN(q) - ServedN(reqs[s]) + taint' - taint
  BY <1>2, <1>8, <1>9
<1>11. active["coord"].cur \in Int
  BY DEF LoadInv, LoadTypes, Load!Methods
<1>12. active'["coord"].cur = active["coord"].cur - InN(reqs[s]) + InN(q)
  BY <1>6, <1>8, <1>11
<1> QED BY <1>2, <1>5, <1>6, <1>7, <1>8, <1>10, <1>12, OneMoves

\* A wait that expires turns one request into an answer and a late call.
LEMMA FetchExpiresKeeps ==
  ASSUME LoadInv, NEW s \in Load!Slots, Load!FetchExpires(s)
  PROVE  LoadInv'
<1> DEFINE b == [reqs[s] EXCEPT !.st = "done", !.ok = FALSE]
           q == IF reqs[s].own THEN b ELSE Load!Free
           l == [st |-> "late", arm |-> reqs[s].arm, own |-> FALSE, ok |-> FALSE]
           r == [reqs EXCEPT ![s] = q]
<1>1. PICK t \in Load!Slots :
        /\ reqs[t].st = "free"
        /\ reqs' = [reqs EXCEPT ![s] = IF @.own THEN [@ EXCEPT !.st = "done", !.ok = FALSE] ELSE Load!Free,
                                ![t] = [st |-> "late", arm |-> reqs[s].arm, own |-> FALSE, ok |-> FALSE]]
  BY DEF Load!FetchExpires
<1>2. /\ reqs[s].st = "calling" /\ Load!Quiet /\ active' = Load!_active_exit(active, "coord")
      /\ served' = served /\ taint' = taint /\ s # t
  BY <1>1 DEF Load!FetchExpires
<1>3. reqs \in Requests /\ reqs[s] \in Request
  BY <1>2, Moved DEF LoadInv, LoadTypes
<1>4. b \in Request /\ b.st = "done" /\ b.arm = reqs[s].arm /\ b.own = reqs[s].own /\ ~b.ok
  BY <1>3 DEF Request
<1>5. l \in Request /\ l.st = "late" /\ ~l.own
  BY <1>3 DEF Request
<1>6. q \in {Load!Free} \cup Request /\ q.st \notin {"late", "latepeer"}
  BY <1>4 DEF Load!Free
<1>7. reqs' = [r EXCEPT ![t] = l]
  BY <1>1, <1>2, <1>3 DEF Requests
<1>8. /\ (Mine(q) <=> Mine(reqs[s])) /\ (Mine(q) => q.arm = reqs[s].arm)
      /\ InN(reqs[s]) = 1 /\ InN(q) = 0
      /\ FetchedN(q) = 0 /\ FetchedN(reqs[s]) \in Nat
      /\ ServedN(q) = 0 /\ ServedN(reqs[s]) \in Nat
  <2>1. CASE reqs[s].own
    <3>1. q = b
      BY <2>1
    <3> HIDE DEF q, b, l, r
    <3>2. Mine(q) /\ Mine(reqs[s]) /\ q.arm = reqs[s].arm /\ In(reqs[s]) /\ ~In(q) /\ ~Answered(q)
      BY <1>2, <1>4, <2>1, <3>1 DEF Mine, In, Answered
    <3>3. ~Fetched(q) /\ ~Served(q)
      BY <1>4, <3>1, <3>2 DEF Fetched, Served
    <3> QED BY <3>2, <3>3 DEF InN, FetchedN, ServedN
  <2>2. CASE ~reqs[s].own
    <3>1. q = Load!Free /\ Load!Free.st = "free"
      BY <2>2 DEF Load!Free
    <3> HIDE DEF q, b, l, r
    <3> QED BY <1>2, <2>2, <3>1 DEF Mine, InN, In, FetchedN, Fetched, ServedN, Served, Answered
  <2> QED BY <2>1, <2>2
<1>9. InN(l) = 0 /\ FetchedN(l) = 0 /\ ServedN(l) = 0 /\ ~Mine(l)
  BY <1>5 DEF InN, In, FetchedN, Fetched, ServedN, Served, Mine
<1> HIDE DEF q, b, l
<1>10. r \in Requests /\ r[t] = reqs[t] /\ reqs' \in Requests
  BY <1>2, <1>3, <1>5, <1>6, <1>7 DEF Requests
<1>11. InN(r[t]) = 0 /\ FetchedN(r[t]) = 0 /\ ServedN(r[t]) = 0 /\ ~Mine(r[t])
  BY <1>1, <1>10 DEF InN, In, FetchedN, Fetched, ServedN, Served, Answered, Mine
<1>12. /\ Cardinality(InSlots(r)) = Cardinality(InSlots(reqs)) - InN(reqs[s]) + InN(q)
       /\ Cardinality(FetchedSlots(r)) = Cardinality(FetchedSlots(reqs)) - FetchedN(reqs[s]) + FetchedN(q)
       /\ Cardinality(ServedSlots(r)) = Cardinality(ServedSlots(reqs)) - ServedN(reqs[s]) + ServedN(q)
  BY <1>3, OneSlot
<1>13. \A u \in Load!Slots : reqs'[u] = IF u = t THEN l ELSE IF u = s THEN q ELSE reqs[u]
  BY <1>2, <1>3, <1>7 DEF Requests
<1> HIDE DEF r
<1>14. LET w == [r EXCEPT ![t] = l]
       IN  /\ Cardinality(InSlots(w)) = Cardinality(InSlots(r)) - InN(r[t]) + InN(l)
           /\ Cardinality(FetchedSlots(w)) = Cardinality(FetchedSlots(r)) - FetchedN(r[t]) + FetchedN(l)
           /\ Cardinality(ServedSlots(w)) = Cardinality(ServedSlots(r)) - ServedN(r[t]) + ServedN(l)
  BY <1>10, OneSlot
<1>15. /\ Cardinality(InSlots(reqs)) \in Nat /\ Cardinality(InSlots(r)) \in Nat
       /\ Cardinality(FetchedSlots(reqs)) \in Nat /\ Cardinality(ServedSlots(reqs)) \in Nat
       /\ Cardinality(FetchedSlots(r)) \in Nat /\ Cardinality(ServedSlots(r)) \in Nat
  BY SlotSets
<1>16. /\ Cardinality(InSlots(reqs')) = Cardinality(InSlots(reqs)) - 1
       /\ Cardinality(FetchedSlots(reqs')) <= Cardinality(FetchedSlots(reqs))
       /\ Cardinality(ServedSlots(reqs')) <= Cardinality(ServedSlots(reqs))
       /\ Cardinality(FetchedSlots(reqs')) \in Nat /\ Cardinality(ServedSlots(reqs')) \in Nat
  <2>1. /\ Cardinality(InSlots(reqs')) = Cardinality(InSlots(r)) - InN(r[t]) + InN(l)
        /\ Cardinality(FetchedSlots(reqs')) = Cardinality(FetchedSlots(r)) - FetchedN(r[t]) + FetchedN(l)
        /\ Cardinality(ServedSlots(reqs')) = Cardinality(ServedSlots(r)) - ServedN(r[t]) + ServedN(l)
    BY <1>7, <1>14
  <2>2. Cardinality(FetchedSlots(reqs')) \in Nat /\ Cardinality(ServedSlots(reqs')) \in Nat
    BY SlotSets
  <2> QED BY <1>8, <1>9, <1>11, <1>12, <1>15, <2>1, <2>2
<1>17. /\ active' \in [Load!Methods -> [cur : Int, max : Int]]
       /\ active'["coord"].cur = active["coord"].cur - 1
  BY <1>2, Exited DEF Load!Methods
<1>18. served' \in [Load!Counters -> Nat] /\ taint \in Nat /\ taint' \in Nat /\ Sum(served) \in Nat
  BY <1>2, SumType DEF LoadInv, LoadTypes
<1>19. \A u \in Load!Slots : /\ Mine(reqs'[u]) <=> Mine(reqs[u])
                             /\ Mine(reqs'[u]) => reqs'[u].arm = reqs[u].arm
                             /\ reqs'[u].st \in {"late", "latepeer"} => ~reqs'[u].own
  <2>1. ~Mine(reqs[t])
    BY <1>1 DEF Mine
  <2>2. \A u \in Load!Slots : reqs[u].st \in {"late", "latepeer"} => ~reqs[u].own
    BY DEF LoadInv, LoadControl, SlotsOwned
  <2> QED BY <1>5, <1>6, <1>8, <1>9, <1>13, <2>1, <2>2
<1>20. active["coord"].cur = Cardinality(InSlots(reqs))
  BY DEF LoadInv, LoadCounted
<1>21. active'["coord"].cur = Cardinality(InSlots(reqs'))
  BY <1>16, <1>17, <1>20
<1>22. Sum(served') - Sum(served) >=
             Cardinality(FetchedSlots(reqs')) - Cardinality(FetchedSlots(reqs))
           + Cardinality(ServedSlots(reqs')) - Cardinality(ServedSlots(reqs)) + taint' - taint
  BY <1>2, <1>15, <1>16, <1>18
<1> QED BY <1>2, <1>10, <1>17, <1>18, <1>19, <1>21, <1>22, QuietKeeps

LEMMA ActorsKeep ==
  ASSUME LoadInv, Load!HpxActor
  PROVE  LoadInv'
<1>1. PICK s \in Load!Slots : \/ Load!ray_coordinate(s) \/ Load!hpx_coordinate(s) \/ Load!PeerServes(s)
                              \/ Load!FetchExpires(s) \/ Load!Return(s)
  BY DEF Load!HpxActor
<1>2. CASE Load!PeerServes(s)
  <2>1. reqs[s].st \in {"calling", "late"} \/ reqs[s].st \in {"peer", "latepeer"}
    BY <1>2 DEF Load!PeerServes
  <2> QED BY <1>2, <2>1, PeerEnterKeeps, PeerExitKeeps
<1> QED BY <1>1, <1>2, RayCoordinateKeeps, HpxCoordinateKeeps, FetchExpiresKeeps, ReturnKeeps

-----------------------------------------------------------------------------
(* The verifier.                                                           *)

LEMMA VerifierKeeps ==
  ASSUME LoadInv, Load!VerifierRun
  PROVE  LoadInv'
<1>1. UNCHANGED <<stage, lpc, loop, submitted, completed, reqs, served, active, before, taint>>
  BY DEF Load!VerifierRun
<1>2. verifier \in [q : Seq(Items), hand : Items \cup {"none"}, verified : Nat, invalid : Nat,
                     exception : BOOLEAN, high_water : Nat, blocked : BOOLEAN]
  BY DEF LoadInv, LoadTypes
<1>3. loop = "meas"
  BY DEF LoadInv, LoadControl, SubmittedKept, SlotsOwned, Load!VerifierRun, Load!NewVerifier
<1> DEFINE Type == [q : Seq(Items), hand : Items \cup {"none"}, verified : Nat, invalid : Nat,
                    exception : BOOLEAN, high_water : Nat, blocked : BOOLEAN]
           Seen(v) == \/ v.hand = "bad" \/ v.invalid > 0 \/ v.exception
                      \/ \E i \in DOMAIN v.q : v.q[i] = "bad"
           N1(v) == v.verified + v.invalid + Len(v.q) + (IF v.hand = "none" THEN 0 ELSE 1)
           Stops(v) == \/ v.hand = "stop" /\ v.q = <<>>
                       \/ v.q # <<>> /\ v.q[Len(v.q)] = "stop"
           Good(v) == /\ v \in Type
                      /\ Seen(verifier) => Seen(v)
                      /\ ~v.exception => ~verifier.exception /\ N1(v) = N1(verifier)
                      /\ Stops(verifier) => Stops(v)
<1>4. ASSUME NEW v, verifier.hand = "none", verifier.q # <<>>,
             v = [verifier EXCEPT !.hand = Head(verifier.q), !.q = Tail(@)]
      PROVE  Good(v)
  <2> DEFINE q == verifier.q
             h == Head(q)
             tl == Tail(q)
  <2>1. /\ q \in Seq(Items) /\ Len(q) \in Nat /\ Len(q) > 0 /\ h = q[1] /\ h \in Items /\ h # "none"
        /\ tl \in Seq(Items) /\ Len(tl) = Len(q) - 1 /\ DOMAIN tl = 1..(Len(q) - 1) /\ DOMAIN q = 1..Len(q)
        /\ \A i \in 1..(Len(q) - 1) : tl[i] = q[i + 1]
    BY <1>2, <1>4 DEF Items
  <2>2. /\ v.q = tl /\ v.hand = h /\ v.verified = verifier.verified /\ v.invalid = verifier.invalid
        /\ v.exception = verifier.exception
    BY <1>2, <1>4
  <2>3. v \in Type
    BY <1>2, <1>4, <2>1
  <2> HIDE DEF q, h, tl, Type
  <2>4. Seen(verifier) => Seen(v)
    <3>1. ASSUME NEW i \in DOMAIN q, q[i] = "bad" PROVE h = "bad" \/ \E j \in DOMAIN tl : tl[j] = "bad"
      <4>1. CASE i = 1
        BY <2>1, <3>1, <4>1
      <4>2. CASE i # 1
        <5>1. i - 1 \in DOMAIN tl /\ tl[i - 1] = q[i]
          BY <2>1, <3>1, <4>2
        <5> QED BY <3>1, <5>1
      <4> QED BY <4>1, <4>2
    <3> QED BY <1>4, <2>2, <3>1 DEF q
  <2>5. ~v.exception => ~verifier.exception /\ N1(v) = N1(verifier)
    BY <1>2, <1>4, <2>1, <2>2 DEF q
  <2>6. Stops(verifier) => Stops(v)
    <3>1. CASE Len(q) = 1
      <4>1. tl = <<>>
        BY <2>1, <3>1
      <4> QED BY <1>4, <2>1, <2>2, <3>1, <4>1 DEF q
    <3>2. CASE Len(q) # 1
      <4>1. tl # <<>> /\ tl[Len(tl)] = q[Len(q)]
        BY <2>1, <3>2
      <4> QED BY <1>4, <2>2, <4>1 DEF q
    <3> QED BY <3>1, <3>2
  <2> QED BY <2>3, <2>4, <2>5, <2>6
<1>5. ASSUME NEW v, verifier.hand \in {"good", "bad"},
             v = [Load!verify(verifier, verifier.hand = "good") EXCEPT !.hand = "none"]
      PROVE  Good(v)
  <2>1. CASE verifier.hand = "good"
    <3>1. v = [verifier EXCEPT !.hand = "none", !.verified = @ + 1]
      BY <1>2, <1>5, <2>1 DEF Load!verify
    <3> DEFINE n == verifier.verified + 1
    <3>2. n \in Nat /\ v = [verifier EXCEPT !.hand = "none", !.verified = n]
      BY <1>2, <3>1
    <3> HIDE DEF n
    <3>3. /\ v \in Type /\ v.q = verifier.q /\ v.hand = "none" /\ v.verified = n
          /\ v.invalid = verifier.invalid /\ v.exception = verifier.exception
      BY <1>2, <3>2
    <3> HIDE DEF Type
    <3> QED BY <1>2, <2>1, <3>3 DEF n
  <2>2. CASE verifier.hand = "bad"
    <3>1. v = [verifier EXCEPT !.hand = "none", !.invalid = @ + 1]
      BY <1>2, <1>5, <2>2 DEF Load!verify
    <3> DEFINE n == verifier.invalid + 1
    <3>2. n \in Nat /\ v = [verifier EXCEPT !.hand = "none", !.invalid = n]
      BY <1>2, <3>1
    <3> HIDE DEF n
    <3>3. /\ v \in Type /\ v.q = verifier.q /\ v.hand = "none" /\ v.invalid = n
          /\ v.verified = verifier.verified /\ v.exception = verifier.exception
      BY <1>2, <3>2
    <3> HIDE DEF Type
    <3> QED BY <1>2, <2>2, <3>3 DEF n
  <2> QED BY <1>5, <2>1, <2>2
<1>6. ASSUME NEW v, verifier.hand \in {"good", "bad"},
             v = [verifier EXCEPT !.hand = "none", !.exception = TRUE]
      PROVE  Good(v)
  <2>1. v \in Type /\ v.q = verifier.q /\ v.hand = "none" /\ v.exception
    BY <1>2, <1>6
  <2> HIDE DEF Type
  <2> QED BY <1>6, <2>1
<1>7. Good(verifier')
  BY <1>4, <1>5, <1>6 DEF Load!VerifierRun
<1> HIDE DEF Type
<1>8. LoadTypes'
  <2>1. verifier' \in Type
    BY <1>7
  <2> QED BY <1>1, <2>1 DEF LoadInv, LoadTypes, Type
<1>9. LoadControl'
  BY <1>1, <1>3 DEF LoadInv, LoadControl, SubmittedKept, SlotsOwned, Load!Total, Load!Arm, Load!Stages
<1>10. LoadCounted'
  <2>1. WrongSeen => WrongSeen'
    BY <1>1, <1>7 DEF WrongSeen
  <2> QED BY <1>1, <2>1 DEF LoadInv, LoadCounted, Load!Arm, Load!Stages
<1>11. LoadVerified'
  BY <1>1, <1>7 DEF LoadInv, LoadVerified, Handed
<1> QED BY <1>8, <1>9, <1>10, <1>11 DEF LoadInv

-----------------------------------------------------------------------------
(* The scheduler.                                                          *)

LEMMA Constants ==
  ASSUME LoadInv
  PROVE  Load!Arm \in {"ray", "hpx"} /\ Load!Total \in Nat /\ NewRequest \in Request
<1>1. Load!Arm \in {"ray", "hpx"}
  BY DEF LoadInv, LoadTypes, Load!Arm, Load!Stages
<1>2. Load!Total \in Nat
  <2>1. {S, N, W} \subseteq Nat /\ loop \in {"soak", "warm", "meas"}
    BY LoadBounds DEF LoadInv, LoadTypes
  <2> QED BY <2>1 DEF Load!Total
<1> QED BY <1>1, <1>2 DEF NewRequest, Request

\* What a loop keeps of its slots.
Owned(r) == \A u \in Load!Slots : /\ Mine(r[u]) => r[u].arm = Load!Arm
                                  /\ r[u].st \in {"late", "latepeer"} => ~r[u].own

\* A request taken up adds itself and no progress.
LEMMA Submitted ==
  ASSUME LoadInv, NEW r \in Requests, Owned(r), \E t \in Load!Slots : r[t].st = "free"
  PROVE  LET w == Load!SubmitTo(r)
         IN  /\ w \in Requests /\ Owned(w)
             /\ Cardinality(InSlots(w)) = Cardinality(InSlots(r))
             /\ Cardinality(MineSlots(w)) = Cardinality(MineSlots(r)) + 1
             /\ Cardinality(FetchedSlots(w)) = Cardinality(FetchedSlots(r))
             /\ Cardinality(ServedSlots(w)) = Cardinality(ServedSlots(r))
<1>1. PICK t \in Load!Slots : r[t].st = "free" /\ Load!SubmitTo(r) = [r EXCEPT ![t] = NewRequest]
  BY Submits
<1> DEFINE w == [r EXCEPT ![t] = NewRequest]
<1>2. NewRequest \in Request
  BY Constants
<1>3. w \in Requests /\ \A u \in Load!Slots : w[u] = IF u = t THEN NewRequest ELSE r[u]
  BY <1>2 DEF Requests
<1>4. Owned(w)
  BY <1>3 DEF Owned, NewRequest
<1>5. InN(r[t]) = 0 /\ MineN(r[t]) = 0 /\ FetchedN(r[t]) = 0 /\ ServedN(r[t]) = 0
  BY <1>1 DEF InN, In, MineN, FetchedN, Fetched, ServedN, Served, Mine
<1>6. InN(NewRequest) = 0 /\ MineN(NewRequest) = 1 /\ FetchedN(NewRequest) = 0 /\ ServedN(NewRequest) = 0
  BY DEF InN, In, MineN, FetchedN, Fetched, ServedN, Served, Mine, NewRequest, Answered
<1>7. /\ Cardinality(InSlots(w)) = Cardinality(InSlots(r)) - InN(r[t]) + InN(NewRequest)
      /\ Cardinality(MineSlots(w)) = Cardinality(MineSlots(r)) - MineN(r[t]) + MineN(NewRequest)
      /\ Cardinality(FetchedSlots(w)) = Cardinality(FetchedSlots(r)) - FetchedN(r[t]) + FetchedN(NewRequest)
      /\ Cardinality(ServedSlots(w)) = Cardinality(ServedSlots(r)) - ServedN(r[t]) + ServedN(NewRequest)
  BY OneSlot
<1> HIDE DEF w
<1>8. /\ Cardinality(InSlots(r)) \in Nat /\ Cardinality(MineSlots(r)) \in Nat
      /\ Cardinality(FetchedSlots(r)) \in Nat /\ Cardinality(ServedSlots(r)) \in Nat
  BY SlotSets
<1>9. Load!SubmitTo(r) = w
  BY <1>1 DEF w
<1> QED BY <1>3, <1>4, <1>5, <1>6, <1>7, <1>8, <1>9

\* A result collected leaves its slot, perhaps to the next request.
LEMMA Collects ==
  ASSUME LoadInv, lpc = "wait", NEW s \in Load!OwnSlots, reqs[s].st = "done", Load!Collected(s)
  PROVE  /\ reqs' \in Requests /\ completed' = completed + 1 /\ submitted' \in Nat
         /\ Owned(reqs') /\ submitted' <= Load!Total
         /\ Cardinality(InSlots(reqs')) = Cardinality(InSlots(reqs))
         /\ Cardinality(MineSlots(reqs')) + completed' = submitted'
         /\ Cardinality(FetchedSlots(reqs')) = Cardinality(FetchedSlots(reqs)) - FetchedN(reqs[s])
         /\ Cardinality(ServedSlots(reqs')) = Cardinality(ServedSlots(reqs)) - ServedN(reqs[s])
<1> DEFINE r == [reqs EXCEPT ![s] = Load!Free]
<1>1. s \in Load!Slots /\ Mine(reqs[s]) /\ reqs \in Requests
  BY DEF Load!OwnSlots, Load!Own, Mine, LoadInv, LoadTypes
<1>2. r \in Requests /\ r[s].st = "free" /\ \A u \in Load!Slots : r[u] = IF u = s THEN Load!Free ELSE reqs[u]
  BY <1>1 DEF Requests, Load!Free
<1>3. Owned(r)
  <2>1. Load!Free.st = "free"
    BY DEF Load!Free
  <2> QED BY <1>2, <2>1 DEF Owned, Mine, LoadInv, LoadControl, SubmittedKept, SlotsOwned
<1>4. InN(reqs[s]) = 0 /\ MineN(reqs[s]) = 1
  BY <1>1 DEF InN, In, MineN
<1>5. InN(Load!Free) = 0 /\ MineN(Load!Free) = 0 /\ FetchedN(Load!Free) = 0 /\ ServedN(Load!Free) = 0
  <2>1. Load!Free.st = "free"
    BY DEF Load!Free
  <2> QED BY <2>1 DEF InN, In, MineN, FetchedN, Fetched, ServedN, Served, Mine
<1>6. /\ Cardinality(InSlots(r)) = Cardinality(InSlots(reqs)) - InN(reqs[s]) + InN(Load!Free)
      /\ Cardinality(MineSlots(r)) = Cardinality(MineSlots(reqs)) - MineN(reqs[s]) + MineN(Load!Free)
      /\ Cardinality(FetchedSlots(r)) = Cardinality(FetchedSlots(reqs)) - FetchedN(reqs[s]) + FetchedN(Load!Free)
      /\ Cardinality(ServedSlots(r)) = Cardinality(ServedSlots(reqs)) - ServedN(reqs[s]) + ServedN(Load!Free)
  BY <1>1, OneSlot
<1>7. /\ completed' = completed + 1
      /\ IF submitted < Load!Total THEN reqs' = Load!SubmitTo(r) /\ submitted' = submitted + 1
         ELSE reqs' = r /\ submitted' = submitted
  BY DEF Load!Collected
<1> HIDE DEF r
<1>8. /\ Cardinality(InSlots(reqs)) \in Nat /\ Cardinality(MineSlots(reqs)) \in Nat
      /\ Cardinality(FetchedSlots(reqs)) \in Nat /\ Cardinality(ServedSlots(reqs)) \in Nat
      /\ FetchedN(reqs[s]) \in Nat /\ ServedN(reqs[s]) \in Nat
  BY SlotSets DEF FetchedN, ServedN
<1>9. /\ Cardinality(MineSlots(reqs)) + completed = submitted /\ submitted <= Load!Total
      /\ submitted \in Nat /\ completed \in Nat
  BY DEF LoadInv, LoadTypes, LoadControl, SubmittedKept, SlotsOwned, Looping
<1>10. Load!Total \in Nat
  BY Constants
<1>11. /\ Cardinality(InSlots(r)) = Cardinality(InSlots(reqs))
       /\ Cardinality(MineSlots(r)) = Cardinality(MineSlots(reqs)) - 1
       /\ Cardinality(FetchedSlots(r)) = Cardinality(FetchedSlots(reqs)) - FetchedN(reqs[s])
       /\ Cardinality(ServedSlots(r)) = Cardinality(ServedSlots(reqs)) - ServedN(reqs[s])
  BY <1>4, <1>5, <1>6, <1>8
<1>12. CASE submitted < Load!Total
  <2>1. /\ reqs' \in Requests /\ Owned(reqs')
        /\ Cardinality(InSlots(reqs')) = Cardinality(InSlots(r))
        /\ Cardinality(MineSlots(reqs')) = Cardinality(MineSlots(r)) + 1
        /\ Cardinality(FetchedSlots(reqs')) = Cardinality(FetchedSlots(r))
        /\ Cardinality(ServedSlots(reqs')) = Cardinality(ServedSlots(r))
    BY <1>1, <1>2, <1>3, <1>7, <1>12, Submitted
  <2> QED BY <1>7, <1>8, <1>9, <1>10, <1>11, <1>12, <2>1
<1>13. CASE ~(submitted < Load!Total)
  BY <1>2, <1>3, <1>7, <1>8, <1>9, <1>10, <1>11, <1>13
<1> QED BY <1>12, <1>13

LEMMA NothingMine ==
  ASSUME NEW r, MineSlots(r) = {}
  PROVE  FetchedSlots(r) = {} /\ ServedSlots(r) = {} /\ \A s \in Load!Slots : ~Mine(r[s])
<1>1. \A s \in Load!Slots : ~Mine(r[s])
  BY DEF MineSlots
<1> QED BY <1>1 DEF FetchedSlots, Fetched, ServedSlots, Served

\* The maxima start again from what is in flight.
LEMMA Reset ==
  ASSUME LoadInv, Load!reset_active
  PROVE  active' \in [Load!Methods -> [cur : Int, max : Int]] /\ active'["coord"].cur = active["coord"].cur
<1>1. active \in [Load!Methods -> [cur : Int, max : Int]] /\ "coord" \in Load!Methods
  BY DEF LoadInv, LoadTypes, Load!Methods
<1>2. active' = [k \in Load!Methods |-> [cur |-> active[k].cur, max |-> active[k].cur]]
  BY DEF Load!reset_active
<1>3. \A k \in Load!Methods : active[k].cur \in Int
  BY <1>1
<1> QED BY <1>1, <1>2, <1>3

LEMMA BeginKeeps ==
  ASSUME LoadInv, Load!Begin
  PROVE  LoadInv'
<1>1. /\ UNCHANGED <<stage, submitted, completed, reqs, served, before, verifier, taint>>
      /\ lpc = "begin" /\ lpc' = "fill" /\ loop' \in {"soak", "warm"}
  BY DEF Load!Begin, Load!At, Load!Goto
<1>2. loop = "soak" /\ submitted = 0 /\ completed = 0 /\ verifier = Load!NewVerifier /\ taint = 0
      /\ MineSlots(reqs) = {}
  BY <1>1 DEF LoadInv, LoadControl, SubmittedKept, SlotsOwned, Looping
<1>3. active' \in [Load!Methods -> [cur : Int, max : Int]] /\ active'["coord"].cur = active["coord"].cur
  BY Reset DEF Load!Begin, LoadInv, LoadTypes
<1>4. LoadTypes'
  BY <1>1, <1>3 DEF LoadInv, LoadTypes
<1>5. LoadControl'
  <2>1. Load!Total' \in Nat
    <3>1. S \in Nat /\ W \in Nat
      BY LoadBounds
    <3> QED BY <1>1, <3>1 DEF Load!Total
  <2>2. Cardinality(MineSlots(reqs)) = 0 /\ \A s \in Load!Slots : ~Mine(reqs[s])
    BY <1>2, NothingMine, FS_EmptySet
  <2>3. Cardinality(MineSlots(reqs')) + completed' = submitted' /\ submitted' <= Load!Total'
    BY <1>1, <1>2, <2>1, <2>2
  <2> QED BY <1>1, <1>2, <2>2, <2>3 DEF LoadInv, LoadControl, SubmittedKept, SlotsOwned, Looping, Enqueuing
<1>6. LoadCounted'
  BY <1>1, <1>3 DEF LoadInv, LoadCounted
<1>7. LoadVerified'
  BY <1>1 DEF LoadVerified
<1> QED BY <1>4, <1>5, <1>6, <1>7 DEF LoadInv

LEMMA FillKeeps ==
  ASSUME LoadInv, Load!Fill
  PROVE  LoadInv'
<1>1. /\ UNCHANGED <<stage, loop, completed, served, active, before, verifier, taint>> /\ lpc = "fill"
  BY DEF Load!Fill, Load!At
<1>2. Load!Arm' = Load!Arm /\ Load!Total' = Load!Total
  BY <1>1 DEF Load!Arm, Load!Total
<1>3. /\ Cardinality(MineSlots(reqs)) + completed = submitted /\ submitted <= Load!Total
      /\ submitted \in Nat /\ completed \in Nat /\ Owned(reqs) /\ reqs \in Requests /\ Load!Total \in Nat
  BY <1>1, Constants DEF LoadInv, LoadTypes, LoadControl, SubmittedKept, SlotsOwned, Looping, Owned
<1>4. ASSUME submitted < Load!Total /\ submitted < C
      PROVE  /\ reqs' \in Requests /\ Owned(reqs') /\ submitted' \in Nat /\ lpc' = lpc
             /\ Cardinality(InSlots(reqs')) = Cardinality(InSlots(reqs))
             /\ Cardinality(MineSlots(reqs')) + completed = submitted' /\ submitted' <= Load!Total
             /\ Cardinality(FetchedSlots(reqs')) = Cardinality(FetchedSlots(reqs))
             /\ Cardinality(ServedSlots(reqs')) = Cardinality(ServedSlots(reqs))
  <2>1. /\ \E t \in Load!Slots : reqs[t].st = "free"
        /\ reqs' = Load!SubmitTo(reqs) /\ submitted' = submitted + 1 /\ lpc' = lpc
    BY <1>4 DEF Load!Fill
  <2>2. /\ reqs' \in Requests /\ Owned(reqs')
        /\ Cardinality(InSlots(reqs')) = Cardinality(InSlots(reqs))
        /\ Cardinality(MineSlots(reqs')) = Cardinality(MineSlots(reqs)) + 1
        /\ Cardinality(FetchedSlots(reqs')) = Cardinality(FetchedSlots(reqs))
        /\ Cardinality(ServedSlots(reqs')) = Cardinality(ServedSlots(reqs))
    BY <1>3, <2>1, Submitted
  <2>3. Cardinality(MineSlots(reqs)) \in Nat
    BY SlotSets
  <2>4. Cardinality(MineSlots(reqs')) + completed = submitted'
    <3> DEFINE m == Cardinality(MineSlots(reqs))
               n == Cardinality(MineSlots(reqs'))
    <3>1. n = m + 1 /\ m + completed = submitted /\ submitted' = submitted + 1
      BY <1>3, <2>1, <2>2
    <3>2. m \in Nat /\ completed \in Nat /\ submitted \in Nat
      BY <1>3, <2>3
    <3> HIDE DEF m, n
    <3>3. n + completed = submitted'
      BY <3>1, <3>2
    <3> QED BY <3>3 DEF n
  <2>5. submitted' \in Nat /\ submitted' <= Load!Total
    BY <1>3, <1>4, <2>1
  <2> QED BY <2>1, <2>2, <2>4, <2>5
<1>5. ASSUME ~(submitted < Load!Total /\ submitted < C)
      PROVE  /\ reqs' = reqs /\ submitted' = submitted /\ lpc' = "wait"
  BY <1>5 DEF Load!Fill, Load!Goto
<1>6. /\ reqs' \in Requests /\ Owned(reqs') /\ submitted' \in Nat /\ lpc' \in {"fill", "wait"}
      /\ Cardinality(InSlots(reqs')) = Cardinality(InSlots(reqs))
      /\ Cardinality(MineSlots(reqs')) + completed = submitted' /\ submitted' <= Load!Total
      /\ Cardinality(FetchedSlots(reqs')) = Cardinality(FetchedSlots(reqs))
      /\ Cardinality(ServedSlots(reqs')) = Cardinality(ServedSlots(reqs))
  BY <1>1, <1>3, <1>4, <1>5
<1>7. LoadTypes'
  BY <1>1, <1>6 DEF LoadInv, LoadTypes
<1>8. LoadControl'
  <2>1. /\ loop # "meas" => verifier = Load!NewVerifier /\ taint = 0
        /\ lpc' \in Looping /\ lpc' \notin Enqueuing /\ lpc' \notin {"begin", "window", "drain", "join"}
    BY <1>1, <1>6 DEF LoadInv, LoadControl, SubmittedKept, SlotsOwned, Looping, Enqueuing
  <2>2. loop' # "meas" => verifier' = Load!NewVerifier' /\ taint' = 0
    BY <1>1, <2>1 DEF Load!NewVerifier
  <2>3. \A s \in Load!Slots : /\ Mine(reqs'[s]) => reqs'[s].arm = Load!Arm'
                              /\ reqs'[s].st \in {"late", "latepeer"} => ~reqs'[s].own
    BY <1>2, <1>6 DEF Owned
  <2>4. Cardinality(MineSlots(reqs')) + completed' = submitted' /\ submitted' <= Load!Total'
    BY <1>1, <1>2, <1>6
  <2>5. SubmittedKept' /\ SlotsOwned'
    BY <2>3, <2>4 DEF SubmittedKept, SlotsOwned
  <2> QED BY <2>1, <2>2, <2>5 DEF LoadControl, Looping, Enqueuing
<1>9. LoadCounted'
  <2>1. WrongSeen => WrongSeen'
    BY <1>1, <1>6 DEF WrongSeen
  <2> QED BY <1>1, <1>2, <1>6, <2>1 DEF LoadInv, LoadCounted
<1>10. LoadVerified'
  BY <1>1, <1>6 DEF LoadInv, LoadVerified, Handed, Enqueuing
<1> QED BY <1>7, <1>8, <1>9, <1>10 DEF LoadInv

LEMMA GivenUpSlots ==
  ASSUME LoadInv, reqs' = Load!GiveUp(reqs)
  PROVE  /\ reqs' \in Requests /\ MineSlots(reqs') = {}
         /\ Cardinality(InSlots(reqs')) = Cardinality(InSlots(reqs))
         /\ Cardinality(FetchedSlots(reqs')) = 0 /\ Cardinality(ServedSlots(reqs')) = 0
         /\ \A s \in Load!Slots : /\ ~Mine(reqs'[s])
                                  /\ reqs'[s].st \in {"late", "latepeer"} => ~reqs'[s].own
<1>1. reqs \in Requests
  BY DEF LoadInv, LoadTypes
<1> DEFINE g == Load!GiveUp(reqs)
<1>2. /\ g \in Requests /\ InSlots(g) = InSlots(reqs) /\ MineSlots(g) = {}
      /\ FetchedSlots(g) = {} /\ ServedSlots(g) = {}
  BY <1>1, GivenUp
<1> HIDE DEF g
<1>3. reqs' = g
  BY DEF g
<1>4. \A s \in Load!Slots : ~Mine(g[s])
  BY <1>2, NothingMine
<1>5. \A s \in Load!Slots : g[s].st \in {"late", "latepeer"} => ~g[s].own
  BY <1>4 DEF Mine
<1> QED BY <1>2, <1>3, <1>4, <1>5, FS_EmptySet

LEMMA WarmupKeeps ==
  ASSUME LoadInv, Load!_closed_loop_warmup
  PROVE  LoadInv'
<1>1. /\ UNCHANGED <<stage, loop, served, active, before, verifier, taint>> /\ lpc = "wait"
      /\ loop \in {"soak", "warm"}
  BY DEF Load!_closed_loop_warmup, Load!At
<1>2. Load!Arm' = Load!Arm /\ Load!Total' = Load!Total
  BY <1>1 DEF Load!Arm, Load!Total
<1>3. completed \in Nat /\ submitted \in Nat
  BY DEF LoadInv, LoadTypes
<1>4. PICK s \in Load!OwnSlots :
        /\ reqs[s].st = "done"
        /\ \/ Load!Collected(s) /\ lpc' = lpc
           \/ /\ completed' = completed + 1 /\ reqs' = Load!GiveUp(reqs) /\ lpc' = "judge"
              /\ submitted' = submitted
  BY DEF Load!_closed_loop_warmup, Load!Goto
<1>5. CASE Load!Collected(s) /\ lpc' = lpc
  <2>1. /\ reqs' \in Requests /\ completed' = completed + 1 /\ submitted' \in Nat
        /\ Owned(reqs') /\ submitted' <= Load!Total
        /\ Cardinality(InSlots(reqs')) = Cardinality(InSlots(reqs))
        /\ Cardinality(MineSlots(reqs')) + completed' = submitted'
    BY <1>1, <1>4, <1>5, Collects
  <2>2. LoadTypes'
    BY <1>1, <1>3, <2>1 DEF LoadInv, LoadTypes
  <2>3. LoadControl'
    <3>1. verifier = Load!NewVerifier /\ taint = 0
      BY <1>1 DEF LoadInv, LoadControl, SubmittedKept, SlotsOwned
    <3>2. verifier' = Load!NewVerifier' /\ taint' = 0
      BY <1>1, <3>1 DEF Load!NewVerifier
    <3>3. lpc' \in Looping /\ lpc' \notin Enqueuing /\ lpc' \notin {"begin", "window", "drain", "join"}
      BY <1>1, <1>5 DEF Looping, Enqueuing
    <3>4. \A u \in Load!Slots : /\ Mine(reqs'[u]) => reqs'[u].arm = Load!Arm'
                                /\ reqs'[u].st \in {"late", "latepeer"} => ~reqs'[u].own
      BY <1>2, <2>1 DEF Owned
    <3>5. Cardinality(MineSlots(reqs')) + completed' = submitted' /\ submitted' <= Load!Total'
      BY <1>2, <2>1
    <3>6. SubmittedKept' /\ SlotsOwned'
      BY <3>4, <3>5 DEF SubmittedKept, SlotsOwned
    <3> QED BY <1>1, <3>2, <3>3, <3>6 DEF LoadControl, Looping, Enqueuing
  <2>4. LoadCounted' /\ LoadVerified'
    BY <1>1, <2>1 DEF LoadInv, LoadCounted, LoadVerified
  <2> QED BY <2>2, <2>3, <2>4 DEF LoadInv
<1>6. CASE /\ completed' = completed + 1 /\ reqs' = Load!GiveUp(reqs) /\ lpc' = "judge"
           /\ submitted' = submitted
  <2>1. /\ reqs' \in Requests /\ MineSlots(reqs') = {}
        /\ Cardinality(InSlots(reqs')) = Cardinality(InSlots(reqs))
        /\ \A t \in Load!Slots : /\ ~Mine(reqs'[t])
                                 /\ reqs'[t].st \in {"late", "latepeer"} => ~reqs'[t].own
    BY <1>6, GivenUpSlots
  <2>2. LoadTypes'
    BY <1>1, <1>3, <1>6, <2>1 DEF LoadInv, LoadTypes
  <2>3. LoadControl'
    BY <1>1, <1>6, <2>1 DEF LoadInv, LoadControl, SubmittedKept, SlotsOwned, Looping, Enqueuing, Load!NewVerifier
  <2>4. LoadCounted' /\ LoadVerified'
    BY <1>1, <2>1 DEF LoadInv, LoadCounted, LoadVerified
  <2> QED BY <2>2, <2>3, <2>4 DEF LoadInv
<1> QED BY <1>4, <1>5, <1>6

LEMMA WaitExpiresKeeps ==
  ASSUME LoadInv, Load!WaitExpires
  PROVE  LoadInv'
<1>1. /\ UNCHANGED <<stage, loop, submitted, completed, served, active, before, verifier, taint>>
      /\ lpc = "wait" /\ lpc' = (IF loop = "meas" THEN "drain" ELSE "judge") /\ reqs' = Load!GiveUp(reqs)
  BY DEF Load!WaitExpires, Load!At, Load!Goto
<1>2. /\ reqs' \in Requests /\ MineSlots(reqs') = {}
      /\ Cardinality(InSlots(reqs')) = Cardinality(InSlots(reqs))
      /\ Cardinality(FetchedSlots(reqs')) = 0 /\ Cardinality(ServedSlots(reqs')) = 0
      /\ \A t \in Load!Slots : /\ ~Mine(reqs'[t])
                               /\ reqs'[t].st \in {"late", "latepeer"} => ~reqs'[t].own
  BY <1>1, GivenUpSlots
<1>3. LoadTypes'
  BY <1>1, <1>2 DEF LoadInv, LoadTypes
<1>4. LoadControl'
  <2>1. SlotsOwned' /\ SubmittedKept'
    BY <1>1, <1>2 DEF SlotsOwned, SubmittedKept, Looping
  <2> QED BY <1>1, <1>2, <2>1 DEF LoadInv, LoadControl, Looping, Enqueuing, Load!NewVerifier
<1>5. LoadCounted'
  <2>1. WrongSeen => WrongSeen'
    BY <1>1 DEF WrongSeen
  <2>2. Load!Arm' = Load!Arm /\ Load!Arm \in {"ray", "hpx"}
    BY <1>1, Constants DEF Load!Arm
  <2>3. /\ Cardinality(FetchedSlots(reqs)) \in Nat /\ Cardinality(ServedSlots(reqs)) \in Nat
    BY SlotSets
  <2>4. Sum(served) \in Nat /\ Sum(before) \in Nat /\ completed \in Nat /\ taint \in Nat
    BY SumType DEF LoadInv, LoadTypes
  <2>5. active'["coord"].cur = Cardinality(InSlots(reqs'))
    BY <1>1, <1>2 DEF LoadInv, LoadCounted
  <2> DEFINE F == Cardinality(FetchedSlots(reqs))
             G == Cardinality(ServedSlots(reqs))
  <2>6. loop = "meas" /\ ~WrongSeen =>
          Sum(served) - Sum(before) >= (IF Load!Arm = "ray" THEN completed ELSE 0) + completed + F + G + taint
    BY DEF LoadInv, LoadCounted
  <2>7. loop = "meas" /\ ~WrongSeen =>
          Sum(served) - Sum(before) >= (IF Load!Arm = "ray" THEN completed ELSE 0) + completed + 0 + 0 + taint
    <3>1. F \in Nat /\ G \in Nat
      BY <2>3
    <3> HIDE DEF F, G
    <3> QED BY <2>4, <2>6, <3>1
  <2>8. Sum(served') = Sum(served) /\ Sum(before') = Sum(before)
    BY <1>1 DEF Sum
  <2> HIDE DEF F, G
  <2> QED BY <1>1, <1>2, <2>1, <2>2, <2>5, <2>7, <2>8 DEF LoadCounted
<1>6. LoadVerified'
  BY <1>1 DEF LoadInv, LoadVerified, Handed, Enqueuing
<1> QED BY <1>3, <1>4, <1>5, <1>6 DEF LoadInv

LEMMA LoopDoneKeeps ==
  ASSUME LoadInv, Load!LoopDone
  PROVE  LoadInv'
<1>1. /\ UNCHANGED <<stage, loop, submitted, completed, reqs, served, active, before, verifier, taint>>
      /\ lpc = "wait" /\ completed = Load!Total
  BY DEF Load!LoopDone, Load!At
<1>2. /\ loop = "soak" => lpc' = "judge"
      /\ loop = "warm" => lpc' = "window"
      /\ loop = "meas" => lpc' = "drain"
      /\ loop \in {"soak", "warm", "meas"}
  BY DEF Load!LoopDone, Load!Goto, LoadInv, LoadTypes
<1>3. MineSlots(reqs) = {}
  <2>1. /\ Cardinality(MineSlots(reqs)) + completed = submitted /\ submitted <= Load!Total
        /\ submitted \in Nat /\ completed \in Nat
    BY <1>1 DEF LoadInv, LoadTypes, LoadControl, SubmittedKept, Looping
  <2>2. Cardinality(MineSlots(reqs)) \in Nat /\ IsFiniteSet(MineSlots(reqs)) /\ Load!Total \in Nat
    BY SlotSets, Constants
  <2>3. Cardinality(MineSlots(reqs)) = 0
    BY <1>1, <2>1, <2>2
  <2> QED BY <2>2, <2>3, FS_EmptySet
<1>4. LoadTypes'
  BY <1>1 DEF LoadInv, LoadTypes
<1>5. LoadControl'
  <2>1. SlotsOwned'
    BY <1>1 DEF LoadInv, LoadControl, SlotsOwned, Load!Arm
  <2>2. SubmittedKept'
    BY <1>2 DEF SubmittedKept, Looping
  <2> QED BY <1>1, <1>2, <1>3, <2>1, <2>2 DEF LoadInv, LoadControl, Looping, Enqueuing, Load!NewVerifier
<1>6. LoadCounted'
  <2>1. WrongSeen => WrongSeen'
    BY <1>1, <1>2 DEF WrongSeen
  <2>2. Load!Arm' = Load!Arm
    BY <1>1 DEF Load!Arm
  <2> QED BY <1>1, <2>1, <2>2 DEF LoadInv, LoadCounted
<1>7. LoadVerified'
  BY <1>1, <1>2 DEF LoadInv, LoadVerified, Handed, Enqueuing
<1> QED BY <1>4, <1>5, <1>6, <1>7 DEF LoadInv

\* The counters are read when no request of the batch is under way.
LEMMA WindowKeeps ==
  ASSUME LoadInv, Load!Window
  PROVE  LoadInv'
<1>1. /\ UNCHANGED <<stage, reqs, served, verifier, taint>> /\ lpc = "window" /\ lpc' = "fill"
      /\ loop' = "meas" /\ submitted' = 0 /\ completed' = 0
      /\ before' = served \/ before' = [k \in Load!Counters |-> 0]
  BY DEF Load!Window, Load!At, Load!Goto
<1>2. loop = "warm" /\ verifier = Load!NewVerifier /\ taint = 0 /\ MineSlots(reqs) = {}
  BY <1>1 DEF LoadInv, LoadControl, Looping
<1>3. active' \in [Load!Methods -> [cur : Int, max : Int]] /\ active'["coord"].cur = active["coord"].cur
  BY Reset DEF Load!Window
<1>4. served \in [Load!Counters -> Nat] /\ before' \in [Load!Counters -> Nat] /\ Sum(before') <= Sum(served)
      /\ Sum(served) \in Nat /\ Sum(before') \in Nat
  <2>1. served \in [Load!Counters -> Nat]
    BY DEF LoadInv, LoadTypes
  <2>2. CASE before' = served
    <3>1. Sum(before') = Sum(served)
      BY <2>2
    <3> QED BY <2>1, <2>2, <3>1, SumType
  <2>3. CASE before' = [k \in Load!Counters |-> 0]
    <3>1. Sum(before') = 0
      BY <2>3 DEF Sum, Load!Counters
    <3>2. before' \in [Load!Counters -> Nat]
      BY <2>3
    <3> QED BY <2>1, <3>1, <3>2, SumType
  <2> QED BY <1>1, <2>2, <2>3
<1>5. LoadTypes'
  BY <1>1, <1>3, <1>4 DEF LoadInv, LoadTypes
<1>6. LoadControl'
  <2>1. Cardinality(MineSlots(reqs)) = 0 /\ \A s \in Load!Slots : ~Mine(reqs[s])
    BY <1>2, NothingMine, FS_EmptySet
  <2>2. SlotsOwned'
    BY <1>1, <2>1 DEF LoadInv, LoadControl, SlotsOwned
  <2>3. SubmittedKept'
    <3>1. Load!Total' = N /\ N \in Nat
      BY <1>1, LoadBounds DEF Load!Total
    <3> QED BY <1>1, <2>1, <3>1 DEF SubmittedKept
  <2> QED BY <1>1, <2>2, <2>3 DEF LoadControl, Looping, Enqueuing
<1>7. LoadCounted'
  <2>1. Cardinality(FetchedSlots(reqs)) = 0 /\ Cardinality(ServedSlots(reqs)) = 0
    BY <1>2, NothingMine, FS_EmptySet
  <2>2. Sum(served) - Sum(before') >= 0
    BY <1>4
  <2>3. Sum(served') = Sum(served)
    BY <1>1 DEF Sum
  <2> QED BY <1>1, <1>2, <1>3, <2>1, <2>2, <2>3 DEF LoadInv, LoadCounted
<1>8. LoadVerified'
  <2>1. verifier.verified = 0 /\ verifier.invalid = 0 /\ Len(verifier.q) = 0 /\ verifier.hand = "none"
    BY <1>2 DEF Load!NewVerifier
  <2> QED BY <1>1, <2>1 DEF LoadVerified, Handed, Enqueuing
<1> QED BY <1>5, <1>6, <1>7, <1>8 DEF LoadInv

\* A result that counts moves from its slot to the completed ones; a wrong one
\* leaves its trace.
LEMMA MeasuredKeeps ==
  ASSUME LoadInv, Load!MeasuredResult
  PROVE  LoadInv'
<1>1. /\ UNCHANGED <<stage, loop, served, active, before, verifier>> /\ lpc = "wait" /\ loop = "meas"
  BY DEF Load!MeasuredResult, Load!At
<1>2. PICK s \in Load!OwnSlots :
        /\ reqs[s].st = "done" /\ Load!Collected(s)
        /\ lpc' = (IF reqs[s].ok THEN "enqueue_good" ELSE "enqueue_bad")
        /\ taint' = IF reqs[s].ok THEN taint ELSE taint + 1
  BY DEF Load!MeasuredResult, Load!Goto
<1>3. /\ reqs' \in Requests /\ completed' = completed + 1 /\ submitted' \in Nat
      /\ Owned(reqs') /\ submitted' <= Load!Total
      /\ Cardinality(InSlots(reqs')) = Cardinality(InSlots(reqs))
      /\ Cardinality(MineSlots(reqs')) + completed' = submitted'
      /\ Cardinality(FetchedSlots(reqs')) = Cardinality(FetchedSlots(reqs)) - FetchedN(reqs[s])
      /\ Cardinality(ServedSlots(reqs')) = Cardinality(ServedSlots(reqs)) - ServedN(reqs[s])
  BY <1>1, <1>2, Collects
<1>4. Load!Arm' = Load!Arm /\ Load!Total' = Load!Total /\ Load!Arm \in {"ray", "hpx"}
  BY <1>1, Constants DEF Load!Arm, Load!Total
<1>5. completed \in Nat /\ taint \in Nat /\ taint' \in Nat
  BY <1>2 DEF LoadInv, LoadTypes
<1>6. lpc' \in Enqueuing /\ lpc' \in {"enqueue_good", "enqueue_bad"}
  BY <1>2 DEF Enqueuing
<1>7. LoadTypes'
  BY <1>1, <1>3, <1>5 DEF LoadInv, LoadTypes
<1>8. LoadControl'
  <2>1. SlotsOwned'
    BY <1>3, <1>4 DEF SlotsOwned, Owned
  <2>2. SubmittedKept'
    BY <1>3, <1>4 DEF SubmittedKept
  <2> QED BY <1>1, <1>6, <2>1, <2>2 DEF LoadControl, Looping, Enqueuing
<1>9. LoadCounted'
  <2>1. active'["coord"].cur = Cardinality(InSlots(reqs'))
    BY <1>1, <1>3 DEF LoadInv, LoadCounted
  <2>2. CASE ~reqs[s].ok
    BY <1>2, <2>1, <2>2 DEF LoadCounted, WrongSeen
  <2>3. CASE reqs[s].ok
    <3>1. Mine(reqs[s]) /\ s \in Load!Slots /\ Answered(reqs[s])
      BY <1>2, <2>3 DEF Load!OwnSlots, Load!Own, Mine, Answered
    <3>2. reqs[s].arm = Load!Arm
      BY <3>1 DEF LoadInv, LoadControl, SlotsOwned
    <3>3. ServedN(reqs[s]) = 1 /\ FetchedN(reqs[s]) = IF Load!Arm = "ray" THEN 1 ELSE 0
      BY <3>1, <3>2 DEF ServedN, Served, FetchedN, Fetched
    <3>4. WrongSeen => WrongSeen'
      BY <1>1 DEF WrongSeen
    <3> DEFINE F == Cardinality(FetchedSlots(reqs))
               G == Cardinality(ServedSlots(reqs))
               F1 == Cardinality(FetchedSlots(reqs'))
               G1 == Cardinality(ServedSlots(reqs'))
    <3>5. F \in Nat /\ G \in Nat /\ Sum(served) \in Nat /\ Sum(before) \in Nat
      BY SlotSets, SumType DEF LoadInv, LoadTypes
    <3>6. ~WrongSeen =>
            Sum(served) - Sum(before) >= (IF Load!Arm = "ray" THEN completed ELSE 0) + completed + F + G + taint
      BY <1>1 DEF LoadInv, LoadCounted
    <3>7. F1 = F - FetchedN(reqs[s]) /\ G1 = G - ServedN(reqs[s])
      BY <1>3
    <3> HIDE DEF F, G, F1, G1
    <3>8. ~WrongSeen =>
            Sum(served) - Sum(before) >= (IF Load!Arm = "ray" THEN completed' ELSE 0) + completed' + F1 + G1 + taint
      BY <1>3, <1>5, <3>3, <3>5, <3>6, <3>7
    <3>9. Sum(served') = Sum(served) /\ Sum(before') = Sum(before) /\ taint' = taint
      BY <1>1, <1>2, <2>3 DEF Sum
    <3> QED BY <1>1, <1>4, <2>1, <3>4, <3>8, <3>9 DEF LoadCounted, F1, G1
  <2> QED BY <2>2, <2>3
<1>10. LoadVerified'
  <2>1. ~verifier.exception => Handed = completed
    BY <1>1, <1>5 DEF LoadInv, LoadVerified, Enqueuing
  <2>2. Handed' = Handed
    BY <1>1 DEF Handed
  <2>3. lpc' \notin {"join", "judge"} /\ completed' - 1 = completed
    BY <1>3, <1>5, <1>6
  <2> QED BY <1>1, <1>3, <1>5, <1>6, <2>1, <2>2, <2>3 DEF LoadVerified
<1> QED BY <1>7, <1>8, <1>9, <1>10 DEF LoadInv

\* What an item at the end of the queue changes.
LEMMA Appended ==
  ASSUME NEW q \in Seq(Items), NEW x \in Items
  PROVE  LET a == Append(q, x)
         IN  /\ a \in Seq(Items) /\ Len(a) = Len(q) + 1 /\ a # <<>> /\ a[Len(a)] = x
             /\ \A i \in DOMAIN q : i \in DOMAIN a /\ a[i] = q[i]
             /\ Len(a) \in DOMAIN a
  OBVIOUS

LEMMA EnqueueKeeps ==
  ASSUME LoadInv, Load!enqueue
  PROVE  LoadInv'
<1> DEFINE item == IF lpc = "enqueue_good" THEN "good" ELSE "bad"
           n == Len(verifier.q)
           high == IF n > verifier.high_water THEN n ELSE verifier.high_water
           Type == [q : Seq(Items), hand : Items \cup {"none"}, verified : Nat, invalid : Nat,
                    exception : BOOLEAN, high_water : Nat, blocked : BOOLEAN]
<1>1. /\ UNCHANGED <<stage, loop, submitted, completed, reqs, served, active, before, taint>>
      /\ lpc \in Enqueuing
      /\ \/ verifier' = [[verifier EXCEPT !.high_water = high] EXCEPT !.q = Append(@, item)] /\ lpc' = "wait"
         \/ verifier' = [[verifier EXCEPT !.high_water = high] EXCEPT !.blocked = TRUE] /\ lpc' = lpc
  BY DEF Load!enqueue, Load!Goto, Enqueuing
<1>2. loop = "meas" /\ verifier \in Type /\ completed \in Nat
  BY <1>1 DEF LoadInv, LoadTypes, LoadControl
<1>3. high \in Nat /\ item \in Items
  BY <1>2 DEF Items
<1> HIDE DEF high, item
<1>4. CASE verifier' = [[verifier EXCEPT !.high_water = high] EXCEPT !.q = Append(@, item)] /\ lpc' = "wait"
  <2> DEFINE a == Append(verifier.q, item)
  <2>1. verifier.q \in Seq(Items)
    BY <1>2
  <2>2. /\ a \in Seq(Items) /\ Len(a) = Len(verifier.q) + 1
        /\ \A i \in DOMAIN verifier.q : i \in DOMAIN a /\ a[i] = verifier.q[i]
        /\ Len(a) \in DOMAIN a /\ a[Len(a)] = item
    BY <1>3, <2>1, Appended
  <2>3. verifier' = [verifier EXCEPT !.high_water = high, !.q = a]
    BY <1>2, <1>4
  <2> HIDE DEF a
  <2>4. /\ verifier' \in Type /\ verifier'.q = a /\ verifier'.hand = verifier.hand
        /\ verifier'.verified = verifier.verified /\ verifier'.invalid = verifier.invalid
        /\ verifier'.exception = verifier.exception
    BY <1>2, <1>3, <2>2, <2>3
  <2>5. LoadTypes'
    BY <1>1, <2>4 DEF LoadInv, LoadTypes
  <2>6. LoadControl'
    <3>1. SlotsOwned' /\ SubmittedKept'
      BY <1>1 DEF LoadInv, LoadControl, SlotsOwned, SubmittedKept, Load!Arm, Load!Total, Looping, Enqueuing
    <3> QED BY <1>1, <1>2, <1>4, <3>1 DEF LoadControl, Looping, Enqueuing
  <2>7. LoadCounted'
    <3>1. WrongSeen => WrongSeen'
      <4>1. CASE lpc = "enqueue_bad"
        <5>1. a[Len(a)] = "bad"
          BY <2>2, <4>1 DEF item
        <5> QED BY <2>2, <2>4, <5>1 DEF WrongSeen
      <4>2. CASE lpc # "enqueue_bad"
        BY <2>2, <2>4, <4>2 DEF WrongSeen
      <4> QED BY <4>1, <4>2
    <3>2. Load!Arm' = Load!Arm
      BY <1>1 DEF Load!Arm
    <3> QED BY <1>1, <3>1, <3>2 DEF LoadInv, LoadCounted
  <2>8. LoadVerified'
    <3>1. ~verifier.exception => Handed = completed + (0 - 1)
      BY <1>1, <1>2 DEF LoadInv, LoadVerified
    <3>2. Len(verifier.q) \in Nat /\ verifier.verified \in Nat /\ verifier.invalid \in Nat
      BY <1>2
    <3>3. Handed' = Handed + 1
      <4> DEFINE h == IF verifier.hand = "none" THEN 0 ELSE 1
                 v == verifier.verified
                 i == verifier.invalid
                 l == Len(verifier.q)
                 m == Len(a)
      <4>1. Handed = v + i + l + h
        BY DEF Handed
      <4>2. Handed' = v + i + m + h
        BY <2>4 DEF Handed
      <4>3. v \in Nat /\ i \in Nat /\ l \in Nat /\ h \in Nat /\ m = l + 1
        BY <2>2, <3>2
      <4> HIDE DEF h, v, i, l, m
      <4> QED BY <4>1, <4>2, <4>3
    <3>4. Handed \in Int
      BY <3>2 DEF Handed
    <3> QED BY <1>1, <1>2, <1>4, <2>4, <3>1, <3>3, <3>4 DEF LoadVerified, Enqueuing
  <2> QED BY <2>5, <2>6, <2>7, <2>8 DEF LoadInv
<1>5. CASE verifier' = [[verifier EXCEPT !.high_water = high] EXCEPT !.blocked = TRUE] /\ lpc' = lpc
  <2>1. verifier' = [verifier EXCEPT !.high_water = high, !.blocked = TRUE]
    BY <1>2, <1>5
  <2>2. /\ verifier' \in Type /\ verifier'.q = verifier.q /\ verifier'.hand = verifier.hand
        /\ verifier'.verified = verifier.verified /\ verifier'.invalid = verifier.invalid
        /\ verifier'.exception = verifier.exception
    BY <1>2, <1>3, <2>1
  <2>3. LoadTypes'
    BY <1>1, <2>2 DEF LoadInv, LoadTypes
  <2>4. LoadControl'
    <3>1. SlotsOwned' /\ SubmittedKept'
      BY <1>1, <1>5 DEF LoadInv, LoadControl, SlotsOwned, SubmittedKept, Load!Arm, Load!Total
    <3> QED BY <1>1, <1>2, <1>5, <3>1 DEF LoadControl, Looping, Enqueuing
  <2>5. LoadCounted'
    <3>1. WrongSeen => WrongSeen'
      BY <1>5, <2>2 DEF WrongSeen
    <3>2. Load!Arm' = Load!Arm
      BY <1>1 DEF Load!Arm
    <3> QED BY <1>1, <3>1, <3>2 DEF LoadInv, LoadCounted
  <2>6. LoadVerified'
    BY <1>1, <1>5, <2>2 DEF LoadInv, LoadVerified, Handed, Enqueuing
  <2> QED BY <2>3, <2>4, <2>5, <2>6 DEF LoadInv
<1> QED BY <1>1, <1>4, <1>5

LEMMA FinishKeeps ==
  ASSUME LoadInv, Load!Finish
  PROVE  LoadInv'
<1>1. UNCHANGED <<stage, loop, submitted, completed, reqs, served, active, before, taint>>
  BY DEF Load!Finish
<1>2. loop = "meas" /\ MineSlots(reqs) = {} /\ completed \in Nat
  BY DEF Load!Finish, Load!At, LoadInv, LoadTypes, LoadControl, Looping
<1>3. SlotsOwned'
  BY <1>1 DEF LoadInv, LoadControl, SlotsOwned, Load!Arm
<1>4. Load!Arm' = Load!Arm
  BY <1>1 DEF Load!Arm
<1>5. CASE lpc = "drain" /\ verifier' = [verifier EXCEPT !.q = Append(@, "stop")] /\ lpc' = "join"
  <2> DEFINE Type == [q : Seq(Items), hand : Items \cup {"none"}, verified : Nat, invalid : Nat,
                      exception : BOOLEAN, high_water : Nat, blocked : BOOLEAN]
             a == Append(verifier.q, "stop")
  <2>1. verifier \in Type
    BY DEF LoadInv, LoadTypes
  <2>2. /\ a \in Seq(Items) /\ Len(a) = Len(verifier.q) + 1 /\ a # <<>> /\ a[Len(a)] = "stop"
        /\ \A i \in DOMAIN verifier.q : i \in DOMAIN a /\ a[i] = verifier.q[i]
    BY <2>1, Appended DEF Items
  <2>3. verifier' = [verifier EXCEPT !.q = a]
    BY <1>5
  <2> HIDE DEF a
  <2>4. /\ verifier' \in Type /\ verifier'.q = a /\ verifier'.hand = verifier.hand
        /\ verifier'.verified = verifier.verified /\ verifier'.invalid = verifier.invalid
        /\ verifier'.exception = verifier.exception
    BY <2>1, <2>2, <2>3
  <2>5. LoadTypes'
    BY <1>1, <2>4 DEF LoadInv, LoadTypes
  <2>6. LoadControl'
    BY <1>1, <1>2, <1>3, <1>5 DEF LoadControl, SubmittedKept, Looping, Enqueuing
  <2>7. LoadCounted'
    <3>1. WrongSeen => WrongSeen'
      BY <1>5, <2>2, <2>4 DEF WrongSeen
    <3> QED BY <1>1, <1>4, <3>1 DEF LoadInv, LoadCounted
  <2>8. LoadVerified'
    <3>1. ~verifier.exception => Handed = completed
      BY <1>2, <1>5 DEF LoadInv, LoadVerified, Enqueuing
    <3>2. Len(verifier.q) \in Nat /\ verifier.verified \in Nat /\ verifier.invalid \in Nat
      BY <2>1
    <3>3. Handed' = Handed + 1
      <4> DEFINE h == IF verifier.hand = "none" THEN 0 ELSE 1
                 v == verifier.verified
                 i == verifier.invalid
                 l == Len(verifier.q)
                 m == Len(a)
      <4>1. Handed = v + i + l + h
        BY DEF Handed
      <4>2. Handed' = v + i + m + h
        BY <2>4 DEF Handed
      <4>3. v \in Nat /\ i \in Nat /\ l \in Nat /\ h \in Nat /\ m = l + 1
        BY <2>2, <3>2
      <4> HIDE DEF h, v, i, l, m
      <4> QED BY <4>1, <4>2, <4>3
    <3> QED BY <1>1, <1>2, <1>5, <2>2, <2>4, <3>1, <3>3 DEF LoadVerified, Enqueuing
  <2> QED BY <2>5, <2>6, <2>7, <2>8 DEF LoadInv
<1>6. CASE lpc = "join" /\ lpc' = "judge" /\ verifier' = verifier
  <2>1. LoadTypes'
    BY <1>1, <1>6 DEF LoadInv, LoadTypes
  <2>2. LoadControl'
    BY <1>1, <1>2, <1>3, <1>6 DEF LoadControl, SubmittedKept, Looping, Enqueuing
  <2>3. LoadCounted'
    <3>1. WrongSeen => WrongSeen'
      BY <1>6 DEF WrongSeen
    <3> QED BY <1>1, <1>4, <3>1 DEF LoadInv, LoadCounted
  <2>4. LoadVerified'
    BY <1>1, <1>6 DEF LoadInv, LoadVerified, Handed, Enqueuing
  <2> QED BY <2>1, <2>2, <2>3, <2>4 DEF LoadInv
<1> QED BY <1>5, <1>6 DEF Load!Finish, Load!At, Load!Goto

LEMMA JudgeKeeps ==
  ASSUME LoadInv, Load!Judge
  PROVE  LoadInv'
<1>1. /\ UNCHANGED <<reqs, served, active>> /\ submitted' = 0 /\ completed' = 0 /\ taint' = 0
      /\ lpc = "judge" /\ lpc' \in {"begin", "ended"} /\ loop' = "soak"
      /\ verifier' = Load!NewVerifier /\ before' = [k \in Load!Counters |-> 0]
      /\ stage' = stage \/ (stage # 4 /\ stage' = stage + 1)
  BY DEF Load!Judge, Load!At, Load!Goto, Load!Stages
<1>2. MineSlots(reqs) = {} /\ stage \in 1..4
  BY <1>1 DEF LoadInv, LoadTypes, LoadControl, Looping
<1>3. LoadTypes'
  <2>1. verifier' \in [q : Seq(Items), hand : Items \cup {"none"}, verified : Nat, invalid : Nat,
                       exception : BOOLEAN, high_water : Nat, blocked : BOOLEAN]
    BY <1>1 DEF Load!NewVerifier
  <2>2. stage' \in 1..4
    BY <1>1, <1>2
  <2> QED BY <1>1, <2>1, <2>2 DEF LoadInv, LoadTypes
<1>4. LoadControl'
  <2>1. \A s \in Load!Slots : ~Mine(reqs[s])
    BY <1>2, NothingMine
  <2>2. SlotsOwned'
    BY <1>1, <2>1 DEF LoadInv, LoadControl, SlotsOwned
  <2>3. verifier' = Load!NewVerifier'
    BY <1>1 DEF Load!NewVerifier
  <2> QED BY <1>1, <1>2, <2>2, <2>3 DEF LoadControl, SubmittedKept, Looping, Enqueuing
<1>5. LoadCounted'
  BY <1>1 DEF LoadInv, LoadCounted
<1>6. LoadVerified'
  BY <1>1 DEF LoadVerified
<1> QED BY <1>3, <1>4, <1>5, <1>6 DEF LoadInv

-----------------------------------------------------------------------------
(* The invariant of the island under load.                                 *)

LEMMA LoadInvInit ==
  ASSUME Init
  PROVE  LoadInv
<1>1. /\ stage = 1 /\ lpc = "begin" /\ loop = "soak" /\ submitted = 0 /\ completed = 0
      /\ reqs = [s \in Load!Slots |-> Load!Free] /\ served = [k \in Load!Counters |-> 0]
      /\ active = [k \in Load!Methods |-> [cur |-> 0, max |-> 0]] /\ before = served
      /\ verifier = Load!NewVerifier /\ taint = 0
  BY DEF Init, Load!Init
<1>2. /\ \A s \in Load!Slots : reqs[s].st = "free"
      /\ reqs \in Requests
  BY <1>1 DEF Load!Free, Requests
<1>3. MineSlots(reqs) = {} /\ InSlots(reqs) = {}
  BY <1>2 DEF MineSlots, InSlots, Mine, In
<1>4. LoadTypes
  <2>1. verifier \in [q : Seq(Items), hand : Items \cup {"none"}, verified : Nat, invalid : Nat,
                      exception : BOOLEAN, high_water : Nat, blocked : BOOLEAN]
    BY <1>1 DEF Load!NewVerifier
  <2> QED BY <1>1, <1>2, <2>1 DEF LoadTypes
<1>5. LoadControl
  BY <1>1, <1>2, <1>3 DEF LoadControl, SubmittedKept, SlotsOwned, Mine, Looping, Enqueuing
<1>6. LoadCounted
  <2>1. active["coord"].cur = 0
    BY <1>1 DEF Load!Methods
  <2> QED BY <1>1, <1>3, <2>1, FS_EmptySet DEF LoadCounted
<1>7. LoadVerified
  BY <1>1 DEF LoadVerified
<1> QED BY <1>4, <1>5, <1>6, <1>7 DEF LoadInv

LEMMA LoadInvStep ==
  ASSUME LoadInv, [Next]_supVars
  PROVE  LoadInv'
<1>1. ASSUME UNCHANGED loadVars PROVE LoadInv'
  BY <1>1 DEF loadVars, LoadInv, LoadTypes, LoadControl, SubmittedKept, SlotsOwned, LoadCounted, WrongSeen,
              LoadVerified, Handed, Load!Arm, Load!Total, Load!Stages, Load!NewVerifier
<1>2. CASE Load!Scheduler
  BY <1>2, BeginKeeps, FillKeeps, WarmupKeeps, WaitExpiresKeeps, LoopDoneKeeps, WindowKeeps, MeasuredKeeps,
     EnqueueKeeps, FinishKeeps, JudgeKeeps DEF Load!Scheduler
<1> QED BY <1>1, <1>2, ActorsKeep, VerifierKeeps
       DEF Next, Driver, Islands, Accidents, Actors, Verifier, Scheduler, Ended, supVars

THEOREM LoadInvariant == Spec => []LoadInv
  BY LoadInvInit, LoadInvStep, PTL DEF Spec

-----------------------------------------------------------------------------
(* What a passing batch means.                                             *)

LEMMA IsolatedWhenPassed ==
  ASSUME LoadInv
  PROVE  PassMeansIsolated
<1> SUFFICES ASSUME lpc = "judge", loop = "meas", Load!run_throughput_batch = "pass"
             PROVE  taint = 0 /\ Load!Inside = {}
  BY DEF PassMeansIsolated, Load!PassMeansIsolated
<1> DEFINE g == Load!eval_throughput_batch_gates
<1>1. \A f \in DOMAIN g : g[f]
  BY DEF Load!run_throughput_batch, Load!classify_throughput_batch
<1>2. /\ completed = N
      /\ verifier.verified = N /\ verifier.invalid = 0 /\ ~verifier.exception
      /\ Load!Delta("outgoing_ray_fetch") = IF Load!Arm = "ray" THEN N ELSE 0
      /\ Load!Delta("serving_ray_fetch") = IF Load!Arm = "ray" THEN N ELSE 0
      /\ Load!Delta("hpx_actions_served") = IF Load!Arm = "hpx" THEN N ELSE 0
      /\ Load!NoLeak
  BY <1>1 DEF Load!eval_throughput_batch_gates
<1>3. N \in Nat /\ taint \in Nat /\ Load!Arm \in {"ray", "hpx"} /\ Len(verifier.q) \in Nat
  BY LoadBounds, Constants DEF LoadInv, LoadTypes
<1>4. ~WrongSeen
  <2>1. Handed = N + 1
    BY <1>2 DEF LoadInv, LoadVerified, Enqueuing
  <2>2. Len(verifier.q) + (IF verifier.hand = "none" THEN 0 ELSE 1) = 1
    <3> DEFINE h == IF verifier.hand = "none" THEN 0 ELSE 1
               l == Len(verifier.q)
    <3>1. Handed = N + 0 + l + h /\ h \in Nat
      BY <1>2 DEF Handed
    <3>2. l \in Nat
      BY <1>3
    <3> HIDE DEF h, l
    <3>3. l + h = 1
      BY <1>3, <2>1, <3>1, <3>2
    <3> QED BY <3>3 DEF h, l
  <2>3. \/ verifier.hand = "stop" /\ verifier.q = <<>>
        \/ verifier.q # <<>> /\ verifier.q[Len(verifier.q)] = "stop"
    BY DEF LoadInv, LoadVerified
  <2>4. DOMAIN verifier.q = 1..Len(verifier.q) /\ (verifier.q # <<>> => Len(verifier.q) # 0)
    BY DEF LoadInv, LoadTypes
  <2>5. CASE verifier.hand = "none"
    <3>1. Len(verifier.q) = 1 /\ verifier.q[1] = "stop"
      BY <1>3, <2>2, <2>3, <2>4, <2>5
    <3> QED BY <1>2, <2>4, <2>5, <3>1 DEF WrongSeen
  <2>6. CASE verifier.hand # "none"
    <3>1. Len(verifier.q) = 0
      BY <1>3, <2>2, <2>6
    <3>2. verifier.hand = "stop" /\ DOMAIN verifier.q = {}
      BY <2>3, <2>4, <3>1
    <3> QED BY <1>2, <3>2 DEF WrongSeen
  <2> QED BY <2>5, <2>6
<1>5. /\ Cardinality(FetchedSlots(reqs)) \in Nat /\ Cardinality(ServedSlots(reqs)) \in Nat
      /\ Cardinality(InSlots(reqs)) \in Nat /\ IsFiniteSet(InSlots(reqs))
  BY SlotSets
<1>6. taint = 0
  <2> DEFINE F == Cardinality(FetchedSlots(reqs))
             G == Cardinality(ServedSlots(reqs))
  <2>1. Sum(served) - Sum(before) >= (IF Load!Arm = "ray" THEN completed ELSE 0) + completed + F + G + taint
    BY <1>4 DEF LoadInv, LoadCounted
  <2>2. \A k \in Load!Counters : served[k] \in Nat /\ before[k] \in Nat
    BY DEF LoadInv, LoadTypes
  <2>3. Sum(served) - Sum(before) = IF Load!Arm = "ray" THEN N + N ELSE N
    <3>1. /\ served["outgoing_ray_fetch"] \in Nat /\ before["outgoing_ray_fetch"] \in Nat
          /\ served["serving_ray_fetch"] \in Nat /\ before["serving_ray_fetch"] \in Nat
          /\ served["hpx_actions_served"] \in Nat /\ before["hpx_actions_served"] \in Nat
      BY <2>2 DEF Load!Counters
    <3> DEFINE a1 == served["outgoing_ray_fetch"]
               a2 == served["serving_ray_fetch"]
               a3 == served["hpx_actions_served"]
               b1 == before["outgoing_ray_fetch"]
               b2 == before["serving_ray_fetch"]
               b3 == before["hpx_actions_served"]
    <3>2. /\ a1 - b1 = (IF Load!Arm = "ray" THEN N ELSE 0)
          /\ a2 - b2 = (IF Load!Arm = "ray" THEN N ELSE 0)
          /\ a3 - b3 = (IF Load!Arm = "hpx" THEN N ELSE 0)
      BY <1>2 DEF Load!Delta
    <3>3. Sum(served) = a1 + a2 + a3 /\ Sum(before) = b1 + b2 + b3
      BY DEF Sum
    <3> HIDE DEF a1, a2, a3, b1, b2, b3
    <3>4. /\ a1 \in Nat /\ a2 \in Nat /\ a3 \in Nat /\ b1 \in Nat /\ b2 \in Nat /\ b3 \in Nat
      BY <3>1 DEF a1, a2, a3, b1, b2, b3
    <3> QED BY <1>3, <3>2, <3>3, <3>4
  <2> HIDE DEF F, G
  <2> QED BY <1>2, <1>3, <1>5, <2>1, <2>3 DEF F, G
<1>7. Load!Inside = {}
  <2>1. Cardinality(InSlots(reqs)) = 0
    BY <1>2 DEF Load!NoLeak, Load!Methods, LoadInv, LoadCounted
  <2>2. InSlots(reqs) = {}
    BY <1>5, <2>1, FS_EmptySet
  <2> QED BY <2>2 DEF InSlots, In, Load!Inside
<1> QED BY <1>6, <1>7

THEOREM PassedAlone == Spec => []PassMeansIsolated
  BY LoadInvariant, IsolatedWhenPassed, PTL

-----------------------------------------------------------------------------
(* An island that is declared poisoned.                                    *)

Sc == Poisoned!Script
Terminal == {"attribute", "assemble", "return"}

\* A program goes from island to island and launches each once.
Ascending(sc) ==
    /\ 1 \in DOMAIN sc
    /\ \A s \in DOMAIN sc : sc[s].isl \in Nat /\ (sc[s].op \notin Terminal => s + 1 \in DOMAIN sc)
    /\ \A s \in DOMAIN sc : s + 1 \in DOMAIN sc =>
         /\ sc[s].isl <= sc[s + 1].isl
         /\ sc[s + 1].op \in Poisoned!Launches => sc[s].isl < sc[s + 1].isl

\* The connector is gone and never reported its departure.
Gone == Dead(conn) /\ "disconnected1" \notin files

\* Facts belong to islands already launched.
FactsKnown ==
    /\ step \in DOMAIN Sc /\ \A g \in got : g[1] \in Nat /\ g[1] <= Sc[step].isl
    /\ pc \in {"ready", "join"} => Sc[step].op \in Poisoned!Launches
    /\ pc = "snap" => Sc[step].op = "predicate"
    /\ pc \in {"call", "ready", "join"} /\ Sc[step].op \in Poisoned!Launches => \A g \in got : g[1] # Sc[step].isl

\* What the predicate remembers of an island.
Glimpses == [look : 1..5, n : Nat, dead : BOOLEAN, disc : BOOLEAN, rootrc : {"none", "run", "zero", "other"},
             clean : BOOLEAN, found : {"none", "clean", "poison", "deadline"}, ok : BOOLEAN]

\* What the looks of a snapshot saw is still so.
LooksHold ==
    pc = "snap" => /\ obs \in Glimpses
                   /\ obs.look > 1 /\ obs.dead => Dead(conn)
                   /\ obs.look > 2 /\ obs.dead /\ ~obs.disc => Gone
                   /\ obs.found = "poison" => Gone

PoisonInv ==
    program \in Poisoned!PoisonPrograms =>
        FactsKnown /\ LooksHold /\ (Has(Sc[step].isl, "is_poisoned") => Gone)

LEMMA Explicit53 == Ascending(Poisoned!run_once53)
  BY DEF Ascending, Poisoned!run_once53, Poisoned!Do, Poisoned!Launches, Terminal

LEMMA Explicit54 == Ascending(Poisoned!run_once54)
  BY DEF Ascending, Poisoned!run_once54, Poisoned!Do, Poisoned!Launches, Terminal

LEMMA PreflightAscends == Ascending(Poisoned!run_preflight)
<1> DEFINE r == Poisoned!run_preflight
<1>1. Len(r) = 10 /\ DOMAIN r = 1..10
  BY DEF Poisoned!run_preflight, Poisoned!Arm
<1>2. /\ r[1] = Poisoned!Do("preflight", 1) /\ r[2] = Poisoned!Do("idle", 1)
      /\ r[3] = Poisoned!Do("exit_root", 1) /\ r[4] = Poisoned!Do("kill", 1)
      /\ r[5] = Poisoned!Do("preflight", 2) /\ r[6] = Poisoned!Do("idle", 2)
      /\ r[7] = Poisoned!Do("exit_root", 2) /\ r[8] = Poisoned!Do("kill", 2)
      /\ r[9] = Poisoned!Do("shutdown", 2) /\ r[10] = Poisoned!Do("attribute", 2)
  BY DEF Poisoned!run_preflight, Poisoned!Arm
<1> HIDE DEF r
<1>4. Ascending(r)
  BY <1>1, <1>2 DEF Ascending, Poisoned!Do, Poisoned!Launches, Terminal
<1> QED BY <1>4 DEF r

LEMMA SleepAscends == Ascending(Poisoned!run_sleep_control)
<1> DEFINE r == Poisoned!run_sleep_control
<1>1. Len(r) = 7 /\ DOMAIN r = 1..7
  BY DEF Poisoned!run_sleep_control, Poisoned!CleanIsland
<1>2. /\ r[1] = Poisoned!Do("clean", 1) /\ r[2] = Poisoned!Do("predicate", 1)
      /\ r[3] = Poisoned!Do("marker", 1) /\ r[4] = Poisoned!Do("kill", 1)
      /\ r[5] = Poisoned!Do("classify", 1) /\ r[6] = Poisoned!Do("shutdown", 1)
      /\ r[7] = Poisoned!Do("return", 1)
  BY DEF Poisoned!run_sleep_control, Poisoned!CleanIsland
<1> HIDE DEF r
<1>4. Ascending(r)
  BY <1>1, <1>2 DEF Ascending, Poisoned!Do, Poisoned!Launches, Terminal
<1> QED BY <1>4 DEF r

LEMMA BoundaryAscends == Ascending(Poisoned!run_boundary_probe)
<1> DEFINE r == Poisoned!run_boundary_probe
<1>1. Len(r) = 6 /\ DOMAIN r = 1..6
  BY DEF Poisoned!run_boundary_probe, Poisoned!CrashIsland
<1>2. /\ r[1] = Poisoned!Do("self_crash", 1) /\ r[2] = Poisoned!Do("predicate", 1)
      /\ r[3] = Poisoned!Do("kill", 1) /\ r[4] = Poisoned!Do("classify", 1)
      /\ r[5] = Poisoned!Do("shutdown", 1) /\ r[6] = Poisoned!Do("return", 1)
  BY DEF Poisoned!run_boundary_probe, Poisoned!CrashIsland
<1> HIDE DEF r
<1>4. Ascending(r)
  BY <1>1, <1>2 DEF Ascending, Poisoned!Do, Poisoned!Launches, Terminal
<1> QED BY <1>4 DEF r

\* A cell of the calibration: a clean island, then a crashing one.
LEMMA CellSteps ==
  ASSUME NEW a \in Nat, NEW b \in Nat
  PROVE  LET r == Poisoned!CleanIsland(a, <<Poisoned!Do("exit_root", a)>>) \o Poisoned!CrashIsland(b)
         IN  /\ r[1] = Poisoned!Do("clean", a) /\ r[2] = Poisoned!Do("predicate", a)
             /\ r[3] = Poisoned!Do("marker", a) /\ r[4] = Poisoned!Do("exit_root", a)
             /\ r[5] = Poisoned!Do("kill", a) /\ r[6] = Poisoned!Do("classify", a)
             /\ r[7] = Poisoned!Do("self_crash", b) /\ r[8] = Poisoned!Do("predicate", b)
             /\ r[9] = Poisoned!Do("kill", b) /\ r[10] = Poisoned!Do("classify", b)
  BY DEF Poisoned!CleanIsland, Poisoned!CrashIsland

LEMMA Phase1Ascends == Ascending(Poisoned!run_phase1)
<1> DEFINE n == Len(Timeouts)
           cell(t) == Poisoned!CleanIsland(2 * t - 1, <<Poisoned!Do("exit_root", 2 * t - 1)>>) \o Poisoned!CrashIsland(2 * t)
           f == [s \in 1..(10 * n) |-> cell(1 + ((s - 1) \div 10))[1 + ((s - 1) % 10)]]
           e == <<Poisoned!Do("shutdown", 2 * n), Poisoned!Do("assemble", 2 * n)>>
           r == f \o e
           T(s) == 1 + ((s - 1) \div 10)
           K(s) == 1 + ((s - 1) % 10)
<1>1. n \in Nat
  BY TimeoutList
<1>2. Poisoned!run_phase1 = r
  BY DEF Poisoned!run_phase1, Poisoned!CleanCell, Poisoned!CrashCell
<1>3. ASSUME NEW t \in Nat \ {0}, NEW k \in 1..10
      PROVE  /\ cell(t)[k].isl = IF k <= 6 THEN 2 * t - 1 ELSE 2 * t
             /\ cell(t)[k].op \notin Terminal
             /\ cell(t)[k].op \in Poisoned!Launches => k = 1 \/ k = 7
  <2> DEFINE a == 2 * t - 1
             b == 2 * t
             c == Poisoned!CleanIsland(a, <<Poisoned!Do("exit_root", a)>>) \o Poisoned!CrashIsland(b)
  <2>1. a \in Nat /\ b \in Nat /\ cell(t) = c
    OBVIOUS
  <2> HIDE DEF a, b, cell
  <2>2. /\ c[1] = Poisoned!Do("clean", a) /\ c[2] = Poisoned!Do("predicate", a)
        /\ c[3] = Poisoned!Do("marker", a) /\ c[4] = Poisoned!Do("exit_root", a)
        /\ c[5] = Poisoned!Do("kill", a) /\ c[6] = Poisoned!Do("classify", a)
        /\ c[7] = Poisoned!Do("self_crash", b) /\ c[8] = Poisoned!Do("predicate", b)
        /\ c[9] = Poisoned!Do("kill", b) /\ c[10] = Poisoned!Do("classify", b)
    BY <2>1, CellSteps
  <2> HIDE DEF c
  <2>3. /\ c[k].isl = IF k <= 6 THEN a ELSE b
        /\ c[k].op \notin Terminal
        /\ c[k].op \in Poisoned!Launches => k = 1 \/ k = 7
    BY <2>2 DEF Poisoned!Do, Terminal, Poisoned!Launches
  <2> QED BY <2>1, <2>3 DEF a, b
<1> HIDE DEF cell
<1>4. ASSUME NEW s \in 1..(10 * n)
      PROVE  T(s) \in 1..n /\ K(s) \in 1..10 /\ s = 10 * (T(s) - 1) + K(s)
  BY <1>1
<1>5. /\ Len(r) = 10 * n + 2 /\ DOMAIN r = 1..(10 * n + 2) /\ 1 \in DOMAIN r
      /\ \A s \in 1..(10 * n) : r[s] = cell(T(s))[K(s)]
      /\ r[10 * n + 1] = Poisoned!Do("shutdown", 2 * n) /\ r[10 * n + 2] = Poisoned!Do("assemble", 2 * n)
  BY <1>1
<1> HIDE DEF r, T, K
<1>6. ASSUME NEW s \in 1..(10 * n)
      PROVE  /\ r[s].isl = IF K(s) <= 6 THEN 2 * T(s) - 1 ELSE 2 * T(s)
             /\ r[s].op \notin Terminal
             /\ r[s].op \in Poisoned!Launches => K(s) = 1 \/ K(s) = 7
  <2>1. T(s) \in Nat \ {0} /\ K(s) \in 1..10
    BY <1>1, <1>4
  <2>2. r[s] = cell(T(s))[K(s)]
    BY <1>5
  <2> QED BY <1>3, <2>1, <2>2
<1>7. /\ r[10 * n + 1].isl = 2 * n /\ r[10 * n + 1].op \notin Poisoned!Launches
      /\ r[10 * n + 2].isl = 2 * n /\ r[10 * n + 2].op \in Terminal /\ r[10 * n + 2].op \notin Poisoned!Launches
  BY <1>5 DEF Poisoned!Do, Terminal, Poisoned!Launches
<1>8. ASSUME NEW s \in DOMAIN r
      PROVE  r[s].isl \in Nat /\ (r[s].op \notin Terminal => s + 1 \in DOMAIN r)
  <2>1. CASE s \in 1..(10 * n)
    <3>1. T(s) \in 1..n /\ r[s].isl = IF K(s) <= 6 THEN 2 * T(s) - 1 ELSE 2 * T(s)
      BY <1>4, <1>6, <2>1
    <3>2. r[s].isl \in Nat
      BY <1>1, <3>1
    <3>3. s + 1 \in 1..(10 * n + 2)
      BY <1>1, <2>1
    <3> QED BY <1>5, <3>2, <3>3
  <2>2. CASE s \notin 1..(10 * n)
    BY <1>1, <1>5, <1>7, <2>2
  <2> QED BY <2>1, <2>2
<1>9. ASSUME NEW s \in DOMAIN r, s + 1 \in DOMAIN r
      PROVE  r[s].isl <= r[s + 1].isl /\ (r[s + 1].op \in Poisoned!Launches => r[s].isl < r[s + 1].isl)
  <2>1. CASE s + 1 \in 1..(10 * n)
    <3>1. s \in 1..(10 * n)
      BY <1>1, <1>5, <2>1
    <3>2. /\ K(s) < 10 => T(s + 1) = T(s) /\ K(s + 1) = K(s) + 1
          /\ K(s) = 10 => T(s + 1) = T(s) + 1 /\ K(s + 1) = 1
      <4> DEFINE t1 == T(s)
                 k1 == K(s)
                 t2 == T(s + 1)
                 k2 == K(s + 1)
      <4>1. t1 \in 1..n /\ k1 \in 1..10 /\ s = 10 * (t1 - 1) + k1
        BY <1>4, <3>1
      <4>2. t2 \in 1..n /\ k2 \in 1..10 /\ s + 1 = 10 * (t2 - 1) + k2
        BY <1>4, <2>1
      <4> HIDE DEF t1, k1, t2, k2, n
      <4>3. /\ k1 < 10 => t2 = t1 /\ k2 = k1 + 1
            /\ k1 = 10 => t2 = t1 + 1 /\ k2 = 1
        BY <1>1, <4>1, <4>2
      <4> QED BY <4>3 DEF t1, k1, t2, k2
    <3>3. T(s) \in 1..n /\ K(s) \in 1..10
      BY <1>4, <3>1
    <3>4. /\ r[s].isl = IF K(s) <= 6 THEN 2 * T(s) - 1 ELSE 2 * T(s)
          /\ r[s + 1].isl = IF K(s + 1) <= 6 THEN 2 * T(s + 1) - 1 ELSE 2 * T(s + 1)
          /\ r[s + 1].op \in Poisoned!Launches => K(s + 1) = 1 \/ K(s + 1) = 7
      BY <1>6, <2>1, <3>1
    <3> QED BY <1>1, <3>2, <3>3, <3>4
  <2>2. CASE s = 10 * n
    <3>1. CASE n = 0
      BY <1>5, <2>2, <3>1
    <3>2. CASE n # 0
      <4>1. s \in 1..(10 * n)
        BY <1>1, <2>2, <3>2
      <4>2. T(s) \in 1..n /\ K(s) \in 1..10 /\ s = 10 * (T(s) - 1) + K(s)
        BY <1>4, <4>1
      <4>3. T(s) <= n
        BY <1>1, <4>2
      <4>4. r[s].isl <= 2 * n
        BY <1>1, <1>6, <4>1, <4>2
      <4> QED BY <1>1, <1>7, <2>2, <4>4
    <3> QED BY <3>1, <3>2
  <2>3. CASE s = 10 * n + 1
    BY <1>1, <1>7, <2>3
  <2>4. s \in 1..(10 * n + 2) /\ s + 1 \in 1..(10 * n + 2)
    BY <1>5, <1>9
  <2>5. s + 1 \in 1..(10 * n) \/ s = 10 * n \/ s = 10 * n + 1
    BY <1>1, <2>4
  <2> QED BY <2>1, <2>2, <2>3, <2>5
<1>10. Ascending(r)
  BY <1>5, <1>8, <1>9 DEF Ascending
<1> QED BY <1>2, <1>10

LEMMA ScriptAscends ==
  ASSUME program \in Poisoned!PoisonPrograms
  PROVE  Ascending(Sc)
  BY Explicit53, Explicit54, PreflightAscends, SleepAscends, BoundaryAscends, Phase1Ascends
     DEF Poisoned!PoisonPrograms, Sc, Poisoned!Script

LEMMA SameScript ==
  ASSUME program' = program
  PROVE  Sc' = Sc
  BY DEF Sc, Poisoned!Script

-----------------------------------------------------------------------------
(* What dead processes and departures do: nothing more.                    *)

LEMMA DeadStays ==
  ASSUME NEW p, Dead(p)
  PROVE  /\ p \notin {"none", "boot", "ready", "probed", "joined", "leaving", "left"}
         /\ p \notin RootLive /\ p \notin ConnLive /\ Poisoned!Killed(p) = p
  BY DEF Dead, Live, RootLive, ConnLive, Poisoned!Killed, Poisoned!Live, Poisoned!RootLive, Poisoned!ConnLive

LEMMA IslandKeeps ==
  ASSUME RootSteps \/ ConnSteps \/ Crash
  PROVE  /\ Dead(conn) => conn' = conn
         /\ Gone => Gone'
<1>1. CASE RootSteps
  <2>1. conn' = conn
    BY <1>1 DEF RootSteps, RootBoots, RootWaitsTwo, ActionStarts, RootProbes, RootWaitsLeave, RootReports,
                RootWitnesses, RootIdlesOut, RootFinalizes, RootExits, RootGoes
  <2>2. "disconnected1" \in files' => "disconnected1" \in files
    BY <1>1 DEF RootSteps, RootBoots, RootWaitsTwo, ActionStarts, RootProbes, RootWaitsLeave, RootReports,
                RootWitnesses, RootIdlesOut, RootFinalizes, RootExits, RootGoes
  <2> QED BY <2>1, <2>2 DEF Gone
<1>2. CASE ConnSteps
  <2>1. conn \in {"boot", "probed", "joined", "leaving", "left"}
    BY <1>2 DEF ConnSteps, Preprobe, Joins, Leaves, Reports, ConnExits, SelfCrash, VictimEnds, ConnGoes
  <2> QED BY <2>1, DeadStays DEF Gone
<1>3. CASE Crash
  BY <1>3, DeadStays DEF Crash, Gone
<1> QED BY <1>1, <1>2, <1>3

-----------------------------------------------------------------------------
(* The steps of a program.                                                 *)

\* The program stops, or waits inside a launch, and records nothing.
LEMMA Stays ==
  ASSUME PoisonInv, program' = program, step' = step, got' = got,
         \/ pc' \in {"raised", "done"} /\ (Gone => Gone')
         \/ pc' \in {"ready", "join"} /\ pc \in {"call", "ready", "join"} /\ Sc[step].op \in Poisoned!Launches
  PROVE  PoisonInv'
<1> SUFFICES ASSUME program \in Poisoned!PoisonPrograms
             PROVE  (FactsKnown /\ LooksHold /\ (Has(Sc[step].isl, "is_poisoned") => Gone))'
  BY DEF PoisonInv
<1>1. Sc' = Sc
  BY SameScript
<1>2. FactsKnown /\ (Has(Sc[step].isl, "is_poisoned") => Gone)
  BY DEF PoisonInv
<1>3. FactsKnown'
  BY <1>1, <1>2 DEF FactsKnown
<1>4. LooksHold'
  BY DEF LooksHold
<1>5. CASE pc' \in {"raised", "done"} /\ (Gone => Gone')
  BY <1>1, <1>2, <1>3, <1>4, <1>5 DEF Has
<1>6. CASE pc' \in {"ready", "join"} /\ pc \in {"call", "ready", "join"} /\ Sc[step].op \in Poisoned!Launches
  <2>1. \A g \in got : g[1] # Sc[step].isl
    BY <1>2, <1>6 DEF FactsKnown
  <2>2. ~Has(Sc[step].isl, "is_poisoned")'
    BY <1>1, <2>1 DEF Has
  <2> QED BY <1>3, <1>4, <2>2
<1> QED BY <1>5, <1>6

\* The program goes on to its next call with what this one recorded.
LEMMA GoesOn ==
  ASSUME PoisonInv, program \in Poisoned!PoisonPrograms, program' = program, Poisoned!NextStep,
         Sc[step].op \notin Terminal,
         NEW fs, \A g \in got' : g \in got \/ \E f \in fs : g = <<Sc[step].isl, f>>,
         <<Sc[step].isl, "is_poisoned">> \in got' => Gone'
  PROVE  PoisonInv'
<1> DEFINE i == Sc[step].isl
           j == Sc[step + 1].isl
<1>1. Sc' = Sc /\ step' = step + 1 /\ pc' = "call" /\ FactsKnown /\ Ascending(Sc)
  BY SameScript, ScriptAscends DEF PoisonInv, Poisoned!NextStep
<1>2. /\ step \in DOMAIN Sc /\ step + 1 \in DOMAIN Sc /\ i \in Nat /\ j \in Nat /\ i <= j
      /\ Sc[step + 1].op \in Poisoned!Launches => i < j
  BY <1>1 DEF FactsKnown, Ascending
<1>3. \A g \in got' : g[1] \in Nat /\ g[1] <= i
  BY <1>1, <1>2 DEF FactsKnown
<1> HIDE DEF i, j
<1>4. \A g \in got' : g[1] \in Nat /\ g[1] <= j /\ (Sc[step + 1].op \in Poisoned!Launches => g[1] # j)
  BY <1>2, <1>3
<1>5. FactsKnown'
  BY <1>1, <1>2, <1>4 DEF FactsKnown, j
<1>6. LooksHold'
  BY <1>1 DEF LooksHold
<1>7. ASSUME <<j, "is_poisoned">> \in got' PROVE Gone'
  <2>1. j <= i
    BY <1>3, <1>7
  <2>2. i = j
    BY <1>2, <2>1
  <2> QED BY <1>7, <2>2 DEF i
<1>8. (Has(Sc[step].isl, "is_poisoned") => Gone)'
  BY <1>1, <1>7 DEF Has, j
<1> QED BY <1>5, <1>6, <1>8 DEF PoisonInv

\* A call of the driver that leaves the files alone, at most kills the
\* connector, and records anything but that the island is poisoned.
LEMMA Told ==
  ASSUME PoisonInv, program \in Poisoned!PoisonPrograms, program' = program, Poisoned!NextStep,
         Sc[step].op \notin Terminal,
         NEW fs, got' = got \cup Poisoned!Facts(Sc[step].isl, fs), "is_poisoned" \notin fs,
         conn' = conn \/ conn' = Poisoned!Killed(conn), files' = files
  PROVE  PoisonInv'
<1>1. Gone => Gone'
  BY DeadStays DEF Gone
<1>2. \A g \in got' : g \in got \/ \E f \in fs : g = <<Sc[step].isl, f>>
  BY DEF Poisoned!Facts
<1>3. <<Sc[step].isl, "is_poisoned">> \in got' => Gone'
  BY <1>1 DEF Poisoned!Facts, PoisonInv, Has
<1> QED BY <1>2, <1>3, GoesOn

LEMMA KillMayFail ==
  ASSUME Poisoned!KillBoth
  PROVE  conn' = conn \/ conn' = Poisoned!Killed(conn)
  BY DEF Poisoned!KillBoth

LEMMA SweepMayFail ==
  ASSUME Poisoned!Sweep
  PROVE  conn' = conn \/ conn' = Poisoned!Killed(conn)
  BY DEF Poisoned!Sweep

LEMMA LaunchKeeps ==
  ASSUME PoisonInv, program \in Poisoned!PoisonPrograms, Poisoned!launch_island
  PROVE  PoisonInv'
<1>1. /\ FactsKnown /\ Sc[step].isl = Poisoned!Isl /\ Sc[step].op = Poisoned!Op
      /\ program' = program /\ obs' = obs
  BY DEF PoisonInv, Sc, Poisoned!Isl, Poisoned!Op, Poisoned!launch_island, Poisoned!PopenRoot, Poisoned!AwaitReady,
         Poisoned!PopenConnFails, Poisoned!AwaitJoined, Poisoned!SameRun
<1>2. CASE Poisoned!PopenRoot
  BY <1>1, <1>2, Stays DEF Poisoned!PopenRoot, Poisoned!Raise, Poisoned!Popen, Poisoned!island, Gone
<1>3. ASSUME pc \in {"ready", "join"}, NEW ready, NEW joined, Poisoned!Launched(ready, joined)
      PROVE  PoisonInv'
  <2> DEFINE fs == {"root_started"} \cup Poisoned!If(ready, "ready") \cup Poisoned!If(joined, "joined")
  <2>1. /\ Poisoned!NextStep /\ got' = got \cup Poisoned!Facts(Sc[step].isl, fs)
        /\ Sc[step].op \in Poisoned!Launches
    BY <1>1, <1>3 DEF Poisoned!Launched, Poisoned!Record, FactsKnown
  <2>2. "is_poisoned" \notin fs
    BY DEF Poisoned!If
  <2>3. \A g \in got : g[1] # Sc[step].isl
    BY <1>1, <1>3, <2>1 DEF FactsKnown
  <2> HIDE DEF fs
  <2>4. \A g \in got' : g \in got \/ \E f \in fs : g = <<Sc[step].isl, f>>
    BY <2>1 DEF Poisoned!Facts
  <2>5. <<Sc[step].isl, "is_poisoned">> \notin got'
    BY <2>1, <2>2, <2>3 DEF Poisoned!Facts
  <2>6. Sc[step].op \notin Terminal
    BY <2>1 DEF Terminal, Poisoned!Launches
  <2> QED BY <1>1, <2>1, <2>4, <2>5, <2>6, GoesOn
<1>4. CASE Poisoned!AwaitReady
  <2>1. PICK ok \in BOOLEAN :
          IF ok /\ Poisoned!Live(root) THEN conn' = "boot" /\ pc' = "join" /\ UNCHANGED <<step, reg, got>>
          ELSE Poisoned!Launched(ok, FALSE) /\ UNCHANGED conn
    BY <1>4 DEF Poisoned!AwaitReady
  <2>2. pc = "ready"
    BY <1>4 DEF Poisoned!AwaitReady
  <2>3. CASE ok /\ Poisoned!Live(root)
    BY <1>1, <2>1, <2>2, <2>3, Stays DEF FactsKnown
  <2> QED BY <1>3, <2>1, <2>2, <2>3
<1>5. CASE Poisoned!PopenConnFails
  BY <1>1, <1>5, Stays DEF Poisoned!PopenConnFails, Poisoned!Raise, Poisoned!island, Gone
<1>6. CASE Poisoned!AwaitJoined
  BY <1>3, <1>6 DEF Poisoned!AwaitJoined
<1> QED BY <1>2, <1>4, <1>5, <1>6 DEF Poisoned!launch_island

LEMMA CallsKeep ==
  ASSUME PoisonInv, program \in Poisoned!PoisonPrograms,
         \/ Poisoned!inject_connector_loss \/ Poisoned!wait_loss_witness \/ Poisoned!mark_poisoned
         \/ Poisoned!kill_island53 \/ Poisoned!kill_island \/ Poisoned!wait_exit \/ Poisoned!read_result
         \/ Poisoned!shutdown \/ Poisoned!AwaitIdle \/ Poisoned!AwaitMarker
  PROVE  PoisonInv'
<1>1. Sc[step].isl = Poisoned!Isl /\ Sc[step].op = Poisoned!Op
  BY DEF Sc, Poisoned!Isl, Poisoned!Op
<1>2. ASSUME NEW op, op \notin Terminal, NEW fs, Poisoned!Looks(op, fs), "is_poisoned" \notin fs
      PROVE  PoisonInv'
  BY <1>1, <1>2, Told DEF Poisoned!Looks, Poisoned!At, Poisoned!Record, Poisoned!SameRun, Poisoned!island
<1>3. CASE Poisoned!inject_connector_loss
  <2>1. /\ Poisoned!NextStep /\ program' = program /\ files' = files /\ Sc[step].op \notin Terminal
    BY <1>1, <1>3 DEF Poisoned!inject_connector_loss, Poisoned!At, Poisoned!SameRun, Terminal
  <2>2. CASE Poisoned!Injected
    <3>1. PICK ok \in BOOLEAN : /\ conn' = Poisoned!Killed(conn)
                                /\ Poisoned!Record({"injected"} \cup Poisoned!If(ok, "action_started"))
      BY <1>3, <2>2 DEF Poisoned!inject_connector_loss
    <3>2. "is_poisoned" \notin {"injected"} \cup Poisoned!If(ok, "action_started")
      BY DEF Poisoned!If
    <3> QED BY <1>1, <2>1, <3>1, <3>2, Told DEF Poisoned!Record
  <2>3. CASE ~Poisoned!Injected
    <3>1. conn' = conn /\ got' = got
      BY <1>3, <2>3 DEF Poisoned!inject_connector_loss
    <3>2. got' = got \cup Poisoned!Facts(Sc[step].isl, {})
      BY <3>1 DEF Poisoned!Facts
    <3> QED BY <2>1, <3>1, <3>2, Told
  <2> QED BY <2>2, <2>3
<1>4. CASE Poisoned!wait_loss_witness
  BY <1>2, <1>4 DEF Poisoned!wait_loss_witness, Poisoned!If, Terminal
<1>5. CASE Poisoned!mark_poisoned
  BY <1>2, <1>5 DEF Poisoned!mark_poisoned, Poisoned!If, Terminal
<1>6. ASSUME NEW wanted \in BOOLEAN, Poisoned!KillIsland(wanted)
      PROVE  PoisonInv'
  <2> DEFINE fs == IF wanted
                   THEN Poisoned!If(~Poisoned!Live(root') /\ ~Poisoned!Live(conn'), "reaped")
                        \cup Poisoned!If(root' = "killed", "sigkill") \cup Poisoned!If("idle_cap" \in files, "idle_cap")
                   ELSE {}
  <2>1. /\ Poisoned!NextStep /\ program' = program /\ files' = files /\ Sc[step].op \notin Terminal
        /\ got' = got \cup Poisoned!Facts(Sc[step].isl, fs)
    BY <1>1, <1>6 DEF Poisoned!KillIsland, Poisoned!At, Poisoned!SameRun, Terminal, Poisoned!Record
  <2>2. "is_poisoned" \notin fs
    BY DEF Poisoned!If
  <2>3. conn' = conn \/ conn' = Poisoned!Killed(conn)
    BY <1>6, KillMayFail DEF Poisoned!KillIsland
  <2> QED BY <2>1, <2>2, <2>3, Told
<1>7. CASE Poisoned!kill_island53
  BY <1>6, <1>7 DEF Poisoned!kill_island53, Poisoned!Injected, Poisoned!HasAll
<1>8. CASE Poisoned!kill_island
  BY <1>6, <1>8 DEF Poisoned!kill_island
<1>9. CASE Poisoned!wait_exit
  BY <1>2, <1>9 DEF Poisoned!wait_exit, Poisoned!If, Terminal
<1>10. CASE Poisoned!read_result
  BY <1>2, <1>10 DEF Poisoned!read_result, Poisoned!If, Terminal
<1>11. CASE Poisoned!shutdown
  <2>1. /\ Poisoned!NextStep /\ program' = program /\ files' = files /\ Sc[step].op \notin Terminal /\ got' = got
    BY <1>1, <1>11 DEF Poisoned!shutdown, Poisoned!At, Poisoned!SameRun, Terminal
  <2>2. conn' = conn \/ conn' = Poisoned!Killed(conn)
    BY <1>11, SweepMayFail DEF Poisoned!shutdown
  <2>3. got' = got \cup Poisoned!Facts(Sc[step].isl, {})
    BY <2>1 DEF Poisoned!Facts
  <2> QED BY <2>1, <2>2, <2>3, Told
<1>12. CASE Poisoned!AwaitIdle
  BY <1>2, <1>12 DEF Poisoned!AwaitIdle, Poisoned!If, Terminal
<1>13. CASE Poisoned!AwaitMarker
  BY <1>2, <1>13 DEF Poisoned!AwaitMarker, Poisoned!If, Terminal
<1> QED BY <1>3, <1>4, <1>5, <1>7, <1>8, <1>9, <1>10, <1>11, <1>12, <1>13

\* The looks are taken one after the other: the connector dead, then no
\* departure reported.  A dead connector reports none afterwards.
LEMMA PredicateKeeps ==
  ASSUME PoisonInv, program \in Poisoned!PoisonPrograms, Poisoned!evaluate_health_predicate
  PROVE  PoisonInv'
<1>1. /\ FactsKnown /\ LooksHold /\ (Has(Sc[step].isl, "is_poisoned") => Gone)
      /\ Sc[step].isl = Poisoned!Isl /\ Sc[step].op = Poisoned!Op
      /\ program' = program /\ conn' = conn /\ files' = files
  BY DEF PoisonInv, Sc, Poisoned!Isl, Poisoned!Op, Poisoned!evaluate_health_predicate, Poisoned!BeginPredicate,
         Poisoned!Look, Poisoned!Decide, Poisoned!Deadline, Poisoned!Conclude, Poisoned!island
<1>2. Sc' = Sc /\ (Gone <=> Gone') /\ (Dead(conn) <=> Dead(conn)')
  BY <1>1, SameScript DEF Gone, Dead, Live, RootLive, ConnLive
<1>3. ASSUME step' = step, got' = got, pc' = "snap", Sc[step].op = "predicate", LooksHold'
      PROVE  PoisonInv'
  BY <1>1, <1>2, <1>3 DEF FactsKnown, PoisonInv, Has, Poisoned!Launches
<1>4. CASE Poisoned!BeginPredicate
  <2>1. pc' = "snap" /\ step' = step /\ got' = got /\ Sc[step].op = "predicate" /\ obs' = [Poisoned!NoObs EXCEPT !.look = 1]
    BY <1>1, <1>4 DEF Poisoned!BeginPredicate, Poisoned!At
  <2>2. obs' \in Glimpses /\ obs'.look = 1 /\ obs'.found = "none"
    <3>1. obs' = [look |-> 1, n |-> 0, dead |-> FALSE, disc |-> FALSE, rootrc |-> "none",
                  clean |-> FALSE, found |-> "none", ok |-> FALSE]
      BY <2>1 DEF Poisoned!NoObs
    <3> QED BY <3>1 DEF Glimpses
  <2>3. LooksHold'
    BY <2>2 DEF LooksHold
  <2> QED BY <1>3, <2>1, <2>3
<1>5. CASE Poisoned!Look
  <2>1. pc = "snap" /\ pc' = "snap" /\ step' = step /\ got' = got /\ obs.look \in 1..4
    BY <1>1, <1>5 DEF Poisoned!Look, LooksHold, Glimpses
  <2>2. obs' = [Poisoned!Snap(obs) EXCEPT !.look = @ + 1]
    BY <1>5 DEF Poisoned!Look
  <2>3. ASSUME NEW o \in Glimpses, obs' = [o EXCEPT !.look = obs.look + 1], o.look = obs.look
        PROVE  /\ obs' \in Glimpses /\ obs'.look = obs.look + 1
               /\ obs'.dead = o.dead /\ obs'.disc = o.disc /\ obs'.found = o.found
    BY <2>1, <2>3 DEF Glimpses
  <2>4. obs \in Glimpses
    BY <1>1, <2>1 DEF LooksHold
  <2>5. CASE obs.look = 1
    <3> DEFINE o == [obs EXCEPT !.dead = Poisoned!Dead(conn)]
    <3>1. Poisoned!Snap(obs) = o
      BY <2>5 DEF Poisoned!Snap, Poisoned!SnapshotOrder
    <3>2. o \in Glimpses /\ o.look = 1 /\ o.dead = Poisoned!Dead(conn) /\ o.found = obs.found
      BY <2>4, <2>5 DEF Glimpses, Poisoned!Dead
    <3> HIDE DEF o
    <3>3. obs' \in Glimpses /\ obs'.look = 2 /\ obs'.dead = Poisoned!Dead(conn) /\ obs'.found = obs.found
      BY <2>2, <2>3, <2>5, <3>1, <3>2
    <3>4. obs'.dead => Dead(conn)'
      BY <1>2, <3>3 DEF Poisoned!Dead, Poisoned!Live, Poisoned!RootLive, Poisoned!ConnLive, Dead, Live, RootLive, ConnLive
    <3>5. LooksHold'
      BY <1>1, <1>2, <2>1, <3>3, <3>4 DEF LooksHold
    <3> QED BY <1>3, <2>1, <3>5, <1>1 DEF FactsKnown
  <2>6. CASE obs.look = 2
    <3> DEFINE v == "disconnected1" \in files
               o == [obs EXCEPT !.disc = v]
    <3>1. Poisoned!Snap(obs) = o
      BY <2>6 DEF Poisoned!Snap, Poisoned!SnapshotOrder
    <3>2. o \in Glimpses /\ o.look = 2 /\ o.dead = obs.dead /\ (o.disc <=> v) /\ o.found = obs.found
      <4>1. v \in BOOLEAN
        OBVIOUS
      <4> HIDE DEF v
      <4> QED BY <2>4, <2>6, <4>1 DEF Glimpses
    <3> HIDE DEF o
    <3>3. /\ obs' \in Glimpses /\ obs'.look = 3 /\ obs'.dead = obs.dead /\ obs'.found = obs.found
          /\ (obs'.disc <=> "disconnected1" \in files)
      BY <2>2, <2>3, <2>6, <3>1, <3>2
    <3>4. obs'.dead => Dead(conn)
      BY <1>1, <2>1, <2>6, <3>3 DEF LooksHold
    <3>5. obs'.dead /\ ~obs'.disc => Gone
      BY <3>3, <3>4 DEF Gone
    <3>6. LooksHold'
      BY <1>1, <1>2, <2>1, <3>3, <3>4, <3>5 DEF LooksHold
    <3> QED BY <1>3, <2>1, <3>6, <1>1 DEF FactsKnown
  <2>7. CASE obs.look \in {3, 4}
    <3> DEFINE o == Poisoned!Snap(obs)
    <3>1. /\ o \in Glimpses /\ o.look = obs.look /\ o.dead = obs.dead /\ o.disc = obs.disc /\ o.found = obs.found
      <4>1. CASE obs.look = 3
        <5> DEFINE v == IF Poisoned!Live(root) THEN "run" ELSE IF root = "exit0" THEN "zero" ELSE "other"
        <5>1. o = [obs EXCEPT !.rootrc = v]
          BY <4>1 DEF Poisoned!Snap, Poisoned!SnapshotOrder
        <5>2. v \in {"run", "zero", "other"}
          OBVIOUS
        <5> HIDE DEF v, o
        <5> QED BY <2>4, <4>1, <5>1, <5>2 DEF Glimpses
      <4>2. CASE obs.look = 4
        <5> DEFINE v == "result" \in files /\ ~Poisoned!Failing
        <5>1. o = [obs EXCEPT !.clean = v]
          BY <4>2 DEF Poisoned!Snap, Poisoned!SnapshotOrder
        <5>2. v \in BOOLEAN
          OBVIOUS
        <5> HIDE DEF v, o
        <5> QED BY <2>4, <4>2, <5>1, <5>2 DEF Glimpses
      <4> QED BY <2>7, <4>1, <4>2
    <3> HIDE DEF o
    <3>2. /\ obs' \in Glimpses /\ obs'.look = obs.look + 1
          /\ obs'.dead = obs.dead /\ obs'.disc = obs.disc /\ obs'.found = obs.found
      BY <2>2, <2>3, <3>1 DEF o
    <3>3. LooksHold'
      BY <1>1, <1>2, <2>1, <2>7, <3>2 DEF LooksHold
    <3> QED BY <1>3, <2>1, <3>3, <1>1 DEF FactsKnown
  <2> QED BY <2>1, <2>5, <2>6, <2>7
<1>6. CASE Poisoned!Decide \/ Poisoned!Deadline
  <2>1. /\ pc = "snap" /\ pc' = "snap" /\ step' = step /\ got' = got /\ obs.look = 5
        /\ Sc[step].op = "predicate" /\ obs \in Glimpses
    BY <1>1, <1>6 DEF Poisoned!Decide, Poisoned!Deadline, FactsKnown, LooksHold
  <2>2. /\ obs' \in Glimpses /\ obs'.look = 1
        /\ obs'.found = "poison" => obs.dead /\ ~obs.disc
    <3>1. ASSUME NEW n \in Nat, NEW f \in {"none", "clean", "poison", "deadline"},
                 obs' = [obs EXCEPT !.look = 1, !.n = n, !.found = f]
          PROVE  obs' \in Glimpses /\ obs'.look = 1 /\ obs'.found = f
      <4> DEFINE a == [obs EXCEPT !.look = 1]
                 b == [a EXCEPT !.n = n]
                 c == [b EXCEPT !.found = f]
      <4>1. a \in Glimpses /\ a.look = 1
        BY <2>1 DEF Glimpses
      <4>2. obs' = c
        BY <2>1, <3>1 DEF Glimpses
      <4> HIDE DEF a
      <4>3. b \in Glimpses /\ b.look = 1
        BY <4>1 DEF Glimpses
      <4> HIDE DEF b
      <4>4. c \in Glimpses /\ c.look = 1 /\ c.found = f
        BY <4>3 DEF Glimpses
      <4> QED BY <4>2, <4>4
    <3>2. CASE Poisoned!Decide
      <4> DEFINE v == IF obs.clean THEN "clean" ELSE IF Poisoned!Poison(obs) THEN "poison" ELSE "none"
                 m == obs.n + 1
      <4>1. obs' = [obs EXCEPT !.look = 1, !.n = m, !.found = v]
        BY <3>2 DEF Poisoned!Decide
      <4>2. m \in Nat
        BY <2>1 DEF Glimpses
      <4>3. v \in {"clean", "poison", "none"} /\ (v = "poison" => obs.dead /\ ~obs.disc)
        BY DEF Poisoned!Poison
      <4> HIDE DEF v, m
      <4>4. v \in {"none", "clean", "poison", "deadline"}
        BY <4>3
      <4>5. obs' \in Glimpses /\ obs'.look = 1 /\ obs'.found = v
        BY <3>1, <4>1, <4>2, <4>4
      <4> QED BY <4>3, <4>5
    <3>3. CASE Poisoned!Deadline
      <4>1. obs' = [obs EXCEPT !.look = 1, !.n = obs.n, !.found = "deadline"] /\ obs.n \in Nat
        BY <2>1, <3>3 DEF Poisoned!Deadline, Glimpses
      <4> QED BY <3>1, <4>1
    <3> QED BY <1>6, <3>2, <3>3
  <2>3. LooksHold'
    BY <1>1, <1>2, <2>1, <2>2 DEF LooksHold
  <2> QED BY <1>3, <2>1, <2>3
<1>7. CASE Poisoned!Conclude
  <2> DEFINE finished == obs.found = "clean" \/ obs.clean
             poisoned == obs.found = "poison" \/ (Poisoned!Poison(obs) /\ ~finished)
             fs == {Poisoned!Classification(finished, poisoned)} \cup Poisoned!If(poisoned, "is_poisoned")
                    \cup Poisoned!If(obs.dead, "not_alive") \cup Poisoned!If(obs.dead /\ conn = "abort", "self_crashed")
                    \cup Poisoned!If(~obs.disc, "no_disconnect") \cup Poisoned!If(~finished, "no_completion")
                    \cup Poisoned!If(obs.rootrc # "zero", "root_not_clean")
  <2>1. /\ Poisoned!NextStep /\ obs.look = 5 /\ pc = "snap"
        /\ got' = got \cup Poisoned!Facts(Sc[step].isl, fs)
    BY <1>1, <1>7 DEF Poisoned!Conclude, Poisoned!Record
  <2>2. Sc[step].op \notin Terminal
    BY <1>1, <2>1 DEF FactsKnown, Terminal
  <2>3. poisoned => Gone
    BY <1>1, <2>1 DEF LooksHold, Poisoned!Poison
  <2>4. "is_poisoned" \in fs => poisoned
    BY DEF Poisoned!If, Poisoned!Classification
  <2> HIDE DEF finished, poisoned, fs
  <2>5. \A g \in got' : g \in got \/ \E f \in fs : g = <<Sc[step].isl, f>>
    BY <2>1 DEF Poisoned!Facts
  <2>6. <<Sc[step].isl, "is_poisoned">> \in got' => Gone'
    BY <1>1, <1>2, <2>1, <2>3, <2>4 DEF Poisoned!Facts, Has
  <2> QED BY <1>1, <2>1, <2>2, <2>5, <2>6, GoesOn
<1> QED BY <1>4, <1>5, <1>6, <1>7 DEF Poisoned!evaluate_health_predicate

LEMMA RestKeeps ==
  ASSUME PoisonInv, program \in Poisoned!PoisonPrograms,
         \/ Poisoned!RayGetFails \/ Poisoned!Raised \/ Poisoned!Attribute \/ Poisoned!Assemble
         \/ Poisoned!Return \/ Poisoned!Skip
  PROVE  PoisonInv'
<1>1. program' = program /\ step' = step /\ got' = got /\ files' = files /\ pc' \in {"raised", "done"}
  BY DEF Poisoned!RayGetFails, Poisoned!Raised, Poisoned!Attribute, Poisoned!Assemble, Poisoned!Return, Poisoned!Skip,
         Poisoned!SameRun, Poisoned!island, Poisoned!Raise
<1>2. conn' = conn \/ conn' = Poisoned!Killed(conn)
  BY SweepMayFail DEF Poisoned!RayGetFails, Poisoned!Raised, Poisoned!Attribute, Poisoned!Assemble, Poisoned!Return,
                      Poisoned!Skip, Poisoned!island
<1>3. Gone => Gone'
  BY <1>1, <1>2, DeadStays DEF Gone
<1> QED BY <1>1, <1>3, Stays

\* What a cell is judged to be replaces what was recorded of its island.
LEMMA ClassifyKeeps ==
  ASSUME PoisonInv, program \in Poisoned!PoisonPrograms, Poisoned!Classify
  PROVE  PoisonInv'
<1> DEFINE c == IF kind = "clean" THEN Poisoned!_classify_clean(Poisoned!ClassOf(Poisoned!Isl), Poisoned!Has(Poisoned!Isl, "marker"))
                ELSE Poisoned!_classify_self_crash(Poisoned!ClassOf(Poisoned!Isl))
<1>1. c # "is_poisoned"
  BY DEF Poisoned!_classify_clean, Poisoned!_classify_self_crash
<1>2. /\ Sc[step].isl = Poisoned!Isl /\ Sc[step].op = "classify" /\ Poisoned!NextStep /\ program' = program
      /\ got' = {g \in got : g[1] # Poisoned!Isl} \cup Poisoned!Facts(Poisoned!Isl, {c})
  BY DEF Sc, Poisoned!Isl, Poisoned!Op, Poisoned!Classify, Poisoned!At, Poisoned!SameRun
<1> HIDE DEF c
<1>3. \A g \in got' : g \in got \/ \E f \in {c} : g = <<Sc[step].isl, f>>
  BY <1>2 DEF Poisoned!Facts
<1>4. <<Sc[step].isl, "is_poisoned">> \notin got'
  BY <1>1, <1>2 DEF Poisoned!Facts
<1> QED BY <1>2, <1>3, <1>4, GoesOn DEF Terminal

-----------------------------------------------------------------------------

LEMMA PoisonInvInit ==
  ASSUME Init
  PROVE  PoisonInv
<1> SUFFICES ASSUME program \in Poisoned!PoisonPrograms
             PROVE  FactsKnown /\ LooksHold /\ (Has(Sc[step].isl, "is_poisoned") => Gone)
  BY DEF PoisonInv
<1>1. step = 1 /\ pc = "call" /\ got = {}
  BY DEF Init, SpikeInit
<1>2. step \in DOMAIN Sc
  BY <1>1, ScriptAscends DEF Ascending
<1> QED BY <1>1, <1>2 DEF FactsKnown, LooksHold, Has

\* What the processes of an island do on their own.
LEMMA ProcessesKeep ==
  ASSUME PoisonInv, UNCHANGED driver, Gone => Gone', Dead(conn) => Dead(conn)'
  PROVE  PoisonInv'
<1> SUFFICES ASSUME program \in Poisoned!PoisonPrograms
             PROVE  (FactsKnown /\ LooksHold /\ (Has(Sc[step].isl, "is_poisoned") => Gone))'
  BY DEF PoisonInv, driver
<1>1. Sc' = Sc /\ UNCHANGED <<program, step, pc, obs, got>>
  BY SameScript DEF driver
<1>2. FactsKnown' /\ (Has(Sc[step].isl, "is_poisoned") => Gone)'
  BY <1>1 DEF PoisonInv, FactsKnown, Has
<1>3. LooksHold'
  BY <1>1 DEF PoisonInv, LooksHold
<1> QED BY <1>2, <1>3

LEMMA PoisonInvStep ==
  ASSUME PoisonInv, [Next]_supVars
  PROVE  PoisonInv'
<1>1. ASSUME UNCHANGED <<program, step, pc, obs, got, conn, files>> PROVE PoisonInv'
  <2>1. Sc' = Sc
    BY <1>1, SameScript
  <2> QED BY <1>1, <2>1 DEF PoisonInv, FactsKnown, LooksHold, Has, Gone, Dead, Live, RootLive, ConnLive
<1>2. CASE Poisoned!PoisonDriver
  BY <1>2, LaunchKeeps, CallsKeep, PredicateKeeps, RestKeeps, ClassifyKeeps DEF Poisoned!PoisonDriver
<1>3. CASE Nodes!TwoNodeDriver
  <2>1. program \notin Poisoned!PoisonPrograms
    BY <1>3 DEF Nodes!TwoNodeDriver, Nodes!TwoNodePrograms, Poisoned!PoisonPrograms
  <2>2. program' = program
    BY <1>3 DEF Nodes!TwoNodeDriver, Nodes!SameRun, Nodes!Gate, Nodes!_launch_root, Nodes!_launch_connector,
                Nodes!_launch_fails, Nodes!diag_loopback, Nodes!_root_exit, Nodes!_root_kill, Nodes!_root_wait,
                Nodes!_connector_exit, Nodes!_connector_kill, Nodes!run_island_ray, Nodes!_runner_kills, Nodes!_ray_get, Nodes!_early_read,
                Nodes!Read, Nodes!_orphan_check_node, Nodes!_cleanup_and_check, Nodes!_raised, Nodes!Judge, Nodes!Write
  <2> QED BY <2>1, <2>2 DEF PoisonInv
<1>4. CASE (RootSteps \/ ConnSteps \/ Crash) /\ UNCHANGED driver
  <2>1. (Gone => Gone') /\ (Dead(conn) => Dead(conn)')
    BY <1>4, IslandKeeps DEF Dead, Live, RootLive, ConnLive
  <2> QED BY <1>4, <2>1, ProcessesKeep
<1>5. CASE OldEnds
  BY <1>1, <1>5 DEF OldEnds, island
<1>6. CASE Islands \/ Accidents
  BY <1>4, <1>5, <1>6 DEF Islands, Accidents, Processes, Mishaps
<1>7. CASE UNCHANGED vars
  BY <1>1, <1>7 DEF vars
<1> QED BY <1>2, <1>3, <1>6, <1>7 DEF Next, Driver, Actors, Verifier, Scheduler, Ended, supVars

\* The looks of the predicate hold until it decides, and its verdict until the
\* next island (evaluate_health_predicate 194-269 of experiment 54).
THEOREM PoisonInvariant == Spec => []PoisonInv
  BY PoisonInvInit, PoisonInvStep, PTL DEF Spec

\* Whatever is declared poisoned lost its connector for good: the looks are
\* ordered so that each stays true while the next is taken.
THEOREM PoisonedIsLost == Spec => []PoisonMeansLoss
<1>1. PoisonInv => PoisonMeansLoss
  BY DEF PoisonInv, PoisonMeansLoss, Gone, Sc, Poisoned!Isl
<1> QED BY <1>1, PoisonInvariant, PTL
-----------------------------------------------------------------------------
(* What a pass rests on, in the programs of 53 to 60.                      *)

St == Nodes!Steps

\* Programs that judge an island, and those that only look at the platform.
Islanders == {"exp56", "a2b57", "rayfree58", "ray58", "control60"}
Platform == {"scaffold57", "localize57", "deep57", "nfs57"}

\* A step is under way that has launched something.
Busy == pc \notin {"call", "raised", "write", "done"}

\* Nothing runs; if anything does, the orphan check of island i has failed or
\* could not be made.
Still == ~Live(root) /\ ~Live(conn) /\ old = {}
Reported(i) == Has(i, "unchecked") \/ (Has(i, "orphans") /\ ~Has(i, "no_orphans"))
Checked(i) == Still \/ Reported(i)

\* What the root wrote into its result, and what it never writes.
ResultShape ==
    /\ root = "two" \/ "proved" \in res => "two" \in res
    /\ {"proved", "no_orphans"} \cap files = {} /\ "no_orphans" \notin res

\* An island launched later, or not yet, has no facts.
Unlaunched ==
    \A s \in DOMAIN St : St[s].op \in {"loop", "island"} /\ (step < s \/ (s = step /\ pc = "call")) =>
        \A g \in got : g[1] # St[s].isl

\* Experiment 60 looks for the island at hand only.
Control60 ==
    /\ step <= 2 => old = {}
    /\ step <= 2 /\ pc = "call" => root = "none" /\ conn = "none"
    /\ step = 3 /\ pc = "call" => Checked(1)
    /\ step = 3 => old = {} \/ Reported(1)
    /\ step = 4 => Checked(2) \/ Reported(1)

TwoNodeShape ==
    /\ step \in DOMAIN St /\ Unlaunched
    /\ Busy => St[step].op \in {"loop", "island"}
    /\ pc \in {"sweep", "orphans"} => St[step].op = "island"
    /\ St[step].op = "island" => ~Has(St[step].isl, "no_orphans")
    /\ program \in Platform => Still /\ root = "none" /\ conn = "none"
    /\ program \in Islanders /\ St[step].op \in {"island", "judge"} /\ Has(St[step].isl, "proved") => "proved" \in res
    /\ program \in Islanders \ {"control60"} /\ St[step].op = "judge" => Checked(St[step].isl)
    /\ program = "control60" => Control60

PassInv ==
    /\ ResultShape
    /\ verdict = "pass" => pc \in {"write", "done"} /\ PassMeans
    /\ program \in Poisoned!PoisonPrograms /\ Has(Sc[step].isl, "proved") => "proved" \in res
    /\ program \in Nodes!TwoNodePrograms => TwoNodeShape
    /\ Loaded => verdict = "none"

\* What an instance of Spike says is what Spike says.
LEMMA PlainNodes ==
  /\ \A p : (Nodes!Live(p) <=> Live(p)) /\ Nodes!Killed(p) = Killed(p)
  /\ \A i, f : Nodes!Has(i, f) <=> Has(i, f)
  /\ \A i, fs : Nodes!Facts(i, fs) = Facts(i, fs)
  /\ \A i : Nodes!Running(i) = Running(i)
<1>1. \A p : Nodes!Live(p) <=> Live(p)
  BY DEF Nodes!Live, Nodes!RootLive, Nodes!ConnLive, Live, RootLive, ConnLive
<1> QED BY <1>1 DEF Nodes!Killed, Killed, Nodes!Has, Has, Nodes!Facts, Facts, Nodes!Running, Running, Nodes!If, If

\* What does not run stays as it is, whatever is killed.
LEMMA NotLive ==
  ASSUME NEW p, ~Live(p)
  PROVE  /\ p \notin RootLive /\ p \notin ConnLive /\ Killed(p) = p
         /\ p \notin {"boot", "ready", "two", "served", "alone", "idle", "finalizing", "final",
                      "probed", "joined", "leaving", "left"}
  BY DEF Live, RootLive, ConnLive, Killed

\* A process that is killed does not run.
LEMMA KilledEnds ==
  ASSUME NEW p
  PROVE  ~Live(Killed(p)) /\ (Killed(p) = "two" => p = "two")
  BY DEF Live, RootLive, ConnLive, Killed

\* What the processes of the current island do.
LEMMA IslandSteps ==
  ASSUME RootSteps \/ ConnSteps \/ Crash
  PROVE  /\ ~Live(root) => root' = root
         /\ ~Live(conn) => conn' = conn
         /\ res \subseteq res'
         /\ ResultShape => ResultShape'
<1>1. CASE RootSteps
  <2>1. Live(root)
    BY <1>1 DEF RootSteps, RootBoots, RootWaitsTwo, ActionStarts, RootProbes, RootWaitsLeave, RootReports,
                RootWitnesses, RootIdlesOut, RootFinalizes, RootExits, RootGoes, Live, RootLive
  <2>2. conn' = conn /\ res \subseteq res'
    BY <1>1 DEF RootSteps, RootBoots, RootWaitsTwo, ActionStarts, RootProbes, RootWaitsLeave, RootReports,
                RootWitnesses, RootIdlesOut, RootFinalizes, RootExits, RootGoes
  <2>3. ResultShape => ResultShape'
    BY <1>1 DEF RootSteps, RootBoots, RootWaitsTwo, ActionStarts, RootProbes, RootWaitsLeave, RootReports,
                RootWitnesses, RootIdlesOut, RootFinalizes, RootExits, RootGoes, ResultShape
  <2> QED BY <2>1, <2>2, <2>3
<1>2. CASE ConnSteps
  <2>1. Live(conn)
    BY <1>2 DEF ConnSteps, Preprobe, Joins, Leaves, Reports, ConnExits, SelfCrash, VictimEnds, ConnGoes, Live, ConnLive
  <2>2. root' = root /\ res' = res
    BY <1>2 DEF ConnSteps, Preprobe, Joins, Leaves, Reports, ConnExits, SelfCrash, VictimEnds, ConnGoes
  <2>3. "proved" \notin files /\ "no_orphans" \notin files => "proved" \notin files' /\ "no_orphans" \notin files'
    BY <1>2 DEF ConnSteps, Preprobe, Joins, Leaves, Reports, ConnExits, SelfCrash, VictimEnds, ConnGoes
  <2> QED BY <2>1, <2>2, <2>3 DEF ResultShape
<1>3. CASE Crash
  <2>1. (~Live(root) => root' = root) /\ (~Live(conn) => conn' = conn) /\ UNCHANGED <<files, res>>
    BY <1>3, NotLive DEF Crash
  <2>2. root' = "two" => root = "two"
    BY <1>3 DEF Crash
  <2> QED BY <2>1, <2>2 DEF ResultShape
<1> QED BY <1>1, <1>2, <1>3

\* A pass stays what it was.
LEMMA PassStays ==
  ASSUME PassMeans, verdict' = verdict, program' = program, got \subseteq got', res \subseteq res', Still => Still'
  PROVE  PassMeans'
<1>1. \A i : Has(i, "unchecked") => Has(i, "unchecked")'
  BY DEF Has
<1> QED BY <1>1 DEF PassMeans, Still

\* The driver waits while something happens on the islands.
LEMMA DriverWaits ==
  ASSUME PassInv, UNCHANGED <<program, step, pc, got, verdict, lpc>>, ResultShape', res \subseteq res', old' \subseteq old,
         ~Live(root) => root' = root, ~Live(conn) => conn' = conn
  PROVE  PassInv'
<1>1. Still => Still'
  BY DEF Still
<1>2. Sc' = Sc /\ St' = St /\ Loaded' = Loaded
  BY SameScript DEF St, Nodes!Steps, Loaded
<1>3. (verdict = "pass" => pc \in {"write", "done"} /\ PassMeans)'
  BY <1>1, PassStays DEF PassInv
<1>4. \A i : (Has(i, "unchecked") <=> Has(i, "unchecked")') /\ (Has(i, "orphans") <=> Has(i, "orphans")')
           /\ (Has(i, "no_orphans") <=> Has(i, "no_orphans")') /\ (Has(i, "proved") <=> Has(i, "proved")')
  BY DEF Has
<1>5. \A i : (Reported(i) <=> Reported(i)') /\ (Checked(i) => Checked(i)')
  BY <1>1, <1>4 DEF Reported, Checked
<1>6. root = "none" => root' = "none"
  BY DEF Live, RootLive, ConnLive
<1>7. conn = "none" => conn' = "none"
  BY DEF Live, RootLive, ConnLive
<1>8. TwoNodeShape => TwoNodeShape'
  <2>1. Unlaunched => Unlaunched'
    BY <1>2 DEF Unlaunched
  <2>2. program = "control60" /\ Control60 => Control60'
    BY <1>2, <1>5, <1>6, <1>7 DEF Control60
  <2> QED BY <1>1, <1>2, <1>4, <1>5, <1>6, <1>7, <2>1, <2>2 DEF TwoNodeShape, Busy
<1>9. (program \in Poisoned!PoisonPrograms /\ Has(Sc[step].isl, "proved") => "proved" \in res)'
  BY <1>2, <1>4 DEF PassInv
<1> QED BY <1>2, <1>3, <1>8, <1>9 DEF PassInv

\* The processes of the islands.
LEMMA IslandsKeepPass ==
  ASSUME PassInv, Islands \/ Accidents
  PROVE  PassInv'
<1>1. UNCHANGED lpc
  BY DEF Islands, Accidents, loadVars
<1>2. CASE (RootSteps \/ ConnSteps \/ Crash) /\ UNCHANGED driver
  BY <1>1, <1>2, IslandSteps, DriverWaits DEF driver, PassInv
<1>3. CASE OldEnds
  <2>1. UNCHANGED <<program, step, pc, got, verdict, root, conn, res, files>> /\ old' \subseteq old
    BY <1>3 DEF OldEnds, island
  <2>2. ResultShape'
    BY <2>1 DEF PassInv, ResultShape
  <2> QED BY <1>1, <2>1, <2>2, DriverWaits
<1> QED BY <1>2, <1>3 DEF Islands, Accidents, Processes, Mishaps

-----------------------------------------------------------------------------
(* The scripts of the two-node programs.                                   *)

Launching == {"loop", "island"}

\* A script launches each island once, judges the last one, and ends there.
Scripted(sc) ==
    /\ 1 \in DOMAIN sc /\ DOMAIN sc \subseteq Nat
    /\ \A s \in DOMAIN sc : /\ sc[s].op \in {"gate", "loop", "island", "judge"} /\ sc[s].isl \in 1..2
                            /\ sc[s].op # "judge" => s + 1 \in DOMAIN sc
    /\ \A s, t \in DOMAIN sc : sc[s].op \in Launching /\ sc[t].op \in Launching /\ sc[s].isl = sc[t].isl => s = t
    /\ \A s \in DOMAIN sc : /\ sc[s].op = "loop" => sc[s + 1].op = "gate"
                            /\ sc[s].op = "island" =>
                                 \/ sc[s + 1].op = "island"
                                 \/ sc[s + 1].op = "judge" /\ sc[s + 1].isl = sc[s].isl

\* A judgement follows an island, except where only the platform is looked at.
GatesAhead(sc) == \A s \in DOMAIN sc : sc[s].op = "gate" => sc[s + 1].op # "judge"

LEMMA ScriptsOfNodes ==
  /\ Scripted(Nodes!main56) /\ GatesAhead(Nodes!main56)
  /\ Scripted(Nodes!settle_phase57) /\ GatesAhead(Nodes!settle_phase57)
  /\ Scripted(Nodes!run_phase57) /\ GatesAhead(Nodes!run_phase57)
  /\ Scripted(Nodes!diagnostics57)
  /\ Scripted(Nodes!phases58) /\ GatesAhead(Nodes!phases58)
  /\ Scripted(Nodes!phase_same_node_control) /\ GatesAhead(Nodes!phase_same_node_control)
<1>1. Scripted(Nodes!main56) /\ GatesAhead(Nodes!main56)
  BY DEF Scripted, GatesAhead, Launching, Nodes!main56, Nodes!I
<1>2. Scripted(Nodes!settle_phase57) /\ GatesAhead(Nodes!settle_phase57)
  BY DEF Scripted, GatesAhead, Launching, Nodes!settle_phase57, Nodes!I
<1>3. Scripted(Nodes!run_phase57) /\ GatesAhead(Nodes!run_phase57)
  BY DEF Scripted, GatesAhead, Launching, Nodes!run_phase57, Nodes!I
<1>4. Scripted(Nodes!diagnostics57)
  BY DEF Scripted, Launching, Nodes!diagnostics57, Nodes!I
<1>5. Scripted(Nodes!phases58) /\ GatesAhead(Nodes!phases58)
  BY DEF Scripted, GatesAhead, Launching, Nodes!phases58, Nodes!I
<1>6. Scripted(Nodes!phase_same_node_control) /\ GatesAhead(Nodes!phase_same_node_control)
  BY DEF Scripted, GatesAhead, Launching, Nodes!phase_same_node_control, Nodes!I
<1> QED BY <1>1, <1>2, <1>3, <1>4, <1>5, <1>6

LEMMA StShape ==
  ASSUME program \in Nodes!TwoNodePrograms
  PROVE  Scripted(St) /\ (program \notin Platform => GatesAhead(St))
  BY ScriptsOfNodes DEF Nodes!TwoNodePrograms, Platform, St, Nodes!Steps

\* The platform programs launch nothing; experiment 60 has four steps.
LEMMA StPlatform ==
  ASSUME program \in Platform
  PROVE  \A s \in DOMAIN St : St[s].op \in {"gate", "judge"}
  BY DEF Platform, St, Nodes!Steps, Nodes!diagnostics57, Nodes!I

LEMMA StControl ==
  ASSUME program = "control60"
  PROVE  /\ DOMAIN St = 1..4 /\ St[1].op = "gate"
         /\ St[2] = [op |-> "island", isl |-> 1] /\ St[3] = [op |-> "island", isl |-> 2]
         /\ St[4] = [op |-> "judge", isl |-> 2]
  BY DEF St, Nodes!Steps, Nodes!phase_same_node_control, Nodes!I

LEMMA StJudge ==
  ASSUME program \in Nodes!TwoNodePrograms, step \in DOMAIN St, St[step].op = "judge"
  PROVE  /\ program \in {"exp56", "rayfree58", "ray58", "control60"} => St[step].isl = 2
         /\ program = "a2b57" => St[step].isl = 1
         /\ program = "control60" => step = 4
  BY DEF St, Nodes!Steps, Nodes!main56, Nodes!run_phase57, Nodes!phases58, Nodes!phase_same_node_control, Nodes!I

LEMMA SameSteps ==
  ASSUME program' = program
  PROVE  St' = St
  BY DEF St, Nodes!Steps

\* What a check that fails leaves as the verdict is never a pass.
Refusal(g) == g.otherwise # "pass"
Refuses(gate) == \A n \in DOMAIN gate : Refusal(gate[n])

LEMMA RefusalLists ==
  ASSUME NEW a, NEW b, NEW c, NEW d, NEW e, NEW f, NEW g, NEW h,
         Refusal(a), Refusal(b), Refusal(c), Refusal(d), Refusal(e), Refusal(f), Refusal(g)
  PROVE  /\ Refuses(<<a>>) /\ Refuses(<<a, b>>) /\ Refuses(<<a, b, c>>) /\ Refuses(<<a, b, c, d>>)
         /\ Refuses(<<a, b, c, d, e>>) /\ Refuses(<<a, b, c, d, e, f>>)
         /\ Refuses(<<a>> \o <<b, c, d>>)
         /\ Refuses(<<a, b, c>> \o Tail(<<h, d, e, f>>) \o <<g>>)
<1>1. Tail(<<h, d, e, f>>) = <<d, e, f>>
  OBVIOUS
<1>2. Refuses(<<a, b, c>> \o <<d, e, f>> \o <<g>>)
  BY DEF Refuses
<1> QED BY <1>1, <1>2 DEF Refuses

LEMMA GatesRefuse ==
  /\ Refuses(Nodes!check_config56) /\ Refuses(Nodes!loopback_interface \o Nodes!select_and_reachability56)
  /\ Refuses(Nodes!check_config57) /\ Refuses(Nodes!select_and_reachability57)
  /\ Refuses(Nodes!check_config58) /\ Refuses(Nodes!rayfree_selection58) /\ Refuses(Nodes!ray_selection58)
  /\ Refuses(Nodes!check_config60) /\ Refuses(Nodes!run_slice_a_scaffold) /\ Refuses(Nodes!a2b_preflight)
  /\ Refuses(<<Nodes!G("nodes", "skip")>>)
<1>1. \A check, v : v # "pass" => Refusal(Nodes!G(check, v))
  BY DEF Nodes!G, Refusal
<1>2. \A check : /\ Refusal(Nodes!G(check, "skip")) /\ Refusal(Nodes!G(check, "fail"))
                 /\ Refusal(Nodes!G(check, "unknown")) /\ Refusal(Nodes!G(check, "refused"))
  BY <1>1
<1>3. Refuses(Nodes!check_config56) /\ Refuses(Nodes!check_config57) /\ Refuses(<<Nodes!G("nodes", "skip")>>)
  BY <1>2, RefusalLists, Zenon DEF Nodes!check_config56, Nodes!check_config57
<1>4. Refuses(Nodes!check_config58)
  BY <1>2, RefusalLists, Zenon DEF Nodes!check_config58
<1>5. Refuses(Nodes!loopback_interface \o Nodes!select_and_reachability56)
  BY <1>2, RefusalLists, Zenon DEF Nodes!loopback_interface, Nodes!select_and_reachability56
<1>6. Refuses(Nodes!select_and_reachability57) /\ Refuses(Nodes!rayfree_selection58)
  BY <1>2, RefusalLists, Zenon DEF Nodes!select_and_reachability57, Nodes!rayfree_selection58
<1>7. Refuses(Nodes!ray_selection58)
  BY <1>2, RefusalLists, Zenon DEF Nodes!ray_selection58
<1>8. Refuses(Nodes!check_config60)
  BY <1>2, RefusalLists, Zenon DEF Nodes!check_config60
<1>9. Refuses(Nodes!run_slice_a_scaffold)
  BY <1>2, RefusalLists, Zenon DEF Nodes!run_slice_a_scaffold
<1>10. Refuses(Nodes!a2b_preflight)
  BY <1>2, RefusalLists, Zenon DEF Nodes!a2b_preflight, Nodes!run_slice_a_scaffold
<1> QED BY <1>3, <1>4, <1>5, <1>6, <1>7, <1>8, <1>9, <1>10

LEMMA GatesNeverPass ==
  ASSUME program \in Nodes!TwoNodePrograms, step \in DOMAIN St, St[step].op = "gate"
  PROVE  Refuses(Nodes!Gates[St[step].isl])
<1> DEFINE lo == Nodes!loopback_interface \o Nodes!select_and_reachability56
<1>1. CASE program = "exp56"
  <2>1. Nodes!Gates = <<Nodes!check_config56, lo>> /\ Refuses(lo) /\ Refuses(Nodes!check_config56)
    BY <1>1, GatesRefuse DEF Nodes!Gates
  <2> HIDE DEF lo
  <2>2. St[step].isl \in {1, 2}
    BY <1>1 DEF St, Nodes!Steps, Nodes!main56, Nodes!I
  <2> QED BY <2>1, <2>2
<1> HIDE DEF lo
<1>2. CASE program = "settle57"
  BY <1>2, GatesRefuse DEF Nodes!Gates, St, Nodes!Steps, Nodes!settle_phase57, Nodes!I
<1>3. CASE program = "a2b57"
  BY <1>3, GatesRefuse DEF Nodes!Gates, St, Nodes!Steps, Nodes!run_phase57, Nodes!I
<1>4. CASE program = "rayfree58"
  BY <1>4, GatesRefuse DEF Nodes!Gates, St, Nodes!Steps, Nodes!phases58, Nodes!I
<1>5. CASE program = "ray58"
  BY <1>5, GatesRefuse DEF Nodes!Gates, St, Nodes!Steps, Nodes!phases58, Nodes!I
<1>6. CASE program = "control60"
  BY <1>6, GatesRefuse DEF Nodes!Gates, St, Nodes!Steps, Nodes!phase_same_node_control, Nodes!I
<1>7. CASE program \in Platform
  BY <1>7, GatesRefuse DEF Platform, Nodes!Gates, St, Nodes!Steps, Nodes!diagnostics57, Nodes!I
<1> QED BY <1>1, <1>2, <1>3, <1>4, <1>5, <1>6, <1>7 DEF Nodes!TwoNodePrograms, Platform

-----------------------------------------------------------------------------
(* The steps of a two-node program.                                        *)

Own == St[step].isl

\* What the driver does to the processes, and what it leaves of their result.
Handled == /\ root' = root \/ root' = Killed(root)
           /\ conn' = conn \/ conn' = Killed(conn)
           /\ files' = files /\ res' = res

LEMMA HandledKeeps ==
  ASSUME Handled
  PROVE  /\ ~Live(root) => root' = root
         /\ ~Live(conn) => conn' = conn
         /\ ResultShape => ResultShape'
         /\ old' = old => (Still => Still')
<1>1. (~Live(root) => root' = root) /\ (~Live(conn) => conn' = conn)
  BY NotLive DEF Handled
<1>2. root' = "two" => root = "two"
  BY KilledEnds DEF Handled
<1> QED BY <1>1, <1>2 DEF Handled, ResultShape, Still

\* The facts recorded of one island say nothing of the others.
LEMMA OtherIslands ==
  ASSUME NEW i, NEW fs, got' = got \cup Facts(i, fs), NEW j, j # i
  PROVE  /\ \A f : Has(j, f)' <=> Has(j, f)
         /\ Reported(j)' <=> Reported(j)
         /\ (\A g \in got : g[1] # j) => (\A g \in got' : g[1] # j)
<1>1. \A f : Has(j, f)' <=> Has(j, f)
  BY DEF Has, Facts
<1> QED BY <1>1 DEF Reported, Facts

LEMMA OwnFacts ==
  ASSUME NEW i, NEW fs, got' = got \cup Facts(i, fs)
  PROVE  \A f : Has(i, f)' <=> Has(i, f) \/ f \in fs
  BY DEF Has, Facts

\* A launch finds nothing recorded of its island.
NothingYet == St[step].op \in Launching /\ pc = "call" => \A f : ~Has(Own, f)

LEMMA UnlaunchedNow ==
  ASSUME TwoNodeShape
  PROVE  NothingYet
  BY DEF TwoNodeShape, Unlaunched, Launching, NothingYet, Own, Has

\* The driver is inside a launch, a wait, a kill or a reading.
LEMMA InStep ==
  ASSUME PassInv, program \in Nodes!TwoNodePrograms, program' = program, step' = step, verdict' = verdict,
         St[step].op \in Launching, pc = "call" \/ Busy, Busy',
         pc' \in {"sweep", "orphans"} => St[step].op = "island",
         NEW fs, got' = got \cup Facts(Own, fs), "no_orphans" \notin fs, "proved" \in fs => "proved" \in res',
         ResultShape', pc # "call" => res \subseteq res',
         old' = old \/ (pc = "call" /\ old' = old \cup Running(IF step = 1 THEN 0 ELSE St[step - 1].isl))
  PROVE  PassInv'
<1>1. St' = St /\ TwoNodeShape /\ Scripted(St) /\ NothingYet /\ verdict # "pass"
  BY SameSteps, StShape, UnlaunchedNow DEF PassInv, Busy
<1>2. program \notin Poisoned!PoisonPrograms /\ ~Loaded
  BY DEF Nodes!TwoNodePrograms, Poisoned!PoisonPrograms, Loaded
<1>3. program \notin Platform
  BY StPlatform, <1>1 DEF TwoNodeShape, Launching
<1>4. \A f : Has(Own, f)' <=> Has(Own, f) \/ f \in fs
  BY <1>1, OwnFacts DEF Own, Has
<1>5. Unlaunched'
  <2> SUFFICES ASSUME NEW s \in DOMAIN St, St[s].op \in Launching, step < s, NEW g \in got'
               PROVE  g[1] # St[s].isl
    BY <1>1 DEF Unlaunched, Launching, Busy
  <2>1. St[s].isl # Own
    BY <1>1 DEF Scripted, TwoNodeShape, Own
  <2>2. \A h \in got : h[1] # St[s].isl
    BY <1>1 DEF TwoNodeShape, Unlaunched, Launching
  <2> QED BY <2>1, <2>2 DEF Facts
<1>6. ~Has(Own, "no_orphans") \/ St[step].op # "island"
  BY <1>1 DEF TwoNodeShape, Own
<1>7. Has(Own, "proved") /\ program \in Islanders /\ St[step].op = "island" => "proved" \in res'
  BY <1>1 DEF TwoNodeShape, Own, NothingYet
<1>8. program = "control60" => Control60'
  <2> SUFFICES ASSUME program = "control60" PROVE Control60'
    OBVIOUS
  <2>1. /\ Control60 /\ ((step = 2 /\ Own = 1) \/ (step = 3 /\ Own = 2))
        /\ St[2].isl = 1 /\ step \in 1..4 /\ pc' # "call"
    <3>1. step \in 1..4 /\ Control60 /\ pc' # "call"
      BY StControl, <1>1 DEF TwoNodeShape, Busy
    <3>2. step \notin {1, 4}
      BY StControl DEF Launching
    <3>3. step \in {2, 3}
      BY <3>1, <3>2
    <3>4. St[2].isl = 1 /\ St[3].isl = 2
      BY StControl
    <3> QED BY <3>1, <3>3, <3>4 DEF Own
  <2>2. CASE step = 2
    <3>1. old = {} /\ (pc = "call" => root = "none" /\ conn = "none")
      BY <2>1, <2>2 DEF Control60
    <3>2. pc = "call" => Running(IF step = 1 THEN 0 ELSE St[step - 1].isl) = {}
      BY <3>1 DEF Running, If, Live, RootLive, ConnLive
    <3>3. old' = {}
      BY <3>1, <3>2
    <3> QED BY <2>1, <2>2, <3>3 DEF Control60
  <2>3. CASE step = 3
    <3>1. Reported(1)' <=> Reported(1)
      BY <2>1, <2>3, OtherIslands
    <3>2. (old = {} \/ Reported(1)) /\ (pc = "call" => Still \/ Reported(1))
      BY <2>1, <2>3 DEF Control60, Checked
    <3>3. Still => Running(IF step = 1 THEN 0 ELSE St[step - 1].isl) = {}
      BY DEF Still, Running, If
    <3>4. old' = {} \/ Reported(1)
      BY <3>2, <3>3 DEF Still
    <3> QED BY <2>1, <2>3, <3>1, <3>4 DEF Control60
  <2> QED BY <2>1, <2>2, <2>3
<1>9. St[step].op # "judge"
  BY DEF Launching
<1>10. TwoNodeShape'
  <2>1. step \in DOMAIN St /\ St[step]' = St[step] /\ Own' = Own
    BY <1>1 DEF TwoNodeShape, Own
  <2>2. (St[step].op = "island" => ~Has(St[step].isl, "no_orphans"))'
    BY <1>4, <1>6, <2>1 DEF Own
  <2>3. (program \in Islanders /\ St[step].op \in {"island", "judge"} /\ Has(St[step].isl, "proved") => "proved" \in res)'
    BY <1>4, <1>7, <1>9, <2>1 DEF Own
  <2> QED BY <1>1, <1>3, <1>5, <1>8, <1>9, <2>1, <2>2, <2>3 DEF TwoNodeShape, Launching
<1> QED BY <1>1, <1>2, <1>10 DEF PassInv, Loaded

\* The program stops, writes what it concluded, or ends.
LEMMA Stops ==
  ASSUME PassInv, program \in Nodes!TwoNodePrograms, program' = program, step' = step,
         pc' \in {"raised", "write", "done"}, Handled, old' = old,
         NEW fs, got' = got \cup Facts(0, fs),
         verdict' = "pass" => pc' \in {"write", "done"} /\ PassMeans'
  PROVE  PassInv'
<1>1. St' = St /\ TwoNodeShape /\ Scripted(St)
  BY SameSteps, StShape DEF PassInv
<1>2. program \notin Poisoned!PoisonPrograms /\ ~Loaded
  BY DEF Nodes!TwoNodePrograms, Poisoned!PoisonPrograms, Loaded
<1>3. ResultShape' /\ (Still => Still') /\ res' = res
      /\ (~Live(root) => root' = root) /\ (~Live(conn) => conn' = conn)
  BY HandledKeeps DEF PassInv, Handled
<1>4. step \in DOMAIN St /\ \A s \in DOMAIN St : St[s].isl \in 1..2 /\ St[s].isl # 0
  BY <1>1 DEF TwoNodeShape, Scripted
<1>5. \A j : j # 0 => /\ \A f : Has(j, f)' <=> Has(j, f)
                      /\ Reported(j)' <=> Reported(j)
                      /\ (\A g \in got : g[1] # j) => (\A g \in got' : g[1] # j)
  BY OtherIslands
<1>6. Unlaunched'
  BY <1>1, <1>4, <1>5 DEF TwoNodeShape, Unlaunched
<1>7. \A j : j # 0 => (Checked(j) => Checked(j)')
  BY <1>3, <1>5 DEF Checked
<1>8. program = "control60" => Control60'
  BY <1>1, <1>3, <1>5, <1>7 DEF TwoNodeShape, Control60
<1>9. program \in Platform => (Still /\ root = "none" /\ conn = "none")'
  BY <1>1, <1>3 DEF TwoNodeShape, Still
<1>10. TwoNodeShape'
  <2>1. St[step]' = St[step] /\ St[step].isl # 0
    BY <1>1, <1>4
  <2> DEFINE i == St[step].isl
  <2>2. (St[step].op = "island" => ~Has(St[step].isl, "no_orphans"))'
    BY <1>1, <1>5, <2>1 DEF TwoNodeShape
  <2>3. (program \in Islanders /\ St[step].op \in {"island", "judge"} /\ Has(St[step].isl, "proved") => "proved" \in res)'
    BY <1>1, <1>3, <1>5, <2>1 DEF TwoNodeShape
  <2>4. (program \in Islanders \ {"control60"} /\ St[step].op = "judge" => Checked(St[step].isl))'
    BY <1>1, <1>7, <2>1 DEF TwoNodeShape
  <2> QED BY <1>1, <1>4, <1>6, <1>8, <1>9, <2>1, <2>2, <2>3, <2>4 DEF TwoNodeShape, Busy
<1> QED BY <1>2, <1>3, <1>10 DEF PassInv, Loaded

\* The driver is done with a step and goes on to the next.
LEMMA NextStepTaken ==
  ASSUME PassInv, program \in Nodes!TwoNodePrograms, program' = program, Nodes!NextStep, verdict' = verdict,
         pc = "call" \/ Busy, UNCHANGED <<root, conn, files, res, old>>, St[step].op # "judge",
         NEW fs, got' = got \cup Facts(Own, fs), fs = {} \/ St[step].op \in Launching
  PROVE  /\ St' = St /\ step' = step + 1 /\ pc' = "call" /\ step \in DOMAIN St /\ step + 1 \in DOMAIN St /\ step \in Nat
         /\ (Still <=> Still')
         /\ (TwoNodeShape' => PassInv')
         /\ Unlaunched'
         /\ St[step + 1].op \in Launching => \A g \in got' : g[1] # St[step + 1].isl
<1>1. St' = St /\ TwoNodeShape /\ Scripted(St) /\ verdict # "pass" /\ step' = step + 1 /\ pc' = "call"
  BY SameSteps, StShape DEF PassInv, Busy, Nodes!NextStep
<1>2. program \notin Poisoned!PoisonPrograms /\ ~Loaded
  BY DEF Nodes!TwoNodePrograms, Poisoned!PoisonPrograms, Loaded
<1>3. step \in DOMAIN St /\ step + 1 \in DOMAIN St /\ step \in Nat
  BY <1>1 DEF TwoNodeShape, Scripted
<1>4. Still <=> Still'
  BY DEF Still
<1>5. TwoNodeShape' => PassInv'
  BY <1>1, <1>2 DEF PassInv, ResultShape, Loaded
<1>6. Unlaunched'
  <2> SUFFICES ASSUME NEW s \in DOMAIN St, St[s].op \in Launching, step < s, NEW g \in got'
               PROVE  g[1] # St[s].isl
    <3>1. DOMAIN St \subseteq Nat
      BY <1>1 DEF Scripted
    <3>2. \A s \in DOMAIN St : step + 1 < s \/ s = step + 1 => step < s
      BY <1>3, <3>1
    <3> QED BY <1>1, <3>2 DEF Unlaunched, Launching
  <2>1. \A h \in got : h[1] # St[s].isl
    BY <1>1 DEF TwoNodeShape, Unlaunched, Launching
  <2>2. CASE fs = {}
    BY <2>1, <2>2 DEF Facts
  <2>3. CASE St[step].op \in Launching
    <3>1. s # step
      BY <1>3
    <3>2. St[s].isl # Own
      BY <1>1, <1>3, <2>3, <3>1 DEF Scripted, Own
    <3> QED BY <2>1, <3>2 DEF Facts
  <2> QED BY <2>2, <2>3
<1>7. St[step + 1].op \in Launching => \A g \in got' : g[1] # St[step + 1].isl
  BY <1>1, <1>3, <1>6 DEF Unlaunched, Launching
<1> QED BY <1>1, <1>3, <1>4, <1>5, <1>6, <1>7

LEMMA NodeNames == Nodes!Op = St[step].op /\ Nodes!Isl = Own
  BY DEF Nodes!Op, Nodes!Isl, St, Own

\* Waits and kills record neither an answer nor that nothing is left.
LEMMA WaitsKeep ==
  ASSUME PassInv, program \in Nodes!TwoNodePrograms, program' = program, step' = step, verdict' = verdict,
         Busy, Busy', pc' \in {"sweep", "orphans"} => St[step].op = "island",
         NEW fs, got' = got \cup Facts(Own, fs), {"proved", "no_orphans"} \cap fs = {}, Handled, old' = old
  PROVE  PassInv'
<1>1. St[step].op \in Launching
  BY DEF PassInv, TwoNodeShape, Launching
<1>2. ResultShape' /\ res' = res
  BY HandledKeeps DEF PassInv, Handled
<1> QED BY <1>1, <1>2, InStep

\* A check before a launch lets the program go on, or ends it.
LEMMA GateKeeps ==
  ASSUME PassInv, program \in Nodes!TwoNodePrograms, Nodes!Gate
  PROVE  PassInv'
<1>1. /\ pc = "call" /\ St[step].op = "gate" /\ UNCHANGED <<program, root, conn, files, res, old, got>>
  BY NodeNames DEF Nodes!Gate, Nodes!At, Nodes!island, Nodes!SameRun
<1>2. TwoNodeShape /\ Scripted(St) /\ (program \notin Platform => GatesAhead(St)) /\ step \in DOMAIN St
  BY StShape DEF PassInv, TwoNodeShape
<1>3. CASE Nodes!NextStep /\ UNCHANGED verdict
  <2>1. got' = got \cup Facts(Own, {})
    BY <1>1 DEF Facts
  <2>2. /\ St' = St /\ step' = step + 1 /\ pc' = "call" /\ step + 1 \in DOMAIN St /\ step \in Nat
        /\ (Still <=> Still') /\ (TwoNodeShape' => PassInv') /\ Unlaunched'
        /\ St[step + 1].op \in Launching => \A g \in got' : g[1] # St[step + 1].isl
    BY <1>1, <1>3, <2>1, NextStepTaken
  <2>3. program \notin Platform => St[step + 1].op # "judge"
    BY <1>1, <1>2 DEF GatesAhead
  <2>4. program = "control60" => Control60'
    <3> SUFFICES ASSUME program = "control60" PROVE Control60'
      OBVIOUS
    <3>1. step \in 1..4 /\ step \notin {2, 3, 4}
      BY <1>1, <1>2, StControl
    <3>2. step = 1
      BY <3>1
    <3> QED BY <1>1, <1>2, <2>2, <3>2 DEF TwoNodeShape, Control60
  <2>5. (St[step].op = "island" => ~Has(St[step].isl, "no_orphans"))'
    BY <2>2 DEF Has, Launching
  <2>6. program \notin Islanders \/ program \notin Platform
    BY DEF Islanders, Platform
  <2>7. (program \in Islanders /\ St[step].op \in {"island", "judge"} /\ Has(St[step].isl, "proved") => "proved" \in res)'
    BY <1>1, <2>2, <2>3, <2>6 DEF Has, Launching
  <2>8. (program \in Islanders \ {"control60"} /\ St[step].op = "judge" => Checked(St[step].isl))'
    BY <1>1, <2>2, <2>3, <2>6
  <2>9. TwoNodeShape'
    BY <1>1, <1>2, <2>2, <2>4, <2>5, <2>7, <2>8 DEF TwoNodeShape, Busy
  <2> QED BY <2>2, <2>9
<1>4. CASE \E n \in DOMAIN Nodes!Gates[Own] : Nodes!Concludes(Nodes!Gates[Own][n].otherwise)
  <2>1. verdict' # "pass" /\ step' = step /\ pc' \in {"write", "done"}
    BY <1>1, <1>2, <1>4, GatesNeverPass DEF Nodes!Concludes, Own, Refuses, Refusal
  <2>2. got' = got \cup Facts(0, {}) /\ Handled
    BY <1>1 DEF Facts, Handled
  <2> QED BY <1>1, <2>1, <2>2, Stops
<1> QED BY <1>3, <1>4, NodeNames DEF Nodes!Gate

\* A launch, of either kind.
LEMMA LaunchesKeep ==
  ASSUME PassInv, program \in Nodes!TwoNodePrograms, Nodes!_launch_root \/ Nodes!run_island_ray
  PROVE  PassInv'
<1>1. pc = "call" /\ St[step].op \in Launching /\ UNCHANGED <<program, step, got, verdict>>
  BY NodeNames DEF Nodes!_launch_root, Nodes!run_island_ray, Nodes!At, Nodes!SameRun, Launching, Nodes!Raise
<1>2. Nodes!Previous = IF step = 1 THEN 0 ELSE St[step - 1].isl
  BY DEF Nodes!Previous, St
<1>3. \A i : got' = got \cup Facts(i, {})
  BY <1>1 DEF Facts
<1>4. ASSUME root' \in {"boot", "none"}, files' = {}, res' = {}, old' = old \cup Nodes!Running(Nodes!Previous),
             pc' \in {"ready", "get"}
      PROVE  PassInv'
  <2>1. ResultShape' /\ Busy'
    BY <1>4 DEF ResultShape, Busy
  <2>2. old' = old \cup Running(IF step = 1 THEN 0 ELSE St[step - 1].isl)
    BY <1>2, <1>4, PlainNodes
  <2> QED BY <1>1, <1>3, <1>4, <2>1, <2>2, InStep
<1>5. CASE pc' = "raised" /\ UNCHANGED <<root, conn, files, res, old>>
  <2>1. verdict' # "pass" /\ Handled
    BY <1>1, <1>5 DEF PassInv, Handled
  <2> QED BY <1>1, <1>3, <1>5, <2>1, Stops
<1>6. CASE Nodes!_launch_root
  BY <1>4, <1>5, <1>6 DEF Nodes!_launch_root, Nodes!Popen, Nodes!Raise, Nodes!island
<1>7. CASE Nodes!run_island_ray
  BY <1>4, <1>7 DEF Nodes!run_island_ray, Nodes!_SrunRunner
<1> QED BY <1>6, <1>7

LEMMA MoreWaitsKeep ==
  ASSUME PassInv, program \in Nodes!TwoNodePrograms,
         \/ Nodes!diag_loopback \/ Nodes!_root_exit \/ Nodes!_root_kill \/ Nodes!_root_wait
         \/ Nodes!_connector_exit \/ Nodes!_connector_kill \/ Nodes!_runner_kills \/ Nodes!_ray_get \/ Nodes!_early_read
         \/ Nodes!_cleanup_and_check
  PROVE  PassInv'
<1>1. UNCHANGED <<program, step, verdict, old, files, res>>
  BY DEF Nodes!diag_loopback, Nodes!_root_exit, Nodes!_root_kill, Nodes!_root_wait, Nodes!_connector_exit,
         Nodes!_connector_kill, Nodes!_runner_kills, Nodes!_ray_get, Nodes!_early_read,
         Nodes!_cleanup_and_check, Nodes!SameRun, Nodes!island
<1>2. /\ pc \in {"join", "exit", "kill", "rewait", "reap", "slay", "get", "read", "sweep"}
      /\ pc' \in {"exit", "kill", "read", "rewait", "reap", "slay", "get", "reread", "orphans"}
      /\ pc' = "orphans" => pc = "sweep"
  BY DEF Nodes!diag_loopback, Nodes!_root_exit, Nodes!_root_kill, Nodes!_root_wait, Nodes!_connector_exit,
         Nodes!_connector_kill, Nodes!_runner_kills, Nodes!_ray_get, Nodes!_early_read, Nodes!_cleanup_and_check
<1>3. Busy /\ Busy' /\ (pc' \in {"sweep", "orphans"} => St[step].op = "island")
  BY <1>2 DEF Busy, PassInv, TwoNodeShape
<1>4. root' = root \/ root' = Killed(root)
  BY PlainNodes DEF Nodes!diag_loopback, Nodes!_root_exit, Nodes!_root_kill, Nodes!_root_wait, Nodes!_connector_exit, Nodes!KillBoth,
         Nodes!_connector_kill, Nodes!_runner_kills, Nodes!_ray_get, Nodes!_early_read, Nodes!_cleanup_and_check,
         Nodes!_cleanup_node, Nodes!island, Killed
<1>5. conn' = conn \/ conn' = Killed(conn)
  BY PlainNodes DEF Nodes!diag_loopback, Nodes!_root_exit, Nodes!_root_kill, Nodes!_root_wait, Nodes!_connector_exit, Nodes!KillBoth,
         Nodes!_connector_kill, Nodes!_runner_kills, Nodes!_ray_get, Nodes!_early_read, Nodes!_cleanup_and_check,
         Nodes!_cleanup_node, Nodes!island, Killed
<1>6. Handled
  BY <1>1, <1>4, <1>5 DEF Handled
<1>7. \E fs : got' = got \cup Facts(Own, fs) /\ {"proved", "no_orphans"} \cap fs = {}
  <2>1. ASSUME NEW fs, Nodes!Record(fs), {"proved", "no_orphans"} \cap fs = {}
        PROVE  \E f : got' = got \cup Facts(Own, f) /\ {"proved", "no_orphans"} \cap f = {}
    BY <2>1, NodeNames, PlainNodes DEF Nodes!Record
  <2>2. got' = got => got' = got \cup Facts(Own, {})
    BY DEF Facts
  <2>3. CASE Nodes!_root_exit
    <3>1. Nodes!Record(Nodes!If(root = "exit0", "root_exit0"))
      BY <2>3 DEF Nodes!_root_exit
    <3>2. {"proved", "no_orphans"} \cap Nodes!If(root = "exit0", "root_exit0") = {}
      BY DEF Nodes!If
    <3> QED BY <2>1, <3>1, <3>2
  <2>4. CASE Nodes!_ray_get
    <3>1. got' = got \/ Nodes!Record({"returned"} \cup Nodes!If(root = "exit0", "root_exit0"))
      BY <2>4 DEF Nodes!_ray_get
    <3>2. {"proved", "no_orphans"} \cap ({"returned"} \cup Nodes!If(root = "exit0", "root_exit0")) = {}
      BY DEF Nodes!If
    <3> QED BY <2>1, <2>2, <3>1, <3>2
  <2>5. CASE Nodes!_early_read
    <3>1. PICK b \in BOOLEAN : Nodes!Record(Nodes!If(~b /\ {"result", "joined1"} \subseteq files, "early_complete"))
      BY <2>5 DEF Nodes!_early_read
    <3>2. {"proved", "no_orphans"} \cap Nodes!If(~b /\ {"result", "joined1"} \subseteq files, "early_complete") = {}
      BY DEF Nodes!If
    <3> QED BY <2>1, <3>1, <3>2
  <2>6. CASE ~Nodes!_root_exit /\ ~Nodes!_ray_get /\ ~Nodes!_early_read
    <3>1. got' = got
      BY <2>6 DEF Nodes!diag_loopback, Nodes!_root_kill, Nodes!_root_wait, Nodes!_connector_exit,
                  Nodes!_connector_kill, Nodes!_runner_kills, Nodes!_cleanup_and_check
    <3> QED BY <2>2, <3>1
  <2> QED BY <2>3, <2>4, <2>5, <2>6
<1> QED BY <1>1, <1>3, <1>6, <1>7, WaitsKeep

LEMMA ConnectorKeeps ==
  ASSUME PassInv, program \in Nodes!TwoNodePrograms, Nodes!_launch_connector
  PROVE  PassInv'
<1>1. /\ UNCHANGED <<program, step, verdict, old, files, res, root>> /\ pc = "ready" /\ pc' \in {"join", "exit"}
  BY DEF Nodes!_launch_connector, Nodes!SameRun
<1>2. PICK ready \in BOOLEAN : Nodes!Record(Nodes!If(ready, "ready"))
  BY DEF Nodes!_launch_connector
<1>3. {"proved", "no_orphans"} \cap Nodes!If(ready, "ready") = {}
  BY DEF Nodes!If
<1> DEFINE fs == Nodes!If(ready, "ready")
<1>4. got' = got \cup Facts(Own, fs)
  BY <1>2, NodeNames, PlainNodes DEF Nodes!Record
<1>5. Busy /\ Busy' /\ ResultShape' /\ St[step].op \in Launching
  BY <1>1 DEF Busy, PassInv, ResultShape, TwoNodeShape, Launching
<1> HIDE DEF fs
<1>6. "proved" \notin fs /\ "no_orphans" \notin fs
  BY <1>3 DEF fs
<1> QED BY <1>1, <1>4, <1>5, <1>6, InStep

LEMMA EndsKeep ==
  ASSUME PassInv, program \in Nodes!TwoNodePrograms, Nodes!_launch_fails \/ Nodes!_raised \/ Nodes!Write
  PROVE  PassInv'
<1>1. UNCHANGED <<program, step, old, files, res>>
  BY DEF Nodes!_launch_fails, Nodes!_raised, Nodes!Write, Nodes!SameRun, Nodes!island, Nodes!Raise
<1>2. CASE Nodes!_launch_fails
  <2>1. got' = got \cup Facts(0, {}) /\ Handled /\ pc' = "raised" /\ verdict' # "pass"
    BY <1>2 DEF Nodes!_launch_fails, Facts, Handled, Nodes!island, Nodes!Raise, PassInv
  <2> QED BY <1>1, <2>1, Stops
<1>3. CASE Nodes!_raised
  <2>1. got' = got \cup Facts(0, {}) /\ pc' = "done" /\ verdict' # "pass"
    BY <1>3 DEF Nodes!_raised, Facts
  <2>2. Handled
    BY <1>1, <1>3, PlainNodes DEF Nodes!_raised, Nodes!_cleanup_node, Handled
  <2> QED BY <1>1, <2>1, <2>2, Stops
<1>4. CASE Nodes!Write
  <2>1. /\ pc = "write" /\ pc' = "done" /\ UNCHANGED <<root, conn, verdict>>
        /\ \E fs : got' = got \cup Nodes!Facts(0, fs)
    BY <1>4 DEF Nodes!Write, Nodes!island
  <2>2. PICK fs : got' = got \cup Facts(0, fs)
    BY <2>1, PlainNodes
  <2>3. Handled /\ (Still => Still')
    BY <1>1, <2>1 DEF Handled, Still
  <2>4. verdict' = "pass" => PassMeans'
    BY <1>1, <2>1, <2>2, <2>3, PassStays DEF PassInv
  <2> QED BY <1>1, <2>1, <2>2, <2>3, <2>4, Stops
<1> QED BY <1>2, <1>3, <1>4

\* Only the root's result says that the action was answered.
LEMMA ReadKeeps ==
  ASSUME PassInv, program \in Nodes!TwoNodePrograms, Nodes!Read
  PROVE  PassInv'
<1>1. /\ UNCHANGED <<program, verdict, old, files, res, root, conn>> /\ pc \in {"read", "reread"} /\ Busy
      /\ TwoNodeShape /\ Scripted(St) /\ step \in DOMAIN St /\ St[step].op \in Launching /\ verdict # "pass"
  BY StShape DEF Nodes!Read, Nodes!island, Nodes!SameRun, Busy, PassInv, TwoNodeShape, Launching
<1>2. PICK shown : shown \subseteq files /\ Nodes!Record(Nodes!Seen(shown))
  BY DEF Nodes!Read, Nodes!_read_json56, Nodes!read_json_eventually
<1> DEFINE fs == Nodes!Seen(shown)
<1>3. "no_orphans" \notin fs /\ ("proved" \in fs => "proved" \in res)
  BY <1>2 DEF Nodes!Seen, PassInv, ResultShape
<1>4. got' = got \cup Facts(Own, fs)
  BY <1>2, NodeNames, PlainNodes DEF Nodes!Record
<1> HIDE DEF fs
<1>5. CASE St[step].op = "loop" /\ Nodes!NextStep
  <2>1. St[step].op # "judge" /\ St[step + 1].op = "gate"
    BY <1>1, <1>5 DEF Scripted
  <2>2. /\ St' = St /\ step' = step + 1 /\ pc' = "call" /\ step + 1 \in DOMAIN St
        /\ (Still <=> Still') /\ (TwoNodeShape' => PassInv') /\ Unlaunched'
    BY <1>1, <1>4, <1>5, <2>1, NextStepTaken
  <2>3. program # "control60"
    <3>1. program = "control60" => step \in 1..4
      BY <1>1, StControl
    <3>2. program = "control60" => step \notin {1, 2, 3, 4}
      BY <1>5, StControl
    <3> QED BY <3>1, <3>2
  <2>4. program \notin Platform
    BY <1>1, <1>5, StPlatform
  <2>5. TwoNodeShape'
    BY <1>1, <2>1, <2>2, <2>3, <2>4 DEF TwoNodeShape, Busy
  <2> QED BY <2>2, <2>5
<1>6. CASE St[step].op # "loop" /\ UNCHANGED step /\ pc' \in {"sweep", "orphans"}
  <2>1. St[step].op = "island" /\ Busy' /\ ResultShape'
    BY <1>1, <1>6 DEF Launching, Busy, PassInv, ResultShape
  <2> QED BY <1>1, <1>3, <1>4, <1>6, <2>1, InStep
<1> QED BY <1>5, <1>6, NodeNames DEF Nodes!Read

\* What a look at the nodes leaves on record of an island.
LEMMA Looked ==
  ASSUME NEW i, NEW mine, NEW fact,
         fact = (IF mine = {} THEN "no_orphans" ELSE "orphans") \/ fact = "unchecked",
         got' = got \cup Facts(i, {fact}), <<i, "no_orphans">> \notin got,
         mine = {} => Still'
  PROVE  Checked(i)'
<1>1. CASE fact = "unchecked"
  BY <1>1 DEF Checked, Reported, Has, Facts
<1>2. CASE fact = "no_orphans" /\ mine = {}
  BY <1>2 DEF Checked
<1>3. CASE fact = "orphans"
  BY <1>3 DEF Checked, Reported, Has, Facts
<1> QED BY <1>1, <1>2, <1>3

LEMMA OrphansKeep ==
  ASSUME PassInv, program \in Nodes!TwoNodePrograms, Nodes!_orphan_check_node
  PROVE  PassInv'
<1>1. /\ UNCHANGED <<program, verdict, old, files, res, root, conn>> /\ pc = "orphans" /\ Nodes!NextStep
      /\ TwoNodeShape /\ Scripted(St) /\ step \in DOMAIN St /\ St[step].op = "island" /\ Busy
  BY StShape DEF Nodes!_orphan_check_node, Nodes!island, Nodes!SameRun, Busy, PassInv, TwoNodeShape
<1> DEFINE mine == Running(Own) \cup IF program = "control60" THEN {} ELSE old
<1>2. PICK fact : /\ fact = (IF mine = {} THEN "no_orphans" ELSE "orphans") \/ fact = "unchecked"
                  /\ got' = got \cup Facts(Own, {fact})
  BY NodeNames, PlainNodes DEF Nodes!_orphan_check_node, Nodes!Orphans, Nodes!Record
<1>3. /\ St' = St /\ step' = step + 1 /\ pc' = "call" /\ step + 1 \in DOMAIN St /\ step \in Nat
      /\ (Still <=> Still') /\ (TwoNodeShape' => PassInv') /\ Unlaunched'
      /\ St[step + 1].op \in Launching => \A g \in got' : g[1] # St[step + 1].isl
  BY <1>1, <1>2, NextStepTaken DEF Launching
<1>4. St[step + 1].op = "island" \/ (St[step + 1].op = "judge" /\ St[step + 1].isl = Own)
  BY <1>1 DEF Scripted, Own
<1>5. mine = {} /\ (program = "control60" => old = {}) => Still'
  BY <1>1 DEF Still, Running, If, Live, RootLive, ConnLive
<1>6. <<Own, "no_orphans">> \notin got
  BY <1>1 DEF TwoNodeShape, Has, Own
<1> HIDE DEF mine
<1>7. \A i : i = Own /\ (program = "control60" => old = {}) => Checked(i)'
  BY <1>2, <1>5, <1>6, Looked
<1>8. program \notin Platform
  BY <1>1, StPlatform
<1>9. program = "control60" => Control60'
  <2> SUFFICES ASSUME program = "control60" PROVE Control60'
    OBVIOUS
  <2>1. Control60 /\ step \in 1..4 /\ step \notin {1, 4}
    BY <1>1, StControl DEF TwoNodeShape
  <2>2. step \in {2, 3}
    BY <2>1
  <2>3. CASE step = 2
    <3>1. Own = 1 /\ old = {} /\ old' = {} /\ step' = 3
      BY <1>1, <1>3, <2>1, <2>3, StControl DEF Own, Control60
    <3>2. Checked(1)'
      BY <1>7, <3>1
    <3> QED BY <3>1, <3>2 DEF Control60
  <2>4. CASE step = 3
    <3>1. Own = 2 /\ (old = {} \/ Reported(1)) /\ step' = 4
      BY <1>1, <1>3, <2>1, <2>4, StControl DEF Own, Control60
    <3>2. Reported(1)' <=> Reported(1)
      BY <1>2, <3>1, OtherIslands
    <3>3. old = {} => Checked(2)'
      BY <1>7, <3>1
    <3> QED BY <3>1, <3>2, <3>3 DEF Control60
  <2> QED BY <2>2, <2>3, <2>4
<1>10. (St[step].op = "island" => ~Has(St[step].isl, "no_orphans"))'
  BY <1>3 DEF Has, Launching
<1>11. (program \in Islanders /\ St[step].op \in {"island", "judge"} /\ Has(St[step].isl, "proved") => "proved" \in res)'
  <2> SUFFICES ASSUME program \in Islanders, <<St[step + 1].isl, "proved">> \in got'
               PROVE  "proved" \in res
    BY <1>1, <1>3 DEF Has
  <2>1. St[step + 1].op = "judge" /\ St[step + 1].isl = Own
    BY <1>3, <1>4 DEF Launching
  <2>2. <<Own, "proved">> \in got
    BY <1>2, <2>1 DEF Facts
  <2> QED BY <1>1, <2>2 DEF TwoNodeShape, Has, Own
<1>12. (program \in Islanders \ {"control60"} /\ St[step].op = "judge" => Checked(St[step].isl))'
  <2> SUFFICES ASSUME program # "control60", St[step + 1].op = "judge"
               PROVE  Checked(St[step].isl)'
    BY <1>1, <1>3
  <2>1. PICK i : i = Own
    OBVIOUS
  <2>2. Checked(i)'
    BY <1>7, <2>1
  <2>3. St'[step'].isl = i
    BY <1>3, <1>4, <2>1
  <2> QED BY <2>2, <2>3 DEF Checked, Reported, Still, Has
<1>13. TwoNodeShape'
  BY <1>1, <1>3, <1>4, <1>8, <1>9, <1>10, <1>11, <1>12 DEF TwoNodeShape, Busy
<1> QED BY <1>3, <1>13

-----------------------------------------------------------------------------
(* The verdicts of the two-node programs.                                  *)

\* The diagnostics never pass: they attribute a delay, or do not.
LEMMA DiagnosticsNeverPass ==
  /\ "pass" \notin Nodes!settle_diag /\ "pass" \notin Nodes!slurm_localize
  /\ "pass" \notin Nodes!slurm_localize_deep /\ "pass" \notin Nodes!nfs_negative_poll
<1>1. "pass" \notin Nodes!settle_diag
  BY DEF Nodes!settle_diag
<1>2. \A cause : Nodes!Localized(cause) # "pass"
  BY DEF Nodes!Localized
<1>3. "pass" \notin Nodes!slurm_localize
  BY <1>2 DEF Nodes!slurm_localize
<1>4. "pass" \notin Nodes!slurm_localize_deep
  BY <1>2 DEF Nodes!slurm_localize_deep
<1>5. "pass" \notin Nodes!nfs_negative_poll
  BY <1>2 DEF Nodes!nfs_negative_poll
<1> QED BY <1>1, <1>3, <1>4, <1>5

\* An island that counts as answered was answered by a second locality.
LEMMA AnsweredIsland ==
  ASSUME PassInv, NEW i, Nodes!Proved(i) \/ Nodes!run_phase_a2b(i)
  PROVE  Has(i, "proved")
  BY PlainNodes DEF Nodes!Proved, Nodes!run_phase_a2b, Nodes!HasAll

LEMMA JudgedTrue ==
  ASSUME PassInv, program \in Nodes!TwoNodePrograms, St[step].op = "judge", "pass" \in Nodes!Verdicts
  PROVE  /\ Still \/ \E i \in 1..2 : Has(i, "unchecked")
         /\ program # "scaffold57" => {"two", "proved"} \subseteq res
<1>1. TwoNodeShape /\ step \in DOMAIN St /\ ResultShape
  BY DEF PassInv, TwoNodeShape
<1>2. "proved" \in res => {"two", "proved"} \subseteq res
  BY <1>1 DEF ResultShape
<1>3. \A ok : "pass" \in {Nodes!PassOrFail(ok)} => ok
  BY DEF Nodes!PassOrFail
<1>4. program \in Islanders /\ Has(Own, "proved") => "proved" \in res
  BY <1>1 DEF TwoNodeShape, Own
<1>5. program \in Islanders \ {"control60"} => Checked(Own)
  BY <1>1 DEF TwoNodeShape, Own
<1>6. CASE program = "exp56"
  <2>1. Own = 2 /\ Nodes!_launch_two_node56(2)
    BY <1>1, <1>3, <1>6, StJudge DEF Nodes!Verdicts, Own
  <2>2. Has(2, "proved") /\ ~Has(2, "orphans")
    BY <2>1, AnsweredIsland, PlainNodes DEF Nodes!_launch_two_node56
  <2> QED BY <1>2, <1>4, <1>5, <1>6, <2>1, <2>2 DEF Islanders, Checked, Reported
<1>7. CASE program = "a2b57"
  <2>1. Own = 1 /\ Nodes!run_phase_a2b(1)
    BY <1>1, <1>3, <1>7, StJudge DEF Nodes!Verdicts, Own
  <2>2. Has(1, "proved") /\ Has(1, "no_orphans")
    BY <2>1, AnsweredIsland, PlainNodes DEF Nodes!run_phase_a2b, Nodes!HasAll
  <2> QED BY <1>2, <1>4, <1>5, <1>7, <2>1, <2>2 DEF Islanders, Checked, Reported
<1>8. CASE program \in {"rayfree58", "ray58"}
  <2>1. \A i \in 1..2 : Nodes!_collect_island58(i)
    BY <1>8 DEF Nodes!Verdicts, Nodes!_build_aggregate58, Nodes!PassOrFail
  <2>2. Own = 2 /\ Nodes!_collect_island58(2)
    BY <1>1, <1>8, <2>1, StJudge DEF Own
  <2>3. Has(2, "proved") /\ Has(2, "no_orphans")
    BY <2>2, AnsweredIsland, PlainNodes DEF Nodes!_collect_island58, Nodes!HasAll
  <2> QED BY <1>2, <1>4, <1>5, <1>8, <2>2, <2>3 DEF Islanders, Checked, Reported
<1>9. CASE program = "control60"
  <2>0. \A i \in 1..2 : Nodes!run_same_node_island(i)
    BY <1>9 DEF Nodes!Verdicts, Nodes!PassOrFail
  <2>1. Own = 2 /\ step = 4 /\ Nodes!run_same_node_island(1) /\ Nodes!run_same_node_island(2)
    BY <1>1, <1>9, <2>0, StJudge DEF Own
  <2>2. Has(2, "proved") /\ ~Has(1, "orphans") /\ ~Has(2, "orphans")
    BY <2>1, AnsweredIsland, PlainNodes DEF Nodes!run_same_node_island
  <2>3. Checked(2) \/ Reported(1)
    BY <1>1, <1>9, <2>1 DEF TwoNodeShape, Control60
  <2> QED BY <1>2, <1>4, <1>9, <2>1, <2>2, <2>3 DEF Islanders, Checked, Reported
<1>10. CASE program = "settle57"
  BY <1>10, DiagnosticsNeverPass DEF Nodes!Verdicts
<1>11. CASE program \in {"localize57", "deep57", "nfs57"}
  BY <1>11, DiagnosticsNeverPass DEF Nodes!Verdicts
<1>12. CASE program = "scaffold57"
  BY <1>1, <1>12 DEF TwoNodeShape, Platform
<1> QED BY <1>6, <1>7, <1>8, <1>9, <1>10, <1>11, <1>12 DEF Nodes!TwoNodePrograms

LEMMA JudgementKeeps ==
  ASSUME PassInv, program \in Nodes!TwoNodePrograms, Nodes!Judge
  PROVE  PassInv'
<1>1. /\ St[step].op = "judge" /\ UNCHANGED <<program, step, old, got, files, res, root, conn>>
      /\ pc' \in {"write", "done"} /\ verdict' \in Nodes!Verdicts
  BY NodeNames DEF Nodes!Judge, Nodes!At, Nodes!Concludes, Nodes!island, Nodes!SameRun
<1>2. got' = got \cup Facts(0, {}) /\ Handled
  BY <1>1 DEF Facts, Handled
<1>3. ASSUME verdict' = "pass" PROVE PassMeans'
  <2>1. /\ Still \/ \E i \in 1..2 : Has(i, "unchecked")
        /\ program # "scaffold57" => {"two", "proved"} \subseteq res
    BY <1>1, <1>3, JudgedTrue
  <2>2. Still <=> Still'
    BY <1>1 DEF Still
  <2>3. \A i : Has(i, "unchecked") => Has(i, "unchecked")'
    BY <1>1 DEF Has
  <2> QED BY <1>1, <2>1, <2>2, <2>3 DEF PassMeans, Still
<1>4. program' = program /\ step' = step /\ old' = old /\ pc' \in {"raised", "write", "done"}
  BY <1>1
<1>5. verdict' = "pass" => pc' \in {"write", "done"} /\ PassMeans'
  BY <1>1, <1>3
<1> QED BY <1>2, <1>4, <1>5, Stops

LEMMA NodesKeepPass ==
  ASSUME PassInv, Nodes!TwoNodeDriver
  PROVE  PassInv'
<1>1. program \in Nodes!TwoNodePrograms
  BY DEF Nodes!TwoNodeDriver
<1>2. CASE Nodes!Gate \/ Nodes!_launch_root \/ Nodes!run_island_ray
  BY <1>1, <1>2, GateKeeps, LaunchesKeep
<1>3. CASE \/ Nodes!diag_loopback \/ Nodes!_root_exit \/ Nodes!_root_kill \/ Nodes!_root_wait
           \/ Nodes!_connector_exit \/ Nodes!_connector_kill \/ Nodes!_runner_kills \/ Nodes!_ray_get \/ Nodes!_early_read
           \/ Nodes!_cleanup_and_check
  BY <1>1, <1>3, MoreWaitsKeep
<1>4. CASE Nodes!_launch_connector \/ Nodes!_launch_fails \/ Nodes!_raised \/ Nodes!Write
  BY <1>1, <1>4, ConnectorKeeps, EndsKeep
<1>5. CASE Nodes!Read \/ Nodes!_orphan_check_node \/ Nodes!Judge
  BY <1>1, <1>5, ReadKeeps, OrphansKeep, JudgementKeeps
<1> QED BY <1>2, <1>3, <1>4, <1>5 DEF Nodes!TwoNodeDriver

-----------------------------------------------------------------------------
(* The steps of the programs of 53 to 55.                                  *)

LEMMA PlainPoison ==
  /\ \A p : (Poisoned!Live(p) <=> Live(p)) /\ Poisoned!Killed(p) = Killed(p)
  /\ \A i, f : Poisoned!Has(i, f) <=> Has(i, f)
  /\ \A i, fs : Poisoned!Facts(i, fs) = Facts(i, fs)
  /\ \A i : Poisoned!Running(i) = Running(i)
<1>1. \A p : Poisoned!Live(p) <=> Live(p)
  BY DEF Poisoned!Live, Poisoned!RootLive, Poisoned!ConnLive, Live, RootLive, ConnLive
<1> QED BY <1>1 DEF Poisoned!Killed, Killed, Poisoned!Has, Has, Poisoned!Facts, Facts, Poisoned!Running, Running,
                    Poisoned!If, If

\* The answer recorded of the island at hand is in its root's result.
AnswerKept == Has(Sc[step].isl, "proved") => "proved" \in res

LEMMA PoisonKeepsPass ==
  ASSUME program \in Poisoned!PoisonPrograms, program' = program, ResultShape', AnswerKept',
         verdict' = "pass" => pc' = "done" /\ PassMeans'
  PROVE  PassInv'
<1>1. program \notin Nodes!TwoNodePrograms /\ ~Loaded'
  BY DEF Nodes!TwoNodePrograms, Poisoned!PoisonPrograms, Loaded
<1> QED BY <1>1 DEF PassInv, AnswerKept

\* The program waits or stops, or goes on to its next call.
LEMMA AnswerStays ==
  ASSUME PassInv, program \in Poisoned!PoisonPrograms, program' = program, step' = step, got' = got, res' = res
  PROVE  AnswerKept'
<1>1. Sc' = Sc
  BY SameScript
<1> QED BY <1>1 DEF PassInv, AnswerKept, Has

LEMMA AnswerGoesOn ==
  ASSUME PassInv, PoisonInv, program \in Poisoned!PoisonPrograms, program' = program, Poisoned!NextStep,
         Sc[step].op \notin Terminal, res' = res,
         NEW fs, \A g \in got' : g \in got \/ \E f \in fs : g = <<Sc[step].isl, f>>, "proved" \in fs => "proved" \in res
  PROVE  AnswerKept'
<1> DEFINE i == Sc[step].isl
           j == Sc[step + 1].isl
<1>1. Sc' = Sc /\ step' = step + 1 /\ FactsKnown /\ Ascending(Sc)
  BY SameScript, ScriptAscends DEF PoisonInv, Poisoned!NextStep
<1>2. step \in DOMAIN Sc /\ step + 1 \in DOMAIN Sc /\ i \in Nat /\ j \in Nat /\ i <= j
  BY <1>1 DEF FactsKnown, Ascending
<1>3. <<i, "proved">> \in got => "proved" \in res
  BY DEF PassInv, Has
<1>4. \A g \in got : g[1] <= i
  BY <1>1 DEF FactsKnown
<1> HIDE DEF i, j
<1>5. ASSUME <<j, "proved">> \in got' PROVE "proved" \in res
  <2>1. CASE <<j, "proved">> \in got
    <3>1. j <= i
      BY <1>4, <2>1
    <3>2. j = i
      BY <1>2, <3>1
    <3> QED BY <1>3, <2>1, <3>2
  <2>2. CASE \E f \in fs : <<j, "proved">> = <<Sc[step].isl, f>>
    BY <2>2
  <2> QED BY <1>5, <2>1, <2>2
<1> QED BY <1>1, <1>5 DEF AnswerKept, Has, j

\* A call that leaves the root's result alone.
LEMMA CallKeepsPass ==
  ASSUME PassInv, PoisonInv, program \in Poisoned!PoisonPrograms, program' = program, Poisoned!NextStep,
         Sc[step].op \notin Terminal, verdict' = verdict, pc \notin {"write", "done"},
         root' = root \/ root' = Poisoned!Killed(root), files' = files, res' = res,
         NEW fs, \A g \in got' : g \in got \/ \E f \in fs : g = <<Sc[step].isl, f>>, "proved" \in fs => "proved" \in res
  PROVE  PassInv'
<1>1. AnswerKept'
  BY AnswerGoesOn
<1>2. verdict' # "pass"
  BY DEF PassInv
<1>3. root' = "two" => root = "two"
  BY PlainPoison, KilledEnds
<1>4. ResultShape'
  BY <1>3 DEF PassInv, ResultShape
<1> QED BY <1>1, <1>2, <1>4, PoisonKeepsPass

\* A program that waits inside a call, or stops without a pass.
LEMMA StopKeepsPass ==
  ASSUME PassInv, program \in Poisoned!PoisonPrograms, program' = program, step' = step, got' = got,
         verdict' # "pass", root' = root \/ root' = Poisoned!Killed(root), files' = files, res' = res
  PROVE  PassInv'
<1>1. AnswerKept'
  BY AnswerStays
<1>2. root' = "two" => root = "two"
  BY PlainPoison, KilledEnds
<1>3. ResultShape'
  BY <1>2 DEF PassInv, ResultShape
<1> QED BY <1>1, <1>3, PoisonKeepsPass

LEMMA KillBothHandles ==
  ASSUME Poisoned!KillBoth \/ Poisoned!Sweep
  PROVE  root' = root \/ root' = Poisoned!Killed(root)
  BY DEF Poisoned!KillBoth, Poisoned!Sweep

LEMMA PoisonLaunchesKeep ==
  ASSUME PassInv, PoisonInv, program \in Poisoned!PoisonPrograms, Poisoned!launch_island
  PROVE  PassInv'
<1>1. /\ FactsKnown /\ Sc[step].isl = Poisoned!Isl /\ Sc[step].op = Poisoned!Op
      /\ program' = program /\ verdict' = verdict /\ pc \in {"call", "ready", "join"} /\ verdict # "pass"
  BY DEF PoisonInv, PassInv, Sc, Poisoned!Isl, Poisoned!Op, Poisoned!launch_island, Poisoned!PopenRoot,
         Poisoned!AwaitReady, Poisoned!PopenConnFails, Poisoned!AwaitJoined, Poisoned!SameRun
<1>2. CASE Poisoned!PopenRoot
  <2>1. pc = "call" /\ Sc[step].op \in Poisoned!Launches /\ got' = got /\ step' = step
    BY <1>1, <1>2 DEF Poisoned!PopenRoot, Poisoned!Raise
  <2>2. CASE root' = "boot" /\ files' = {} /\ res' = {}
    <3>1. \A g \in got : g[1] # Sc[step].isl
      BY <1>1, <2>1 DEF FactsKnown
    <3>2. Sc' = Sc
      BY <1>1, SameScript
    <3>3. AnswerKept'
      BY <2>1, <3>1, <3>2 DEF AnswerKept, Has
    <3>4. ResultShape'
      BY <2>2 DEF ResultShape
    <3> QED BY <1>1, <3>3, <3>4, PoisonKeepsPass
  <2>3. CASE UNCHANGED <<root, files, res>>
    BY <1>1, <2>1, <2>3, StopKeepsPass
  <2> QED BY <1>2, <2>2, <2>3 DEF Poisoned!PopenRoot, Poisoned!Popen, Poisoned!island
<1>3. ASSUME pc \in {"ready", "join"}, NEW ready, NEW joined, Poisoned!Launched(ready, joined),
             UNCHANGED <<root, files, res>>
      PROVE  PassInv'
  <2> DEFINE fs == {"root_started"} \cup Poisoned!If(ready, "ready") \cup Poisoned!If(joined, "joined")
  <2>1. /\ Poisoned!NextStep /\ got' = got \cup Poisoned!Facts(Sc[step].isl, fs)
        /\ Sc[step].op \in Poisoned!Launches
    BY <1>1, <1>3 DEF Poisoned!Launched, Poisoned!Record, FactsKnown
  <2>2. "proved" \notin fs
    BY DEF Poisoned!If
  <2> HIDE DEF fs
  <2>3. \A g \in got' : g \in got \/ \E f \in fs : g = <<Sc[step].isl, f>>
    BY <2>1 DEF Poisoned!Facts
  <2>4. Sc[step].op \notin Terminal
    BY <2>1 DEF Terminal, Poisoned!Launches
  <2> QED BY <1>1, <1>3, <2>1, <2>2, <2>3, <2>4, CallKeepsPass
<1>4. CASE Poisoned!AwaitReady
  <2>1. PICK ok \in BOOLEAN :
          IF ok /\ Poisoned!Live(root) THEN conn' = "boot" /\ pc' = "join" /\ UNCHANGED <<step, reg, got>>
          ELSE Poisoned!Launched(ok, FALSE) /\ UNCHANGED conn
    BY <1>4 DEF Poisoned!AwaitReady
  <2>2. pc = "ready" /\ UNCHANGED <<root, files, res>>
    BY <1>4 DEF Poisoned!AwaitReady
  <2>3. CASE ok /\ Poisoned!Live(root)
    BY <1>1, <2>1, <2>2, <2>3, StopKeepsPass
  <2> QED BY <1>3, <2>1, <2>2, <2>3
<1>5. CASE Poisoned!PopenConnFails
  BY <1>1, <1>5, StopKeepsPass DEF Poisoned!PopenConnFails, Poisoned!Raise, Poisoned!island
<1>6. CASE Poisoned!AwaitJoined
  BY <1>3, <1>6 DEF Poisoned!AwaitJoined, Poisoned!island
<1> QED BY <1>2, <1>4, <1>5, <1>6 DEF Poisoned!launch_island

LEMMA PoisonCallsKeep ==
  ASSUME PassInv, PoisonInv, program \in Poisoned!PoisonPrograms,
         \/ Poisoned!inject_connector_loss \/ Poisoned!wait_loss_witness \/ Poisoned!mark_poisoned
         \/ Poisoned!kill_island53 \/ Poisoned!kill_island \/ Poisoned!wait_exit \/ Poisoned!read_result
         \/ Poisoned!shutdown \/ Poisoned!AwaitIdle \/ Poisoned!AwaitMarker
  PROVE  PassInv'
<1>1. Sc[step].isl = Poisoned!Isl /\ Sc[step].op = Poisoned!Op
  BY DEF Sc, Poisoned!Isl, Poisoned!Op
<1>2. ASSUME NEW op, op \notin Terminal, NEW fs, Poisoned!Looks(op, fs), "proved" \in fs => "proved" \in res
      PROVE  PassInv'
  <2>1. /\ Poisoned!NextStep /\ got' = got \cup Poisoned!Facts(Sc[step].isl, fs) /\ Sc[step].op \notin Terminal
        /\ UNCHANGED <<program, verdict, root, files, res>> /\ pc = "call"
    BY <1>1, <1>2 DEF Poisoned!Looks, Poisoned!At, Poisoned!Record, Poisoned!SameRun, Poisoned!island
  <2>2. \A g \in got' : g \in got \/ \E f \in fs : g = <<Sc[step].isl, f>>
    BY <2>1 DEF Poisoned!Facts
  <2> QED BY <1>2, <2>1, <2>2, CallKeepsPass
<1>3. ASSUME Poisoned!NextStep, Sc[step].op \notin Terminal, UNCHANGED <<program, verdict, files, res>>, pc = "call",
             root' = root \/ root' = Poisoned!Killed(root), NEW fs, got' = got \cup Poisoned!Facts(Sc[step].isl, fs),
             "proved" \notin fs
      PROVE  PassInv'
  <2>1. \A g \in got' : g \in got \/ \E f \in fs : g = <<Sc[step].isl, f>>
    BY <1>3 DEF Poisoned!Facts
  <2> QED BY <1>3, <2>1, CallKeepsPass
<1>4. got' = got => got' = got \cup Poisoned!Facts(Sc[step].isl, {})
  BY DEF Poisoned!Facts
<1>5. CASE Poisoned!inject_connector_loss
  <2>1. /\ Poisoned!NextStep /\ Sc[step].op \notin Terminal /\ UNCHANGED <<program, verdict, files, res, root>> /\ pc = "call"
    BY <1>1, <1>5 DEF Poisoned!inject_connector_loss, Poisoned!At, Poisoned!SameRun, Terminal
  <2>2. CASE Poisoned!Injected
    <3>1. PICK ok \in BOOLEAN : Poisoned!Record({"injected"} \cup Poisoned!If(ok, "action_started"))
      BY <1>5, <2>2 DEF Poisoned!inject_connector_loss
    <3>2. "proved" \notin {"injected"} \cup Poisoned!If(ok, "action_started")
      BY DEF Poisoned!If
    <3> QED BY <1>1, <1>3, <2>1, <3>1, <3>2 DEF Poisoned!Record
  <2>3. CASE ~Poisoned!Injected
    <3>1. got' = got
      BY <1>5, <2>3 DEF Poisoned!inject_connector_loss
    <3> QED BY <1>3, <1>4, <2>1, <3>1
  <2> QED BY <2>2, <2>3
<1>6. CASE Poisoned!wait_loss_witness
  BY <1>2, <1>6 DEF Poisoned!wait_loss_witness, Poisoned!If, Terminal
<1>7. CASE Poisoned!mark_poisoned
  BY <1>2, <1>7 DEF Poisoned!mark_poisoned, Poisoned!If, Terminal
<1>8. ASSUME NEW wanted \in BOOLEAN, Poisoned!KillIsland(wanted)
      PROVE  PassInv'
  <2> DEFINE fs == IF wanted
                   THEN Poisoned!If(~Poisoned!Live(root') /\ ~Poisoned!Live(conn'), "reaped")
                        \cup Poisoned!If(root' = "killed", "sigkill") \cup Poisoned!If("idle_cap" \in files, "idle_cap")
                   ELSE {}
  <2>1. /\ Poisoned!NextStep /\ Sc[step].op \notin Terminal /\ UNCHANGED <<program, verdict, files, res>> /\ pc = "call"
        /\ got' = got \cup Poisoned!Facts(Sc[step].isl, fs)
    BY <1>1, <1>8 DEF Poisoned!KillIsland, Poisoned!At, Poisoned!SameRun, Terminal, Poisoned!Record
  <2>2. "proved" \notin fs
    BY DEF Poisoned!If
  <2>3. root' = root \/ root' = Poisoned!Killed(root)
    BY <1>8, KillBothHandles DEF Poisoned!KillIsland
  <2> QED BY <1>3, <2>1, <2>2, <2>3
<1>9. CASE Poisoned!kill_island53
  BY <1>8, <1>9 DEF Poisoned!kill_island53, Poisoned!Injected, Poisoned!HasAll
<1>10. CASE Poisoned!kill_island
  BY <1>8, <1>10 DEF Poisoned!kill_island
<1>11. CASE Poisoned!wait_exit
  BY <1>2, <1>11 DEF Poisoned!wait_exit, Poisoned!If, Terminal
<1>12. CASE Poisoned!read_result
  BY <1>2, <1>12 DEF Poisoned!read_result, Poisoned!If, Terminal
<1>13. CASE Poisoned!shutdown
  <2>1. /\ Poisoned!NextStep /\ Sc[step].op \notin Terminal /\ UNCHANGED <<program, verdict, files, res, got>> /\ pc = "call"
    BY <1>1, <1>13 DEF Poisoned!shutdown, Poisoned!At, Poisoned!SameRun, Terminal
  <2>2. root' = root \/ root' = Poisoned!Killed(root)
    BY <1>13, KillBothHandles DEF Poisoned!shutdown
  <2> QED BY <1>3, <1>4, <2>1, <2>2
<1>14. CASE Poisoned!AwaitIdle
  BY <1>2, <1>14 DEF Poisoned!AwaitIdle, Poisoned!If, Terminal
<1>15. CASE Poisoned!AwaitMarker
  BY <1>2, <1>15 DEF Poisoned!AwaitMarker, Poisoned!If, Terminal
<1> QED BY <1>5, <1>6, <1>7, <1>9, <1>10, <1>11, <1>12, <1>13, <1>14, <1>15

LEMMA PredicateKeepsPass ==
  ASSUME PassInv, PoisonInv, program \in Poisoned!PoisonPrograms, Poisoned!evaluate_health_predicate
  PROVE  PassInv'
<1>1. /\ Sc[step].isl = Poisoned!Isl /\ Sc[step].op = Poisoned!Op /\ pc \in {"call", "snap"} /\ verdict # "pass"
      /\ UNCHANGED <<program, verdict, root, files, res>>
  BY DEF Sc, Poisoned!Isl, Poisoned!Op, PassInv, Poisoned!evaluate_health_predicate, Poisoned!BeginPredicate, Poisoned!At,
         Poisoned!Look, Poisoned!Decide, Poisoned!Deadline, Poisoned!Conclude, Poisoned!island
<1>2. CASE Poisoned!BeginPredicate \/ Poisoned!Look \/ Poisoned!Decide \/ Poisoned!Deadline
  <2>1. UNCHANGED <<step, got>>
    BY <1>2 DEF Poisoned!BeginPredicate, Poisoned!Look, Poisoned!Decide, Poisoned!Deadline
  <2> QED BY <1>1, <2>1, StopKeepsPass
<1>3. CASE Poisoned!Conclude
  <2> DEFINE finished == obs.found = "clean" \/ obs.clean
             poisoned == obs.found = "poison" \/ (Poisoned!Poison(obs) /\ ~finished)
             fs == {Poisoned!Classification(finished, poisoned)} \cup Poisoned!If(poisoned, "is_poisoned")
                    \cup Poisoned!If(obs.dead, "not_alive") \cup Poisoned!If(obs.dead /\ conn = "abort", "self_crashed")
                    \cup Poisoned!If(~obs.disc, "no_disconnect") \cup Poisoned!If(~finished, "no_completion")
                    \cup Poisoned!If(obs.rootrc # "zero", "root_not_clean")
  <2>1. /\ Poisoned!NextStep /\ pc = "snap" /\ got' = got \cup Poisoned!Facts(Sc[step].isl, fs)
    BY <1>1, <1>3 DEF Poisoned!Conclude, Poisoned!Record
  <2>2. Sc[step].op \notin Terminal
    BY <1>1, <2>1 DEF PoisonInv, FactsKnown, Terminal
  <2>3. "proved" \notin fs
    BY DEF Poisoned!If, Poisoned!Classification
  <2> HIDE DEF finished, poisoned, fs
  <2>4. \A g \in got' : g \in got \/ \E f \in fs : g = <<Sc[step].isl, f>>
    BY <2>1 DEF Poisoned!Facts
  <2> QED BY <1>1, <2>1, <2>2, <2>3, <2>4, CallKeepsPass
<1> QED BY <1>2, <1>3 DEF Poisoned!evaluate_health_predicate

LEMMA ClassifyKeepsPass ==
  ASSUME PassInv, PoisonInv, program \in Poisoned!PoisonPrograms, Poisoned!Classify
  PROVE  PassInv'
<1> DEFINE c == IF kind = "clean" THEN Poisoned!_classify_clean(Poisoned!ClassOf(Poisoned!Isl), Poisoned!Has(Poisoned!Isl, "marker"))
                ELSE Poisoned!_classify_self_crash(Poisoned!ClassOf(Poisoned!Isl))
<1>1. c # "proved"
  BY DEF Poisoned!_classify_clean, Poisoned!_classify_self_crash
<1>2. /\ Sc[step].isl = Poisoned!Isl /\ Sc[step].op = "classify" /\ Poisoned!NextStep /\ pc = "call"
      /\ UNCHANGED <<program, verdict, root, files, res>>
      /\ got' = {g \in got : g[1] # Poisoned!Isl} \cup Poisoned!Facts(Poisoned!Isl, {c})
  BY DEF Sc, Poisoned!Isl, Poisoned!Op, Poisoned!Classify, Poisoned!At, Poisoned!SameRun, Poisoned!island
<1> HIDE DEF c
<1>3. \A g \in got' : g \in got \/ \E f \in {c} : g = <<Sc[step].isl, f>>
  BY <1>2 DEF Poisoned!Facts
<1> QED BY <1>1, <1>2, <1>3, CallKeepsPass DEF Terminal

\* The preflight, the sleep control and the boundary probe assemble nothing.
LEMMA NoAssembly ==
  ASSUME program \in {"preflight55", "sleep55", "boundary55"}
  PROVE  \A s \in DOMAIN Sc : Sc[s].op # "assemble"
<1>1. \A op, i : Poisoned!Do(op, i).op = op
  BY DEF Poisoned!Do
<1>2. CASE program = "preflight55"
  <2> DEFINE r == Poisoned!run_preflight
  <2>1. Len(r) = 10 /\ DOMAIN r = 1..10
    BY DEF Poisoned!run_preflight, Poisoned!Arm
  <2>2. /\ r[1] = Poisoned!Do("preflight", 1) /\ r[2] = Poisoned!Do("idle", 1)
        /\ r[3] = Poisoned!Do("exit_root", 1) /\ r[4] = Poisoned!Do("kill", 1)
        /\ r[5] = Poisoned!Do("preflight", 2) /\ r[6] = Poisoned!Do("idle", 2)
        /\ r[7] = Poisoned!Do("exit_root", 2) /\ r[8] = Poisoned!Do("kill", 2)
        /\ r[9] = Poisoned!Do("shutdown", 2) /\ r[10] = Poisoned!Do("attribute", 2)
    BY DEF Poisoned!run_preflight, Poisoned!Arm
  <2>3. Sc = r
    BY <1>2 DEF Sc, Poisoned!Script
  <2> HIDE DEF r
  <2> QED BY <1>1, <2>1, <2>2, <2>3
<1>3. CASE program = "sleep55"
  <2> DEFINE r == Poisoned!run_sleep_control
  <2>1. Len(r) = 7 /\ DOMAIN r = 1..7
    BY DEF Poisoned!run_sleep_control, Poisoned!CleanIsland
  <2>2. /\ r[1] = Poisoned!Do("clean", 1) /\ r[2] = Poisoned!Do("predicate", 1)
        /\ r[3] = Poisoned!Do("marker", 1) /\ r[4] = Poisoned!Do("kill", 1)
        /\ r[5] = Poisoned!Do("classify", 1) /\ r[6] = Poisoned!Do("shutdown", 1)
        /\ r[7] = Poisoned!Do("return", 1)
    BY DEF Poisoned!run_sleep_control, Poisoned!CleanIsland
  <2>3. Sc = r
    BY <1>3 DEF Sc, Poisoned!Script
  <2> HIDE DEF r
  <2> QED BY <1>1, <2>1, <2>2, <2>3
<1>4. CASE program = "boundary55"
  <2> DEFINE r == Poisoned!run_boundary_probe
  <2>1. Len(r) = 6 /\ DOMAIN r = 1..6
    BY DEF Poisoned!run_boundary_probe, Poisoned!CrashIsland
  <2>2. /\ r[1] = Poisoned!Do("self_crash", 1) /\ r[2] = Poisoned!Do("predicate", 1)
        /\ r[3] = Poisoned!Do("kill", 1) /\ r[4] = Poisoned!Do("classify", 1)
        /\ r[5] = Poisoned!Do("shutdown", 1) /\ r[6] = Poisoned!Do("return", 1)
    BY DEF Poisoned!run_boundary_probe, Poisoned!CrashIsland
  <2>3. Sc = r
    BY <1>4 DEF Sc, Poisoned!Script
  <2> HIDE DEF r
  <2> QED BY <1>1, <2>1, <2>2, <2>3
<1> QED BY <1>2, <1>3, <1>4

\* The verdicts of 53 and 54 rest on the second island, which is at hand.
LEMMA AssembleKeeps ==
  ASSUME PassInv, PoisonInv, program \in Poisoned!PoisonPrograms, Poisoned!Assemble
  PROVE  PassInv'
<1>1. /\ Sc[step].op = "assemble" /\ pc' = "done" /\ step \in DOMAIN Sc
      /\ UNCHANGED <<program, step, got, old, root, conn, files, res>>
  BY DEF PoisonInv, FactsKnown, Sc, Poisoned!Op, Poisoned!Assemble, Poisoned!At, Poisoned!SameRun, Poisoned!island
<1>2. ResultShape' /\ AnswerKept'
  BY <1>1, AnswerStays DEF PassInv, ResultShape
<1>3. ASSUME verdict' = "pass" PROVE PassMeans'
  <2>1. /\ Poisoned!_orphan_check(TRUE)
        /\ program = "exp53" => Poisoned!_assemble53(TRUE)
        /\ program = "exp54" => Poisoned!_assemble54(TRUE)
    <3>1. PICK clean \in BOOLEAN :
            /\ Poisoned!_orphan_check(clean)
            /\ verdict' = IF CASE program = "exp53" -> Poisoned!_assemble53(clean)
                               [] program = "exp54" -> Poisoned!_assemble54(clean)
                               [] OTHER -> Poisoned!assemble55(clean)
                          THEN "pass" ELSE "fail"
      BY DEF Poisoned!Assemble
    <3>2. CASE program = "exp53"
      BY <1>3, <3>1, <3>2 DEF Poisoned!_assemble53
    <3>3. CASE program = "exp54"
      BY <1>3, <3>1, <3>3 DEF Poisoned!_assemble54
    <3>4. CASE program \notin {"exp53", "exp54"}
      BY <1>3, <3>1, <3>4 DEF Poisoned!assemble55
    <3> QED BY <3>2, <3>3, <3>4
  <2>2. Still
    BY <2>1, PlainPoison DEF Poisoned!_orphan_check, Running, If, Still
  <2>3. program \in {"exp53", "exp54"} => Has(2, "proved") /\ Sc[step].isl = 2
    <3>1. program \in {"exp53", "exp54"} => Has(2, "proved")
      BY <2>1, PlainPoison DEF Poisoned!_assemble53, Poisoned!_assemble54, Poisoned!Restarted, Poisoned!HasAll
    <3>2. program = "exp53" => Sc[step].isl = 2
      BY <1>1 DEF Sc, Poisoned!Script, Poisoned!run_once53, Poisoned!Do
    <3>3. program = "exp54" => Sc[step].isl = 2
      BY <1>1 DEF Sc, Poisoned!Script, Poisoned!run_once54, Poisoned!Do
    <3> QED BY <3>1, <3>2, <3>3
  <2>4. program \in {"exp53", "exp54"} => {"two", "proved"} \subseteq res
    BY <2>3 DEF PassInv, ResultShape
  <2>5. program \in {"exp53", "exp54", "exp55"}
    BY <1>1, NoAssembly DEF Poisoned!PoisonPrograms
  <2> QED BY <1>1, <2>2, <2>4, <2>5 DEF PassMeans, Still
<1> QED BY <1>1, <1>2, <1>3, PoisonKeepsPass

LEMMA PoisonEndsKeep ==
  ASSUME PassInv, program \in Poisoned!PoisonPrograms,
         \/ Poisoned!RayGetFails \/ Poisoned!Raised \/ Poisoned!Attribute \/ Poisoned!Return \/ Poisoned!Skip
  PROVE  PassInv'
<1>1. UNCHANGED <<program, step, got, files, res>>
  BY DEF Poisoned!RayGetFails, Poisoned!Raised, Poisoned!Attribute, Poisoned!Return, Poisoned!Skip,
         Poisoned!SameRun, Poisoned!island, Poisoned!Raise
<1>2. root' = root \/ root' = Poisoned!Killed(root)
  BY KillBothHandles DEF Poisoned!RayGetFails, Poisoned!Raised, Poisoned!Attribute, Poisoned!Return, Poisoned!Skip,
                         Poisoned!island
<1>3. verdict' # "pass"
  BY DEF PassInv, Poisoned!RayGetFails, Poisoned!Raised, Poisoned!Attribute, Poisoned!SelfBounds, Poisoned!Return,
         Poisoned!Skip
<1> QED BY <1>1, <1>2, <1>3, StopKeepsPass

LEMMA PoisonDriverKeeps ==
  ASSUME PassInv, PoisonInv, Poisoned!PoisonDriver
  PROVE  PassInv'
<1>1. program \in Poisoned!PoisonPrograms
  BY DEF Poisoned!PoisonDriver
<1>2. CASE Poisoned!launch_island \/ Poisoned!evaluate_health_predicate \/ Poisoned!Classify \/ Poisoned!Assemble
  BY <1>1, <1>2, PoisonLaunchesKeep, PredicateKeepsPass, ClassifyKeepsPass, AssembleKeeps
<1>3. CASE \/ Poisoned!inject_connector_loss \/ Poisoned!wait_loss_witness \/ Poisoned!mark_poisoned
           \/ Poisoned!kill_island53 \/ Poisoned!kill_island \/ Poisoned!wait_exit \/ Poisoned!read_result
           \/ Poisoned!shutdown \/ Poisoned!AwaitIdle \/ Poisoned!AwaitMarker
  BY <1>1, <1>3, PoisonCallsKeep
<1>4. CASE \/ Poisoned!RayGetFails \/ Poisoned!Raised \/ Poisoned!Attribute \/ Poisoned!Return \/ Poisoned!Skip
  BY <1>1, <1>4, PoisonEndsKeep
<1> QED BY <1>2, <1>3, <1>4 DEF Poisoned!PoisonDriver

-----------------------------------------------------------------------------

LEMMA PassInvInit ==
  ASSUME Init
  PROVE  PassInv
<1>1. /\ step = 1 /\ pc = "call" /\ root = "none" /\ conn = "none" /\ old = {} /\ got = {} /\ res = {} /\ files = {}
      /\ verdict = "none"
  BY DEF Init, SpikeInit
<1>2. ResultShape /\ Still
  BY <1>1 DEF ResultShape, Still, Live, RootLive, ConnLive
<1>3. ASSUME program \in Nodes!TwoNodePrograms PROVE TwoNodeShape
  <2>1. step \in DOMAIN St
    BY <1>1, <1>3, StShape DEF Scripted
  <2>2. program \in Islanders => St[step].op # "judge"
    BY <1>1 DEF Islanders, St, Nodes!Steps, Nodes!main56, Nodes!run_phase57, Nodes!phases58,
                Nodes!phase_same_node_control, Nodes!I
  <2>3. Unlaunched /\ Control60
    BY <1>1 DEF Unlaunched, Control60
  <2> QED BY <1>1, <1>2, <2>1, <2>2, <2>3 DEF TwoNodeShape, Busy, Has
<1> QED BY <1>1, <1>2, <1>3 DEF PassInv, Has

LEMMA PassInvStep ==
  ASSUME PassInv, PoisonInv, [Next]_supVars
  PROVE  PassInv'
<1>1. CASE Poisoned!PoisonDriver
  BY <1>1, PoisonDriverKeeps
<1>2. CASE Nodes!TwoNodeDriver
  BY <1>2, NodesKeepPass
<1>3. CASE Islands \/ Accidents
  BY <1>3, IslandsKeepPass
<1>4. CASE UNCHANGED vars
  <2>1. UNCHANGED <<program, step, pc, root, conn, files, res, old, got, verdict>>
    BY <1>4 DEF vars
  <2>2. Sc' = Sc /\ St' = St
    BY <2>1, SameScript, SameSteps
  <2>3. PassMeans' <=> PassMeans
    BY <2>1 DEF PassMeans, Has
  <2>4. \A i : (Reported(i)' <=> Reported(i)) /\ (Checked(i)' <=> Checked(i))
    BY <2>1 DEF Reported, Checked, Still, Has
  <2>5. TwoNodeShape' <=> TwoNodeShape
    <3>1. (Still' <=> Still) /\ (Busy' <=> Busy) /\ (Unlaunched' <=> Unlaunched) /\ (Control60' <=> Control60)
      BY <2>1, <2>2, <2>4 DEF Still, Busy, Unlaunched, Control60
    <3>3. /\ (Has(St[step].isl, "no_orphans")' <=> Has(St[step].isl, "no_orphans"))
          /\ (Has(St[step].isl, "proved")' <=> Has(St[step].isl, "proved"))
      BY <2>1, <2>2 DEF Has
    <3>4. Checked(St[step].isl)' <=> Checked(St[step].isl)
      BY <2>1, <2>2 DEF Checked, Reported, Still, Has
    <3> QED BY <2>1, <2>2, <3>1, <3>3, <3>4 DEF TwoNodeShape
  <2>6. (Loaded' <=> Loaded) /\ (ResultShape' <=> ResultShape) /\ (Has(Sc[step].isl, "proved")' <=> Has(Sc[step].isl, "proved"))
    BY <2>1, <2>2 DEF Loaded, ResultShape, Has
  <2> QED BY <2>1, <2>2, <2>3, <2>5, <2>6 DEF PassInv
<1>5. Actors \/ Verifier \/ Scheduler \/ Ended \/ UNCHANGED supVars => UNCHANGED vars
  BY DEF Actors, Verifier, Scheduler, Ended, supVars
<1> QED BY <1>1, <1>2, <1>3, <1>4, <1>5 DEF Next, Driver

\* What every program of 53 to 60 knows of its islands at each of its steps:
\* the facts it records are true, in the order in which it looks, kills and
\* launches again (the orphan checks, read_json_eventually, _assemble).
THEOREM PassInvariant == Spec => []PassInv
  BY PassInvInit, PassInvStep, PoisonInvariant, PTL DEF Spec

\* A pass is what it says: what was launched has ended, or an orphan check
\* could not be made, and the last island's action was answered by a second
\* locality (the gates of _assemble 53 and 54, of main of 56 to 58 and 60).
THEOREM PassedIsAnswered == Spec => []PassMeans
<1>1. PassInv => PassMeans
  BY DEF PassInv, PassMeans
<1> QED BY <1>1, PassInvariant, PTL
=============================================================================
