-------------------------- MODULE LifecycleProofs ---------------------------
(***************************************************************************)
(* Proofs about the island supervisors of experiment 70 and the            *)
(* repetitions of experiments 65 to 69, for every number of faults and     *)
(* every observation bound: what a marker says really happened (Marked),   *)
(* because what a file or the root's state says really happened            *)
(* (FilesTrue), and because every program keeps an order of its own        *)
(* (Ordered).  Here the invariant, the steps the programs share, the       *)
(* processes, and slices 1 to 3.                                           *)
(***************************************************************************)
EXTENDS MCLifecycle, FiniteSetTheorems, WellFoundedInduction, TLAPS

-----------------------------------------------------------------------------
(* The invariant.                                                          *)

\* What the happening behind a marker x with value v must have left in L.
Holds(x, v, L) ==
    LET worked == <<x[1], "run", "worked">> \in L
    IN  /\ x[3] = "stopped" /\ v = TRUE => <<x[1], x[2], "left">> \in L
        /\ x[3] = "prober_left" /\ v = TRUE => <<x[1], "b", "left">> \in L
        /\ x[3] = "exit_path" /\ v = "finalized_clean" => <<x[1], "root", "clean">> \in L
        /\ x[3] = "final_membership" /\ v = 1 => <<x[1], "root", "alone">> \in L
        /\ x[3] = "signalled" /\ program = "slice1" /\ v = TRUE => <<x[1], x[2], "killed">> \in L
        /\ x[3] = "work" /\ program \in Slices /\ v = TRUE => worked
        /\ x[3] = "work" /\ program \in Repeated /\ v = "ok" => worked
        /\ x[3] \in {"timed_b", "batches"} /\ v = "ok" => worked
        /\ x[3] = "probe" /\ program = "exp66" /\ v = TRUE => worked
        /\ x[3] \in {"work1", "work2"} /\ v = TRUE => <<x[1], "run", x[3]>> \in L
        /\ x[3] \in DOMAIN S3!Bad /\ v = TRUE => <<x[1], "root", x[3]>> \in L
        /\ x = <<"loss", "observer", "event">> /\ v = "suspected_root_loss" =>
              <<"loss", "root", "suspected_gone">> \in L
        /\ x[3] = "class" /\ v = "pass" => RepEvidence(x[1]) \subseteq L
        \* And what values a marker can have.
        /\ x[3] = "work" /\ program = "exp67" => v \in R67!Dispatches
        /\ x[3] = "work" /\ program = "exp68" => v \in R68!CaseResults
        /\ x[3] \in {"soak", "batches"} => v # "pass"
        /\ x[3] = "events" => program = "slice3"

MarkedBy(r, L) == \A x \in DOMAIN r : Holds(x, r[x], L)
Marked == MarkedBy(rec, log)

\* An island of the current arm is there; before and after it, the files and
\* the root may be those of another arm.
Inside ==
    /\ pc \notin {"preflight", "head", "worker", "launch", "finalize", "finally", "phase_end", "sweep", "ended"}
    /\ program \in Repeated /\ program # "exp65" => pc # "verdict"

\* What the root's state and the files of the island say is true of this arm.
Saying(arm_, root_, files_, members_, L) ==
    /\ "final" \in files_ /\ members_ = 1 => <<arm_, "root", "alone">> \in L
    /\ "leave_seen" \in files_ => <<arm_, "root", "alone">> \in L
    /\ root_ = "exited" => <<arm_, "root", "clean">> \in L
    /\ root_ = "stalled" => <<arm_, "root", "stalled">> \in L
    /\ files_ \cap {"served", "probe_good"} # {} => <<arm_, "run", "worked">> \in L
    /\ "disconnected" \in files_ => <<arm_, "a", "left">> \in L
    /\ "prober_left" \in files_ => <<arm_, "b", "left">> \in L
    /\ \A m \in DOMAIN S3!Bad : m \in files_ /\ S3!Bad[m] \notin files_ => <<arm_, "root", m>> \in L

FilesTrue == Inside => Saying(arm, root, files, finalMembers, log)

\* Nothing that a sound run does not log; a root that is alive is suspected
\* only by slice 4, and only after a stall.
Alarms == {"overlap", "suspected_alive"}
Suspected ==
    \A e \in log : e[3] = "suspected_alive" => program = "slice4" /\ <<e[1], "root", "stalled">> \in log

Typed ==
    /\ SupervisorTypeOK
    /\ program \in Slices \cup Repeated
    /\ program \in Repeated => arm \in {"rep1", "rep2"}

Gone == \A k \in Conns : act[k] \in {"none", "dead"}
Untouched == root = "none" /\ \A k \in Conns : act[k] = "none"
NoAlarm == \A e \in log : e[3] \notin Alarms

\* Before its first island a program has started nothing.
Beginning == pc \in {"preflight", "head", "worker"}

\* The programs with two arms: the first island is gone before the second is
\* launched, or the marker says that its actors were still there.
Succession(first, second, over, reaped) ==
    /\ arm \in {first, second}
    /\ Beginning \/ (pc = "launch" /\ arm = first) => arm = first /\ Untouched
    /\ pc \in over \/ (pc = "launch" /\ arm = second) => ~RootAlive
    /\ (pc = "arm_done" /\ arm = first) \/ (pc = "launch" /\ arm = second) =>
           (Ok(first, "run", reaped) => Gone)
    /\ \A e \in log : e[3] = "overlap" => arm = second /\ ~Ok(first, "run", reaped)

Slice1Ordered ==
    /\ Succession("epoch0", "epoch1", {"root_gone"}, "pids_gone")
    /\ pc \in {"inject", "victim_gone", "victim_ping", "survivor_probe", "classify", "discard", "root_gone"} =>
           arm = "epoch0"

Slice2Ordered ==
    /\ arm = "island"
    /\ Beginning \/ pc = "launch" => Untouched
    /\ NoAlarm
    /\ pc \in {"fence", "observe", "stop_a", "stop_b"} => "completion" \in files
    /\ \A k \in Conns : act[k] = "left" => "completion" \in files

\* The event document, and the evidence its terminal event rests on.
Document ==
    [epoch : {"graceful", "loss"}, connector : Conns, kind : {"JOINED", "DEPARTED"},
     label : {"none", "graceful_departure", "unexpected_loss", "indeterminate"}]
Truthful(d) ==
    d.kind = "DEPARTED" => /\ d.label = "graceful_departure" => <<arm, "b", "left">> \in log
                           /\ d.label = "unexpected_loss" => act["b"] \in {"dying", "dead"}

Slice3Ordered ==
    /\ Succession("graceful", "loss", {"discard", "gone", "arm_done"}, "actor_pids_gone")
    /\ arm = "graceful" => <<"loss", "run", "events">> \notin DOMAIN rec
    /\ Beginning \/ pc \in {"launch", "ready", "actor_a", "start_a", "actor_b", "start_b", "join", "gates"} =>
           <<arm, "run", "events">> \notin DOMAIN rec
    /\ <<arm, "run", "events">> \in DOMAIN rec =>
           /\ rec[<<arm, "run", "events">>] \in Seq(Document)
           /\ \A i \in DOMAIN rec[<<arm, "run", "events">>] : Truthful(rec[<<arm, "run", "events">>][i])
    /\ pc \in {"start_b", "join", "gates", "work", "depart", "departed", "evidence", "publish"} => act["b"] # "none"
    /\ pc \in {"evidence", "publish"} /\ Ok(arm, "b", "pid_gone") => act["b"] \in {"none", "dead"}

Slice3bOrdered == arm = "native" /\ (Beginning \/ pc = "launch" => Untouched) /\ NoAlarm

\* Slice 4: the steps before root.done, and those after the bring-up.
Working == {"work", "verify", "publish", "duplicate", "wrong_epoch", "wrong_root", "observe", "observing",
            "precond", "probe", "inject", "classified", "conn_a", "conn_b", "observed"}
Joining4 == {"actor_a", "start_a", "actor_b", "start_b", "join", "gates"}

Short == {"wrong_epoch", "wrong_root", "probe"}
Observations ==
    [to : Short \cup {"event", "conn_a", "conn_b"}, epoch : BOOLEAN, identity : BOOLEAN,
     limit : Nat, silence : Nat, elapsed : Nat]

\* The normal arm has not yet the result of its observation w.
EventDue ==
    /\ arm = "normal"
    /\ \/ Beginning \/ pc \in {"launch", "ready"} \cup Joining4
       \/ pc \in Working \ {"observing", "classified", "conn_a", "conn_b", "observed"}
       \/ pc = "observing" /\ obs.to \in Short \cup {"event"}
ConnADue == EventDue \/ (arm = "normal" /\ (pc \in {"classified", "conn_a"} \/ (pc = "observing" /\ obs.to = "conn_a")))
ConnBDue == ConnADue \/ (arm = "normal" /\ (pc = "conn_b" \/ (pc = "observing" /\ obs.to = "conn_b")))
Missed == \E w \in {"event", "conn_a", "conn_b"} : Has("normal", "observer", w, "suspected_root_loss")

Slice4Ordered ==
    /\ Succession("normal", "loss", {"discard", "gone", "arm_done"}, "actor_pids_gone")
    /\ pc \in Working \cup Joining4 \cup {"ready", "stop_a", "stop_b"} => "done" \notin files /\ root # "leaving"
    /\ root = "booting" => "ready" \notin files
    /\ pc \in Joining4 /\ Ok(arm, "root", "ready") => "ready" \in files
    /\ pc \in Working => "ready" \in files
    /\ pc = "observing" =>
          /\ obs \in Observations
          /\ obs.silence <= obs.elapsed /\ obs.elapsed <= obs.limit
          /\ obs.to \in Short => obs.limit = ShortBound
    /\ pc \in {"publish", "duplicate"} => arm = "normal"
    /\ arm = "loss" /\ \/ pc \in {"observe", "wrong_epoch", "wrong_root", "classified", "conn_a", "conn_b"}
                       \/ pc = "observing" /\ obs.to # "probe"
         => ~RootAlive
    /\ \A e \in log : e[3] = "suspected_alive" => Missed
    /\ EventDue => <<"normal", "observer", "event">> \notin DOMAIN rec
    /\ ConnADue => <<"normal", "observer", "conn_a">> \notin DOMAIN rec
    /\ ConnBDue => <<"normal", "observer", "conn_b">> \notin DOMAIN rec

\* Experiment 65: the connector is created on demand only.
Rep65Ordered ==
    /\ act["b"] = "none"
    /\ pc \in {"preflight", "launch", "verdict"} => ~RootAlive
    /\ pc \in {"preflight", "launch", "ready", "local", "event", "await_root", "verdict"} => "a" \notin Running

\* Experiments 66 to 69: between two repetitions nothing runs.
RepOrdered == Beginning \/ pc \in {"launch", "verdict"} => ~RootAlive /\ Running = {}

Ordered ==
    /\ program = "slice1" => Slice1Ordered
    /\ program = "slice2" => Slice2Ordered
    /\ program = "slice3" => Slice3Ordered
    /\ program = "slice3b" => Slice3bOrdered
    /\ program = "slice4" => Slice4Ordered
    /\ program = "exp65" => Rep65Ordered
    /\ program \in Repeated \ {"exp65"} => RepOrdered

\* A slice that reported pass.
Passed ==
    program \in Slices /\ overall = "pass" =>
        /\ Evidence[program] \subseteq log
        /\ program # "slice3b" => NobodyLeft
        /\ NoAlarm

\* What every program keeps, and what each keeps of its own.
Base == Typed /\ Marked /\ FilesTrue /\ Suspected
IInv == Base /\ Ordered /\ Passed

-----------------------------------------------------------------------------
(* Markers.                                                                *)

\* The one member of a set of one.
LEMMA OnlyOne ==
  ASSUME NEW x
  PROVE  Only({x}) = x
  BY DEF Only

\* What the dictionary operators are.
LEMMA MergeIs ==
  ASSUME NEW m, NEW r
  PROVE  m @@ r = Merge(m, r)
<1>1. {Merge(p, q) : p \in {m}, q \in {r}} = {Merge(m, r)}
  OBVIOUS
<1>2. m @@ r = Only({Merge(p, q) : p \in {m}, q \in {r}})
  BY DEF @@
<1>3. m @@ r = Only({Merge(m, r)})
  BY <1>1, <1>2
<1> QED BY <1>3, OnlyOne

\* A marker written over a record is there, and hides no other.
LEMMA Mark ==
  ASSUME NEW x, NEW v, NEW r, NEW y
  PROVE  /\ y \in DOMAIN ((x :> v) @@ r) <=> y = x \/ y \in DOMAIN r
         /\ y = x => ((x :> v) @@ r)[y] = v
         /\ y \in DOMAIN r /\ y # x => ((x :> v) @@ r)[y] = r[y]
  BY MergeIs DEF Merge, :>

\* A true marker keeps the markers true; so does a mute one.
LEMMA MarkOne ==
  ASSUME NEW x, NEW v, NEW r, NEW L, MarkedBy(r, L), Holds(x, v, L)
  PROVE  MarkedBy((x :> v) @@ r, L)
<1> SUFFICES ASSUME NEW y, y \in DOMAIN ((x :> v) @@ r)
             PROVE  Holds(y, ((x :> v) @@ r)[y], L)
  BY DEF MarkedBy
<1>1. CASE y = x
  BY <1>1, Mark
<1>2. CASE y # x
  <2>1. y \in DOMAIN r /\ ((x :> v) @@ r)[y] = r[y]
    BY <1>2, Mark
  <2> QED BY <2>1 DEF MarkedBy
<1> QED BY <1>1, <1>2

\* Two records of true markers, joined, are one.
LEMMA MarkAll ==
  ASSUME NEW m, NEW r, NEW L, MarkedBy(r, L), MarkedBy(m, L)
  PROVE  MarkedBy(m @@ r, L)
<1>1. DOMAIN (m @@ r) = DOMAIN m \cup DOMAIN r
  BY MergeIs DEF Merge
<1> SUFFICES ASSUME NEW y \in DOMAIN (m @@ r)
             PROVE  Holds(y, (m @@ r)[y], L)
  BY DEF MarkedBy
<1>2. CASE y \in DOMAIN m
  <2>1. (m @@ r)[y] = m[y]
    BY <1>2, MergeIs DEF Merge
  <2> QED BY <1>2, <2>1 DEF MarkedBy
<1>3. CASE y \notin DOMAIN m
  <2>1. (m @@ r)[y] = r[y] /\ y \in DOMAIN r
    BY <1>1, <1>3, MergeIs DEF Merge
  <2> QED BY <2>1 DEF MarkedBy
<1> QED BY <1>2, <1>3

\* The third part of a key that nothing rests on.
Telling ==
    {"stopped", "prober_left", "exit_path", "final_membership", "signalled", "work", "timed_b",
     "batches", "probe", "work1", "work2", "event", "class", "soak", "events"} \cup DOMAIN S3!Bad

\* Most markers tell of nothing that could be untrue.
LEMMA Mute ==
  ASSUME NEW a, NEW w, NEW s, s \notin Telling, NEW v, NEW L
  PROVE  Holds(<<a, w, s>>, v, L)
  BY DEF Holds, Telling

\* What has happened stays so.
LEMMA HoldsGrows ==
  ASSUME NEW x, NEW v, NEW L, NEW M, L \subseteq M, Holds(x, v, L)
  PROVE  Holds(x, v, M)
  BY DEF Holds

\* True markers stay true as more happens.
LEMMA MarkedGrows ==
  ASSUME NEW r, NEW L, NEW M, L \subseteq M, MarkedBy(r, L)
  PROVE  MarkedBy(r, M)
  BY HoldsGrows DEF MarkedBy

\* The markers after a step, once they are true of what has happened by then.
LEMMA MarkedAfter ==
  ASSUME program' = program, MarkedBy(rec', log')
  PROVE  Marked'
<1>1. \A r : RepEvidence(r)' = RepEvidence(r)
  BY DEF RepEvidence, Reps
<1>2. ASSUME NEW x \in DOMAIN rec'
      PROVE  Holds(x, rec[x], log)'
  <2>1. Holds(x, rec'[x], log')
    BY <1>2 DEF MarkedBy
  <2>2. x[3] = "class" /\ rec'[x] = "pass" => RepEvidence(x[1])' \subseteq log'
    BY <1>1, <2>1 DEF Holds
  <2>3. /\ program' = "exp67" /\ x[3] = "work" => rec'[x] \in R67!Dispatches
        /\ program' = "exp68" /\ x[3] = "work" => rec'[x] \in R68!CaseResults
    BY <2>1 DEF Holds
  <2>4. x[3] \in DOMAIN S3!Bad /\ rec'[x] = TRUE => <<x[1], "root", x[3]>> \in log'
    BY <2>1 DEF Holds
  <2> QED BY <2>1, <2>2, <2>3, <2>4 DEF Holds, S3!Bad, R67!Dispatches, R68!CaseResults, Slices, Repeated
<1> QED BY <1>2 DEF Marked, MarkedBy

\* A step that writes no marker keeps them true.
LEMMA MarkedSame ==
  ASSUME Marked, program' = program, rec' = rec, log \subseteq log'
  PROVE  Marked'
<1>1. MarkedBy(rec', log')
  BY MarkedGrows DEF Marked
<1> QED BY <1>1, MarkedAfter

\* A step that puts one marker.
LEMMA MarkedPut ==
  ASSUME Marked, program' = program, log \subseteq log',
         NEW x, NEW v, rec' = (x :> v) @@ rec, Holds(x, v, log')
  PROVE  Marked'
<1>1. MarkedBy(rec, log')
  BY MarkedGrows DEF Marked
<1>2. MarkedBy(rec', log')
  BY <1>1, MarkOne
<1> QED BY <1>2, MarkedAfter

\* A step that puts markers nothing rests on.
LEMMA MutePut ==
  ASSUME Marked, program' = program, log \subseteq log',
         NEW who, NEW what, what \notin Telling, NEW v, Put(who, what, v)
  PROVE  Marked'
<1>1. Holds(<<arm, who, what>>, v, log')
  BY Mute
<1> QED BY <1>1, MarkedPut DEF Put

-----------------------------------------------------------------------------
(* Files and the root's state.                                             *)

TellingFiles == {"final", "leave_seen", "served", "probe_good", "disconnected", "prober_left"} \cup DOMAIN S3!Bad

\* A step inside an island that adds no file of weight, and at most kills the root.
LEMMA FilesKept ==
  ASSUME FilesTrue, program' = program, Inside' => Inside, arm' = arm, root' \in {root, "dead"},
         finalMembers' = finalMembers, log \subseteq log', files \subseteq files',
         files' \cap TellingFiles \subseteq files
  PROVE  FilesTrue'
<1> SUFFICES ASSUME Inside' PROVE Saying(arm', root', files', finalMembers', log')
  BY DEF FilesTrue, Saying, S3!Bad
<1>1. Saying(arm, root, files, finalMembers, log)
  BY DEF FilesTrue
<1> QED BY <1>1 DEF Saying, TellingFiles, S3!Bad

\* Where no island is up there is no file and no root to speak of.
LEMMA OutsideTrue ==
  ASSUME ~Inside'
  PROVE  FilesTrue'
  BY DEF FilesTrue

\* A new island has said nothing.
LEMMA NewIslandTrue ==
  ASSUME files' = {}, root' = "booting"
  PROVE  FilesTrue'
  BY DEF FilesTrue, Saying, S3!Bad

USE DEF At, Goto, Raise, OrRaise, SameIsland, SameRun, Same

-----------------------------------------------------------------------------
(* Steps the programs share.                                               *)

\* A step after which no slice reports a pass.
Fine == Base' /\ overall' # "pass"

\* What @@ joins.
LEMMA Merged ==
  ASSUME NEW m, NEW r, NEW y
  PROVE  /\ y \in DOMAIN (m @@ r) <=> y \in DOMAIN m \/ y \in DOMAIN r
         /\ y \in DOMAIN m => (m @@ r)[y] = m[y]
         /\ y \in DOMAIN r /\ y \notin DOMAIN m => (m @@ r)[y] = r[y]
  BY MergeIs DEF Merge

\* A record of one marker.
LEMMA Single ==
  ASSUME NEW x, NEW v, NEW y
  PROVE  (y \in DOMAIN (x :> v) <=> y = x) /\ (x :> v)[x] = v
  BY DEF :>

\* A record of one true marker.
LEMMA MarkedSingle ==
  ASSUME NEW x, NEW v, NEW L, Holds(x, v, L)
  PROVE  MarkedBy(x :> v, L)
  BY Single DEF MarkedBy

\* A step that puts several markers.
LEMMA MarkedMerge ==
  ASSUME Marked, program' = program, log \subseteq log',
         NEW m, rec' = m @@ rec, MarkedBy(m, log')
  PROVE  Marked'
<1>1. MarkedBy(rec, log')
  BY MarkedGrows DEF Marked
<1>2. MarkedBy(rec', log')
  BY <1>1, MarkAll
<1> QED BY <1>2, MarkedAfter

\* A suspicion stays an alarm in the log.
LEMMA SuspectedKept ==
  ASSUME Suspected, program' = program, log \subseteq log',
         \A e \in log' : e \in log \/ e[3] # "suspected_alive"
  PROVE  Suspected'
  BY DEF Suspected

\* The number of faults stays within its bound.
LEMMA FaultTyped ==
  ASSUME Typed, program' = program, UNCHANGED faults \/ Fault
  PROVE  faults' \in 0..MaxFaults[program']
<1>1. MaxFaults[program] \in Nat /\ faults \in 0..MaxFaults[program]
  BY BoundsAssumption DEF Typed, SupervisorTypeOK, IslandTypeOK
<1> QED BY <1>1 DEF Fault

\* A wait that may fail keeps the count of faults in bounds.
LEMMA OutcomeTyped ==
  ASSUME Typed, program' = program, NEW ok, NEW can, Outcome(ok, can)
  PROVE  faults' \in 0..MaxFaults[program']
  BY FaultTyped DEF Outcome

\* A step of the driver on an island that does not change.
LEMMA StillStep ==
  ASSUME Base, UNCHANGED <<program, place>>, SameIsland, arm' = arm, Inside' => Inside, Marked',
         faults' \in 0..MaxFaults[program'], exc' \in BOOLEAN,
         overall' \in {"none", "skip", "fail_preflight", "fail", "crash"},
         (pc' = "ended") <=> (overall' # "none")
  PROVE  Fine
<1>1. Typed'
  BY DEF Base, Typed, SupervisorTypeOK, IslandTypeOK
<1>2. FilesTrue'
  BY FilesKept DEF Base
<1>3. Suspected'
  BY SuspectedKept DEF Base
<1> QED BY <1>1, <1>2, <1>3 DEF Fine, Base

\* A step of the driver that changes the island and adds at most files that
\* nothing rests on.
LEMMA MovingStep ==
  ASSUME Base, UNCHANGED <<program, place>>, arm' = arm, Marked', UNCHANGED finalMembers,
         Inside' => Inside /\ root' \in {root, "dead"},
         cluster' \in {"none", "head", "both", "down"}, root' \in RootStates,
         act' \in [Conns -> ActorStates], stale' \subseteq Conns,
         files' \subseteq Files, files \subseteq files', files' \cap TellingFiles \subseteq files,
         faults' \in 0..MaxFaults[program'], exc' \in BOOLEAN,
         log \subseteq log', \A e \in log' : e \in log \/ e[3] # "suspected_alive",
         overall' = "none", pc' # "ended"
  PROVE  Fine
<1>1. Typed'
  BY DEF Base, Typed, SupervisorTypeOK, IslandTypeOK
<1>2. FilesTrue'
  <2>1. CASE Inside'
    BY <2>1, FilesKept DEF Base
  <2> QED BY <2>1, OutsideTrue
<1>3. Suspected'
  BY SuspectedKept DEF Base
<1> QED BY <1>1, <1>2, <1>3 DEF Fine, Base

\* PreflightStep keeps what the programs share.
LEMMA PreflightFine ==
  ASSUME Base, PreflightStep
  PROVE  Fine
<1>1. Marked'
  BY MarkedSame DEF PreflightStep, Base
<1>2. /\ UNCHANGED <<program, place, faults>> /\ SameIsland /\ arm' = arm /\ exc' \in BOOLEAN
      /\ overall = "none"
  BY DEF PreflightStep, Base, Typed, SupervisorTypeOK
<1>3. overall' \in {"none", "skip", "fail_preflight"} /\ ((pc' = "ended") <=> (overall' # "none")) /\ ~Inside'
  BY <1>2 DEF PreflightStep, Finish, Inside
<1>4. faults' \in 0..MaxFaults[program']
  BY <1>2, FaultTyped DEF Base
<1> QED BY <1>1, <1>2, <1>3, <1>4, StillStep

\* A step that only puts a marker: it was told, or it says nothing.
LEMMA TellingStep ==
  ASSUME Base, UNCHANGED <<program, place>>, SameIsland, arm' = arm, Inside, exc' \in BOOLEAN,
         SameRun, pc' # "ended", faults' \in 0..MaxFaults[program'], Marked'
  PROVE  Fine
<1>1. overall = "none"
  BY DEF Base, Typed, SupervisorTypeOK, Inside
<1> QED BY <1>1, StillStep

\* HeadStep keeps what the programs share.
LEMMA HeadFine ==
  ASSUME Base, HeadStep
  PROVE  Fine
<1>1. Marked'
  BY MarkedSame DEF HeadStep, Base
<1>2. /\ overall' = "none" /\ pc' # "ended" /\ ~Inside' /\ exc' \in BOOLEAN
      /\ faults' \in 0..MaxFaults[program']
  BY OutcomeTyped DEF HeadStep, Base, Typed, SupervisorTypeOK, Inside
<1>3. root \in RootStates /\ act \in [Conns -> ActorStates] /\ stale \subseteq Conns /\ files \subseteq Files
  BY DEF Base, Typed, SupervisorTypeOK, IslandTypeOK
<1> QED BY <1>1, <1>2, <1>3, MovingStep DEF HeadStep

\* WorkerStep keeps what the programs share.
LEMMA WorkerFine ==
  ASSUME Base, WorkerStep
  PROVE  Fine
<1>1. Marked'
  BY MutePut DEF WorkerStep, Base, Telling, S3!Bad
<1>2. /\ overall' = "none" /\ pc' # "ended" /\ ~Inside' /\ exc' \in BOOLEAN
      /\ faults' \in 0..MaxFaults[program']
  BY OutcomeTyped DEF WorkerStep, Base, Typed, SupervisorTypeOK, Inside
<1>3. root \in RootStates /\ act \in [Conns -> ActorStates] /\ stale \subseteq Conns /\ files \subseteq Files
  BY DEF Base, Typed, SupervisorTypeOK, IslandTypeOK
<1> QED BY <1>1, <1>2, <1>3, MovingStep DEF WorkerStep

\* What a fresh island leaves of the invariant.
LEMMA NewIslandFine ==
  ASSUME Base, NewIsland(arm), UNCHANGED <<program, place, cluster, rec, arm>>, SameRun, exc' \in BOOLEAN,
         pc # "ended", pc' # "ended", UNCHANGED faults
  PROVE  Fine
<1>1. Typed'
  <2>1. act' \in [Conns -> ActorStates] /\ root' \in RootStates
    BY DEF NewIsland, ActorStates, RootStates
  <2>2. faults' \in 0..MaxFaults[program']
    BY FaultTyped DEF Base
  <2> QED BY <2>1, <2>2 DEF NewIsland, Base, Typed, SupervisorTypeOK, IslandTypeOK
<1>2. Marked'
  BY MarkedSame DEF NewIsland, Base
<1>3. FilesTrue'
  BY NewIslandTrue DEF NewIsland
<1>4. Suspected'
  BY SuspectedKept DEF NewIsland, Base
<1>5. overall' = "none"
  BY DEF Base, Typed, SupervisorTypeOK
<1> QED BY <1>1, <1>2, <1>3, <1>4, <1>5 DEF Fine, Base

\* LaunchStep keeps what the programs share.
LEMMA LaunchFine ==
  ASSUME Base, LaunchStep
  PROVE  Fine
  BY NewIslandFine DEF LaunchStep, Base, Typed, SupervisorTypeOK

\* ReadyStep keeps what the programs share.
LEMMA ReadyFine ==
  ASSUME Base, ReadyStep
  PROVE  Fine
<1>1. Marked'
  BY MutePut DEF ReadyStep, Base, Telling, S3!Bad
<1>2. Inside /\ exc' \in BOOLEAN /\ pc' # "ended" /\ faults' \in 0..MaxFaults[program']
  BY OutcomeTyped DEF ReadyStep, WaitForFile, Base, Typed, SupervisorTypeOK, Inside
<1> QED BY <1>1, <1>2, TellingStep DEF ReadyStep

\* ActorStep keeps what the programs share.
LEMMA ActorFine ==
  ASSUME Base, UNCHANGED <<program, place>>, Inside, NEW k \in Conns, NEW next, next # "ended",
         ActorStep(k, next)
  PROVE  Fine
<1>1. Marked'
  BY MutePut DEF ActorStep, Base, Telling, S3!Bad
<1>2. /\ overall' = "none" /\ pc' # "ended" /\ exc' \in BOOLEAN /\ faults' \in 0..MaxFaults[program']
      /\ act' \in [Conns -> ActorStates]
  BY OutcomeTyped DEF ActorStep, Base, Typed, SupervisorTypeOK, IslandTypeOK, Inside, ActorStates
<1>3. /\ root \in RootStates /\ stale \subseteq Conns /\ files \subseteq Files
      /\ cluster \in {"none", "head", "both", "down"}
  BY DEF Base, Typed, SupervisorTypeOK, IslandTypeOK
<1> QED BY <1>1, <1>2, <1>3, MovingStep DEF ActorStep

\* StartStep keeps what the programs share.
LEMMA StartFine ==
  ASSUME Base, UNCHANGED <<program, place>>, Inside, NEW k \in Conns, NEW next, next # "ended",
         StartStep(k, next)
  PROVE  Fine
<1>1. Marked'
  BY MutePut DEF StartStep, Base, Telling, S3!Bad
<1>2. /\ overall' = "none" /\ pc' # "ended" /\ exc' \in BOOLEAN /\ faults' \in 0..MaxFaults[program']
      /\ act' \in [Conns -> ActorStates]
  BY OutcomeTyped
  DEF StartStep, StartHpx, Base, Typed, SupervisorTypeOK, IslandTypeOK, Inside, ActorStates
<1>3. /\ root \in RootStates /\ stale \subseteq Conns /\ files \subseteq Files
      /\ cluster \in {"none", "head", "both", "down"}
  BY DEF Base, Typed, SupervisorTypeOK, IslandTypeOK
<1> QED BY <1>1, <1>2, <1>3, MovingStep DEF StartStep

\* Joining keeps what the programs share.
LEMMA JoiningFine ==
  ASSUME Base, NEW k \in Conns, Joining(k)
  PROVE  Fine
<1>1. Inside /\ UNCHANGED <<program, place>>
  BY DEF Joining, Inside, Conns
<1> QED BY <1>1, ActorFine, StartFine DEF Joining, Conns

\* JoinHealthStep keeps what the programs share.
LEMMA JoinHealthFine ==
  ASSUME Base, JoinHealthStep
  PROVE  Fine
<1>1. Inside /\ exc' \in BOOLEAN /\ pc' # "ended" /\ faults' \in 0..MaxFaults[program']
  BY OutcomeTyped DEF JoinHealthStep, Base, Typed, SupervisorTypeOK, Inside
<1>2. PICK oks \in [Conns -> BOOLEAN] :
        rec' = [x \in {<<arm, k, "join">> : k \in {c \in Conns : oks[c]}} |-> Members] @@ rec
  BY DEF JoinHealthStep
<1> DEFINE m == [x \in {<<arm, k, "join">> : k \in {c \in Conns : oks[c]}} |-> Members]
<1>3. MarkedBy(m, log')
  BY Mute DEF MarkedBy, Telling, S3!Bad
<1>4. Marked'
  BY <1>2, <1>3, MarkedMerge DEF JoinHealthStep, Base
<1> QED BY <1>1, <1>4, TellingStep DEF JoinHealthStep

\* A connector that stopped has left.
LEMMA StoppedTold ==
  ASSUME Base, program' = program, NEW k, NEW ok, StopHpx(k, ok, arm), Put(k, "stopped", ok)
  PROVE  Marked'
<1>1. log \subseteq log' /\ (ok = TRUE => <<arm, k, "left">> \in log')
  BY DEF StopHpx
<1>2. Holds(<<arm, k, "stopped">>, ok, log')
  BY <1>1 DEF Holds, S3!Bad
<1> QED BY <1>1, <1>2, MarkedPut DEF Put, Base

\* StopStep keeps what the programs share.
LEMMA StopFine ==
  ASSUME Base, UNCHANGED <<program, place>>, Inside, NEW k \in Conns, NEW last \in BOOLEAN,
         NEW next, next # "ended", StopStep(k, last, next)
  PROVE  Fine
<1>1. PICK ok \in BOOLEAN : StopHpx(k, ok, arm) /\ Put(k, "stopped", ok)
  BY DEF StopStep
<1>2. Marked'
  BY <1>1, StoppedTold DEF Base
<1>3. /\ overall' = "none" /\ pc' # "ended" /\ exc' \in BOOLEAN /\ faults' \in 0..MaxFaults[program']
      /\ act' \in [Conns -> ActorStates]
  BY <1>1, OutcomeTyped
  DEF StopStep, StopHpx, Base, Typed, SupervisorTypeOK, IslandTypeOK, Inside, ActorStates
<1>4. log \subseteq log' /\ \A e \in log' : e \in log \/ e[3] # "suspected_alive"
  BY <1>1 DEF StopHpx
<1>5. files' \subseteq Files /\ files \subseteq files' /\ files' \cap TellingFiles \subseteq files
  BY DEF StopStep, Base, Typed, SupervisorTypeOK, IslandTypeOK, Files, TellingFiles, S3!Bad
<1>6. root \in RootStates /\ stale \subseteq Conns /\ cluster \in {"none", "head", "both", "down"}
  BY DEF Base, Typed, SupervisorTypeOK, IslandTypeOK
<1> QED BY <1>2, <1>3, <1>4, <1>5, <1>6, MovingStep DEF StopStep

\* AwaitFinalStep keeps what the programs share.
LEMMA AwaitFinalFine ==
  ASSUME Base, NEW next, next # "ended", AwaitFinalStep(next)
  PROVE  Fine
<1>1. Inside /\ exc' \in BOOLEAN /\ pc' # "ended" /\ faults' \in 0..MaxFaults[program']
  BY OutcomeTyped DEF AwaitFinalStep, WaitForFile, Base, Typed, SupervisorTypeOK, Inside
<1>2. PICK ok \in BOOLEAN :
        /\ WaitForFile("final", ok)
        /\ IF ok THEN Put("root", "final_membership", finalMembers) ELSE UNCHANGED rec
  BY DEF AwaitFinalStep
<1>3. ok => Holds(<<arm, "root", "final_membership">>, finalMembers, log')
  <2>1. ok => (finalMembers = 1 => <<arm, "root", "alone">> \in log)
    BY <1>1, <1>2 DEF Base, FilesTrue, Saying, WaitForFile
  <2> QED BY <2>1 DEF AwaitFinalStep, Holds, S3!Bad
<1>4. Marked'
  BY <1>2, <1>3, MarkedPut, MarkedSame DEF AwaitFinalStep, Base, Put
<1> QED BY <1>1, <1>4, TellingStep DEF AwaitFinalStep

\* The root's exit path, once it has exited or was killed.
LEMMA ExitTold ==
  ASSUME Base, Inside, NEW path, WaitRoot(path)
  PROVE  Holds(<<arm, "root", "exit_path">>, path, log)
<1>1. path = "finalized_clean" => <<arm, "root", "clean">> \in log
  BY DEF WaitRoot, Base, FilesTrue, Saying
<1> QED BY <1>1 DEF Holds, S3!Bad

\* AwaitExitStep keeps what the programs share.
LEMMA AwaitExitFine ==
  ASSUME Base, NEW next, next # "ended", AwaitExitStep(next)
  PROVE  Fine
<1>1. Inside /\ exc' \in BOOLEAN /\ pc' # "ended" /\ overall' = "none"
  BY DEF AwaitExitStep, Base, Typed, SupervisorTypeOK, Inside
<1>2. PICK path \in ExitPaths : WaitRoot(path) /\ Put("root", "exit_path", path)
  BY DEF AwaitExitStep
<1>3. Marked'
  BY <1>1, <1>2, ExitTold, MarkedPut DEF AwaitExitStep, Base, Put
<1>4. faults' \in 0..MaxFaults[program'] /\ root' \in RootStates /\ root' \in {root, "dead"}
  BY <1>2, FaultTyped DEF AwaitExitStep, WaitRoot, Base, Typed, SupervisorTypeOK, IslandTypeOK,
     RootStates
<1>5. /\ act \in [Conns -> ActorStates] /\ stale \subseteq Conns /\ files \subseteq Files
      /\ cluster \in {"none", "head", "both", "down"}
  BY DEF Base, Typed, SupervisorTypeOK, IslandTypeOK
<1> QED BY <1>1, <1>3, <1>4, <1>5, MovingStep DEF AwaitExitStep

\* Workers are killed, and the root with them or not.
LEMMA KillingStep ==
  ASSUME Base, UNCHANGED <<program, place, cluster, files, finalMembers, faults, log, arm>>, Inside' => Inside,
         NEW ks \in SUBSET Conns, Killed(ks) \/ UNCHANGED <<act, stale>>, KilledRoot \/ UNCHANGED root,
         Marked', exc' \in BOOLEAN, SameRun, pc # "ended", pc' # "ended"
  PROVE  Fine
<1>1. act' \in [Conns -> ActorStates] /\ stale' \subseteq Conns
  BY DEF Base, Typed, SupervisorTypeOK, IslandTypeOK, Killed, ActorStates
<1>2. root' \in RootStates /\ root' \in {root, "dead"} /\ overall' = "none"
  BY DEF Base, Typed, SupervisorTypeOK, IslandTypeOK, KilledRoot, RootStates
<1>3. cluster \in {"none", "head", "both", "down"} /\ files \subseteq Files
  BY DEF Base, Typed, SupervisorTypeOK, IslandTypeOK
<1>4. faults' \in 0..MaxFaults[program']
  BY FaultTyped DEF Base
<1> QED BY <1>1, <1>2, <1>3, <1>4, MovingStep

\* DiscardStep keeps what the programs share.
LEMMA DiscardFine ==
  ASSUME Base, NEW next, next # "ended", DiscardStep(next)
  PROVE  Fine
<1>1. Marked'
  BY MarkedSame DEF DiscardStep, Base
<1>2. Inside /\ exc' \in BOOLEAN
  BY DEF DiscardStep, Inside, Base, Typed, SupervisorTypeOK
<1> QED BY <1>1, <1>2, KillingStep DEF DiscardStep

\* FinalizeStep keeps what the programs share.
LEMMA FinalizeFine ==
  ASSUME Base, FinalizeStep
  PROVE  Fine
<1>1. Marked'
  BY MarkedSame DEF FinalizeStep, Base
<1>2. ~Inside' /\ exc' \in BOOLEAN
  BY DEF FinalizeStep, Inside, Base, Typed, SupervisorTypeOK
<1> QED BY <1>1, <1>2, KillingStep DEF FinalizeStep

\* The verdict of a slice.
LEMMA SweepBase ==
  ASSUME Base, NEW result, result.overall \in {"pass", "fail"}, SweepStep(result)
  PROVE  Base'
<1>1. Marked'
  BY MarkedSame DEF SweepStep, Base
<1>2. ~Inside'
  BY DEF SweepStep, Finish, Inside
<1>3. Typed'
  BY FaultTyped DEF SweepStep, Finish, Base, Typed, SupervisorTypeOK, IslandTypeOK
<1>4. Suspected'
  BY SuspectedKept DEF SweepStep, Base
<1> QED BY <1>1, <1>2, <1>3, <1>4, OutsideTrue DEF Base

-----------------------------------------------------------------------------
(* Steps the repetitions share.                                            *)

\* Repetitions: RepActor keeps what the programs share.
LEMMA RepActorFine ==
  ASSUME Base, UNCHANGED <<program, place>>, Inside, NEW k \in Conns, NEW next, next # "ended",
         RepActor(k, next)
  PROVE  Fine
<1>1. ActorStep(k, next)
  BY DEF RepActor, ActorStep
<1> QED BY <1>1, ActorFine

\* Repetitions: RepLaunch keeps what the programs share.
LEMMA RepLaunchFine ==
  ASSUME Base, RepLaunch
  PROVE  Fine
<1>1. CASE NewIsland(arm) /\ Goto("ready") /\ UNCHANGED <<faults, exc>>
  BY <1>1, NewIslandFine DEF RepLaunch, Base, Typed, SupervisorTypeOK
<1>2. CASE Fault /\ Raise /\ UNCHANGED <<root, act, stale, files, finalMembers, log>>
  <2>1. Marked'
    BY <1>2, MarkedSame DEF RepLaunch, Base
  <2>2. ~Inside' /\ exc' \in BOOLEAN /\ overall' = "none" /\ faults' \in 0..MaxFaults[program']
    BY <1>2, FaultTyped DEF RepLaunch, Inside, Base, Typed, SupervisorTypeOK
  <2> QED BY <1>2, <2>1, <2>2, StillStep DEF RepLaunch
<1> QED BY <1>1, <1>2 DEF RepLaunch

\* A method of the actor class: what it changes.
LEMMA MethodTyped ==
  ASSUME Typed, program' = program, NEW k \in Conns, NEW method, NEW ok \in BOOLEAN, ActorMethod(k, method, ok)
  PROVE  /\ faults' \in 0..MaxFaults[program'] /\ act' \in [Conns -> ActorStates]
         /\ log \subseteq log' /\ \A e \in log' : e \in log \/ e = <<arm, k, "left">>
         /\ method = "stop_hpx" /\ ok => <<arm, k, "left">> \in log'
<1>1. faults' \in 0..MaxFaults[program']
  BY OutcomeTyped DEF ActorMethod, StartHpx, StopHpx, Health, RayGet
<1>2. act \in [Conns -> ActorStates]
  BY DEF Typed, SupervisorTypeOK, IslandTypeOK
<1>3. act' \in [Conns -> ActorStates]
  BY <1>2 DEF ActorMethod, StartHpx, StopHpx, ActorStates
<1>4. log \subseteq log' /\ \A e \in log' : e \in log \/ e = <<arm, k, "left">>
  BY DEF ActorMethod, StopHpx
<1>5. method = "stop_hpx" /\ ok => <<arm, k, "left">> \in log'
  BY DEF ActorMethod, StopHpx
<1> QED BY <1>1, <1>3, <1>4, <1>5

\* A step that calls a method and puts its markers.
LEMMA MethodStep ==
  ASSUME Base, UNCHANGED <<program, place, cluster, root, stale, files, finalMembers, exc>>, Same,
         Inside, pc' # "ended", Marked',
         NEW k \in Conns, NEW method, NEW ok \in BOOLEAN, ActorMethod(k, method, ok)
  PROVE  Fine
<1>0. /\ faults' \in 0..MaxFaults[program'] /\ act' \in [Conns -> ActorStates]
      /\ log \subseteq log' /\ \A e \in log' : e \in log \/ e = <<arm, k, "left">>
  BY MethodTyped DEF Base
<1>1. \A e \in log' : e \in log \/ e[3] # "suspected_alive"
  BY <1>0
<1>2. overall' = "none" /\ exc' \in BOOLEAN
  BY DEF Inside, Base, Typed, SupervisorTypeOK
<1>3. /\ root \in RootStates /\ stale \subseteq Conns /\ files \subseteq Files
      /\ cluster \in {"none", "head", "both", "down"}
  BY DEF Base, Typed, SupervisorTypeOK, IslandTypeOK
<1> QED BY <1>0, <1>1, <1>2, <1>3, MovingStep

\* Repetitions: RepStart keeps what the programs share.
LEMMA RepStartFine ==
  ASSUME Base, UNCHANGED <<program, place>>, Inside, NEW k \in Conns, NEW next, next # "ended",
         RepStart(k, ActorMethod, next)
  PROVE  Fine
<1>1. PICK ok, n :
        /\ ok \in BOOLEAN
        /\ ActorMethod(k, "start_hpx", ok)
        /\ rec' = (<<arm, k, "start">> :> ok) @@ (<<arm, k, "members">> :> n) @@ rec
  BY DEF RepStart
<1>2. log \subseteq log'
  BY <1>1, MethodTyped DEF Base
<1>3. Holds(<<arm, k, "start">>, ok, log') /\ Holds(<<arm, k, "members">>, n, log')
  BY Mute DEF Telling, S3!Bad
<1>4. MarkedBy((<<arm, k, "start">> :> ok) @@ (<<arm, k, "members">> :> n), log')
  BY <1>3, MarkedSingle, MarkAll
<1>5. Marked'
  BY <1>1, <1>2, <1>4, MarkedMerge DEF Base
<1> QED BY <1>1, <1>5, MethodStep DEF RepStart

\* Repetitions: RepChild keeps what the programs share.
LEMMA RepChildFine ==
  ASSUME Base, UNCHANGED <<program, place>>, Inside, NEW k \in Conns, NEW next, next # "ended",
         RepChild(k, ActorMethod, next)
  PROVE  Fine
<1>1. PICK ok \in BOOLEAN : ActorMethod(k, "child_report", ok) /\ Put(k, "child", ok)
  BY DEF RepChild
<1>2. log \subseteq log'
  BY <1>1, MethodTyped DEF Base
<1>3. Marked'
  BY <1>1, <1>2, MutePut DEF Base, Telling, S3!Bad
<1> QED BY <1>1, <1>3, MethodStep DEF RepChild

\* Repetitions: RepHealth keeps what the programs share.
LEMMA RepHealthFine ==
  ASSUME Base, UNCHANGED <<program, place>>, Inside, NEW k \in Conns, NEW next, next # "ended",
         RepHealth(k, ActorMethod, next)
  PROVE  Fine
<1>1. PICK ok \in BOOLEAN : ActorMethod(k, "health", ok) /\ Put(k, "health", ok)
  BY DEF RepHealth
<1>2. log \subseteq log'
  BY <1>1, MethodTyped DEF Base
<1>3. Marked'
  BY <1>1, <1>2, MutePut DEF Base, Telling, S3!Bad
<1> QED BY <1>1, <1>3, MethodStep DEF RepHealth

\* Repetitions: RepStop keeps what the programs share.
LEMMA RepStopFine ==
  ASSUME Base, UNCHANGED <<program, place>>, Inside, NEW k \in Conns, NEW next, next # "ended",
         RepStop(k, ActorMethod, next)
  PROVE  Fine
<1>1. PICK ok \in BOOLEAN : ActorMethod(k, "stop_hpx", ok) /\ Put(k, "stopped", ok)
  BY DEF RepStop
<1>2. log \subseteq log' /\ (ok = TRUE => <<arm, k, "left">> \in log')
  BY <1>1, MethodTyped DEF Base
<1>3. Holds(<<arm, k, "stopped">>, ok, log')
  BY <1>2 DEF Holds, S3!Bad
<1>4. Marked'
  BY <1>1, <1>2, <1>3, MarkedPut DEF Put, Base
<1> QED BY <1>1, <1>4, MethodStep DEF RepStop

\* Repetitions: RepJoin keeps what the programs share.
LEMMA RepJoinFine ==
  ASSUME Base, RepJoin(ActorMethod)
  PROVE  Fine
<1>1. Inside /\ UNCHANGED <<program, place>>
  BY DEF RepJoin, Inside
<1> QED BY <1>1, RepActorFine, RepStartFine, RepChildFine DEF RepJoin, Conns

\* Repetitions: RepHealths keeps what the programs share.
LEMMA RepHealthsFine ==
  ASSUME Base, RepHealths(ActorMethod)
  PROVE  Fine
<1>1. Inside /\ UNCHANGED <<program, place>>
  BY DEF RepHealths, Inside
<1> QED BY <1>1, RepHealthFine DEF RepHealths, Conns

\* Repetitions: RepStops keeps what the programs share.
LEMMA RepStopsFine ==
  ASSUME Base, RepStops(ActorMethod)
  PROVE  Fine
<1>1. Inside /\ UNCHANGED <<program, place>>
  BY DEF RepStops, Inside
<1> QED BY <1>1, RepStopFine DEF RepStops, Conns

\* Repetitions: RepWork keeps what the programs share.
LEMMA RepWorkFine ==
  ASSUME Base, program \in Repeated, NEW Results, program = "exp67" => Results \subseteq R67!Dispatches,
         program = "exp68" => Results \subseteq R68!CaseResults, RepWork(Results)
  PROVE  Fine
<1>1. /\ UNCHANGED <<program, place>> /\ Inside /\ overall' = "none" /\ exc' \in BOOLEAN /\ pc' # "ended"
      /\ faults' \in 0..MaxFaults[program']
  <2>1. UNCHANGED <<program, place>> /\ Inside /\ overall' = "none" /\ exc' \in BOOLEAN /\ pc' # "ended"
    BY DEF RepWork, Inside, Base, Typed, SupervisorTypeOK
  <2>2. faults' \in 0..MaxFaults[program']
    BY <2>1, OutcomeTyped, FaultTyped DEF RepWork, Base
  <2> QED BY <2>1, <2>2
<1>2. log \subseteq log' /\ \A e \in log' : e \in log \/ e[3] # "suspected_alive"
  BY DEF RepWork
<1>3. Marked'
  <2>1. CASE UNCHANGED rec
    BY <1>1, <1>2, <2>1, MarkedSame DEF Base
  <2>2. CASE \E r \in Results : /\ Put("run", "work", r)
                                /\ log' = IF r = "ok" THEN log \cup {<<arm, "run", "worked">>} ELSE log
    <3>1. PICK r \in Results : /\ Put("run", "work", r)
                               /\ log' = IF r = "ok" THEN log \cup {<<arm, "run", "worked">>} ELSE log
      BY <2>2
    <3>2. Holds(<<arm, "run", "work">>, r, log')
      BY <3>1 DEF Holds, S3!Bad, Slices, Repeated
    <3> QED BY <1>1, <1>2, <3>1, <3>2, MarkedPut DEF Put, Base
  <2> QED BY <2>1, <2>2 DEF RepWork
<1>4. /\ root \in RootStates /\ stale \subseteq Conns /\ files \subseteq Files /\ act \in [Conns -> ActorStates]
      /\ cluster \in {"none", "head", "both", "down"}
  BY DEF Base, Typed, SupervisorTypeOK, IslandTypeOK
<1> QED BY <1>1, <1>2, <1>3, <1>4, MovingStep DEF RepWork

\* The diagnostic says nothing.
LEMMA SaturateFine ==
  ASSUME Base, At("saturate"), Goto("stop_a"), SameIsland, UNCHANGED exc, Same,
         \/ UNCHANGED <<rec, faults>>
         \/ \E v, ok, can : Outcome(ok, can) /\ Put("run", "saturation", v)
  PROVE  Fine
<1>1. Inside /\ exc' \in BOOLEAN /\ pc' # "ended" /\ faults' \in 0..MaxFaults[program']
  BY OutcomeTyped, FaultTyped DEF Base, Typed, SupervisorTypeOK, Inside
<1>2. Marked'
  BY MutePut, MarkedSame DEF Base, Telling, S3!Bad
<1> QED BY <1>1, <1>2, TellingStep

\* Repetitions: RepDestroyed keeps what the programs share.
LEMMA RepDestroyedFine ==
  ASSUME Base, NEW local \in BOOLEAN, RepDestroyed(local)
  PROVE  Fine
<1>1. Inside /\ exc' \in BOOLEAN /\ pc' # "ended" /\ faults' \in 0..MaxFaults[program']
  BY OutcomeTyped DEF RepDestroyed, WaitPidGone, Base, Typed, SupervisorTypeOK, Inside
<1>2. Marked'
  BY MutePut DEF RepDestroyed, Base, Telling, S3!Bad
<1> QED BY <1>1, <1>2, TellingStep DEF RepDestroyed

\* Repetitions: RepRecreate keeps what the programs share.
LEMMA RepRecreateFine ==
  ASSUME Base, RepRecreate
  PROVE  Fine
<1>1. PICK bad \in {"none"} \cup Conns :
        /\ Outcome(bad = "none", TRUE)
        /\ rec' = [x \in {<<arm, k, "recreate">> : k \in Conns} |-> x[2] # bad] @@ rec
  BY DEF RepRecreate
<1> DEFINE m == [x \in {<<arm, k, "recreate">> : k \in Conns} |-> x[2] # bad]
<1>2. MarkedBy(m, log')
  BY Mute DEF MarkedBy, Telling, S3!Bad
<1>3. Marked'
  BY <1>1, <1>2, MarkedMerge DEF RepRecreate, Base
<1>4. /\ Inside /\ exc' \in BOOLEAN /\ pc' # "ended" /\ overall' = "none" /\ faults' \in 0..MaxFaults[program']
      /\ act' \in [Conns -> ActorStates]
  BY <1>1, OutcomeTyped DEF RepRecreate, Base, Typed, SupervisorTypeOK, Inside, ActorStates
<1>5. files' \subseteq Files /\ files \subseteq files' /\ files' \cap TellingFiles \subseteq files
  BY DEF RepRecreate, Base, Typed, SupervisorTypeOK, IslandTypeOK, Files, TellingFiles, S3!Bad
<1>6. root \in RootStates /\ stale \subseteq Conns /\ cluster \in {"none", "head", "both", "down"}
  BY DEF Base, Typed, SupervisorTypeOK, IslandTypeOK
<1> QED BY <1>3, <1>4, <1>5, <1>6, MovingStep DEF RepRecreate

\* The look for leftovers says nothing that rests on what happened.
LEMMA GoneFine ==
  ASSUME Base, At("gone"), Goto("finally"), SameIsland, UNCHANGED exc, Same,
         NEW ok, NEW can, Outcome(ok, can),
         NEW u, NEW v, rec' = (<<arm, "run", "no_orphans">> :> u) @@ (<<arm, "run", "swept">> :> v) @@ rec
  PROVE  Fine
<1>1. Inside /\ exc' \in BOOLEAN /\ pc' # "ended" /\ faults' \in 0..MaxFaults[program']
  BY OutcomeTyped DEF Base, Typed, SupervisorTypeOK, Inside
<1>2. Holds(<<arm, "run", "no_orphans">>, u, log') /\ Holds(<<arm, "run", "swept">>, v, log')
  BY Mute DEF Telling, S3!Bad
<1>3. MarkedBy((<<arm, "run", "no_orphans">> :> u) @@ (<<arm, "run", "swept">> :> v), log')
  BY <1>2, MarkedSingle, MarkAll
<1>4. Marked'
  BY <1>3, MarkedMerge DEF Base
<1> QED BY <1>1, <1>4, TellingStep

\* Repetitions: RepRetire keeps what the programs share.
LEMMA RepRetireFine ==
  ASSUME Base, NEW local \in BOOLEAN, RepRetire(local)
  PROVE  Fine
<1>1. CASE At("retire")
  <2>1. Marked'
    BY <1>1, MarkedSame DEF RepRetire, Base
  <2>2. Inside /\ exc' \in BOOLEAN
    BY <1>1 DEF RepRetire, Inside, Base, Typed, SupervisorTypeOK
  <2> QED BY <1>1, <2>1, <2>2, KillingStep DEF RepRetire
<1>2. CASE At("gone")
  BY <1>2, GoneFine DEF RepRetire, WaitPidGone
<1> QED BY <1>1, <1>2 DEF RepRetire

\* Repetitions: RepFinally keeps what the programs share.
LEMMA RepFinallyFine ==
  ASSUME Base, program \in Repeated \ {"exp65"}, RepFinally
  PROVE  Fine
<1>1. Marked'
  BY MarkedSame DEF RepFinally, Base
<1>2. ~Inside' /\ exc' \in BOOLEAN
  BY DEF RepFinally, Inside, Base, Typed, SupervisorTypeOK
<1> QED BY <1>1, <1>2, KillingStep DEF RepFinally

\* A repetition is counted as passed on its evidence; its other markers go.
LEMMA RepVerdictFine ==
  ASSUME Base, program \in Repeated, NEW c, c = "pass" => RepEvidence(arm) \subseteq log, RepVerdict(c)
  PROVE  Fine
<1> DEFINE kept == [x \in {y \in DOMAIN rec : y[3] \in {"class", "attested", "soak", "batches"}} |-> rec[x]]
           x == <<arm, "rep", "class">>
<1>1. UNCHANGED <<program, place, faults, exc>> /\ SameIsland /\ SameRun /\ rec' = (x :> c) @@ kept
  BY DEF RepVerdict
<1>2. MarkedBy(kept, log)
  BY DEF MarkedBy, Base, Marked
<1>3. Holds(x, c, log)
  BY DEF Holds, S3!Bad
<1>4. Marked'
  BY <1>1, <1>2, <1>3, MarkOne, MarkedAfter
<1>5. ~Inside' /\ pc' # "ended" /\ overall = "none"
  BY DEF RepVerdict, Inside, Base, Typed, SupervisorTypeOK
<1>6. arm' \in {"rep1", "rep2"}
  BY DEF RepVerdict, Reps, Base, Typed
<1>7. Typed'
  BY <1>1, <1>5, <1>6, FaultTyped DEF Base, Typed, SupervisorTypeOK, IslandTypeOK
<1>8. Suspected'
  BY <1>1, SuspectedKept DEF Base
<1> QED BY <1>1, <1>4, <1>5, <1>7, <1>8, OutsideTrue DEF Base, Fine

\* The end of a phase: any verdict, on an island that is left as it is.
LEMMA EndBase ==
  ASSUME Base, NEW v \in {"pass", "fail", "crash"}, NEW c, Finish(v, c),
         UNCHANGED <<program, place, root, act, stale, files, finalMembers, log, arm, rec, exc>>,
         cluster' \in {"none", "head", "both", "down"}, faults' \in 0..MaxFaults[program']
  PROVE  Base'
<1>1. Marked'
  BY MarkedSame DEF Base
<1>2. ~Inside'
  BY DEF Finish, Inside
<1>3. Typed'
  BY DEF Finish, Base, Typed, SupervisorTypeOK, IslandTypeOK
<1>4. Suspected'
  BY SuspectedKept DEF Base
<1> QED BY <1>1, <1>2, <1>3, <1>4, OutsideTrue DEF Base

\* A local run of repetitions ends with its last class.
LEMMA LocalEndBase ==
  ASSUME Base, LocalEnd
  PROVE  Base'
<1>1. faults' \in 0..MaxFaults[program'] /\ cluster' \in {"none", "head", "both", "down"}
  BY FaultTyped DEF LocalEnd, Base, Typed, SupervisorTypeOK, IslandTypeOK
<1> QED BY <1>1, EndBase DEF LocalEnd

\* So does a cross-node run.
LEMMA CrossEndBase ==
  ASSUME Base, CrossEnd
  PROVE  Base'
<1>1. faults' \in 0..MaxFaults[program'] /\ cluster' \in {"none", "head", "both", "down"}
  BY OutcomeTyped DEF CrossEnd, Base, Typed, SupervisorTypeOK, IslandTypeOK
<1> QED BY <1>1, EndBase DEF CrossEnd

-----------------------------------------------------------------------------
(* The processes.                                                          *)

\* There are two connectors.
LEMMA ConnsTwo == IsFiniteSet(Conns) /\ Cardinality(Conns) = 2
<1>1. IsFiniteSet({}) /\ Cardinality({}) = 0
  BY FS_EmptySet
<1>2. IsFiniteSet({} \cup {"a"}) /\ Cardinality({} \cup {"a"}) = 1
  BY <1>1, FS_AddElement
<1>3. IsFiniteSet(({} \cup {"a"}) \cup {"b"}) /\ Cardinality(({} \cup {"a"}) \cup {"b"}) = 2
  BY <1>2, FS_AddElement
<1>4. ({} \cup {"a"}) \cup {"b"} = Conns
  BY DEF Conns
<1> QED BY <1>3, <1>4

\* The root sees itself and two connectors at most.
LEMMA MembersTyped ==
  ASSUME Typed
  PROVE  Members \in 1..3
<1> DEFINE T == {k \in Conns : act[k] = "joined"} \cup stale
<1>1. T \subseteq Conns
  BY DEF Typed, SupervisorTypeOK, IslandTypeOK
<1>2. IsFiniteSet(T) /\ Cardinality(T) <= 2
  BY <1>1, ConnsTwo, FS_Subset
<1>3. Cardinality(T) \in Nat
  BY <1>2, FS_CardinalityType
<1>4. Members = 1 + Cardinality(T)
  BY DEF Members
<1> HIDE DEF T
<1> QED BY <1>2, <1>3, <1>4

\* A step of the processes: the driver stands still.
LEMMA EnvStep ==
  ASSUME Base, UNCHANGED driverVars, UNCHANGED <<place, cluster>>, root' \in RootStates,
         act' \in [Conns -> ActorStates], stale' \subseteq Conns, files' \subseteq Files, finalMembers' \in 0..3,
         faults' \in 0..MaxFaults[program'],
         log \subseteq log', \A e \in log' : e \in log \/ e[3] # "suspected_alive",
         Inside => Saying(arm, root', files', finalMembers', log')
  PROVE  Base'
<1>1. Typed'
  BY DEF driverVars, Base, Typed, SupervisorTypeOK, IslandTypeOK
<1>2. Marked'
  BY MarkedSame DEF driverVars, Base
<1>3. FilesTrue'
  BY DEF driverVars, FilesTrue, Inside, Saying, S3!Bad
<1>4. Suspected'
  BY SuspectedKept DEF driverVars, Base
<1> QED BY <1>1, <1>2, <1>3, <1>4 DEF Base

\* What is true of the island before the step.
LEMMA EnvBefore ==
  ASSUME Base
  PROVE  /\ place \in {"local", "cross"} /\ cluster \in {"none", "head", "both", "down"} /\ root \in RootStates
         /\ act \in [Conns -> ActorStates] /\ stale \subseteq Conns /\ files \subseteq Files
         /\ finalMembers \in 0..3 /\ faults \in 0..MaxFaults[program] /\ MaxFaults[program] \in Nat
         /\ Members \in 1..3
         /\ Inside => Saying(arm, root, files, finalMembers, log)
<1>1. MaxFaults[program] \in Nat
  BY BoundsAssumption DEF Base, Typed
<1> QED BY <1>1, MembersTyped DEF Base, Typed, SupervisorTypeOK, IslandTypeOK, FilesTrue

\* The root's own steps: its files and its state follow what it did.
LEMMA RootSteps ==
  ASSUME Base, UNCHANGED driverVars,
         RootBoot \/ RootLeave(arm) \/ RootLeaveTimeout \/ RootExit(arm) \/ RootResume
         \/ RootCrash \/ RootStall(arm) \/ (RootGivesUp /\ Fault)
  PROVE  Base'
<1>0. program' = program
  BY DEF driverVars
<1>1. CASE RootBoot
  BY <1>0, <1>1, EnvBefore, EnvStep DEF RootBoot, RootStates, Files, Saying, S3!Bad
<1>2. CASE RootLeave(arm)
  BY <1>0, <1>2, EnvBefore, EnvStep DEF RootLeave, RootStates, Files, Saying, S3!Bad
<1>3. CASE RootGivesUp /\ (UNCHANGED faults \/ Fault)
  <2>1. faults' \in 0..MaxFaults[program']
    BY <1>0, <1>3, FaultTyped DEF Base
  <2>2. finalMembers' \in 0..3 /\ finalMembers' # 1
    BY <1>3, EnvBefore DEF RootGivesUp
  <2> QED BY <1>0, <1>3, <2>1, <2>2, EnvBefore, EnvStep DEF RootGivesUp, RootStates, Files, Saying,
             S3!Bad
<1>4. CASE RootExit(arm)
  BY <1>0, <1>4, EnvBefore, EnvStep DEF RootExit, RootStates, Saying, S3!Bad
<1>5. CASE RootResume
  BY <1>0, <1>5, EnvBefore, EnvStep DEF RootResume, RootStates, Saying, S3!Bad
<1>6. CASE RootCrash
  <2>1. faults' \in 0..MaxFaults[program']
    BY <1>0, <1>6, FaultTyped DEF RootCrash, Base
  <2> QED BY <1>0, <1>6, <2>1, EnvBefore, EnvStep DEF RootCrash, RootStates, Saying, S3!Bad
<1>7. CASE RootStall(arm)
  <2>1. faults' \in 0..MaxFaults[program']
    BY <1>0, <1>7, FaultTyped DEF RootStall, Base
  <2> QED BY <1>0, <1>7, <2>1, EnvBefore, EnvStep DEF RootStall, RootStates, Saying, S3!Bad
<1> QED BY <1>1, <1>2, <1>3, <1>4, <1>5, <1>6, <1>7 DEF RootLeaveTimeout

\* A connector that goes leaves the files and the root as they are.
LEMMA ActorSteps ==
  ASSUME Base, UNCHANGED driverVars, NEW k \in Conns, ActorGone(k) \/ ActorCrash(k)
  PROVE  Base'
<1>0. program' = program
  BY DEF driverVars
<1>1. CASE ActorGone(k)
  BY <1>0, <1>1, EnvBefore, EnvStep DEF ActorGone, ActorStates
<1>2. CASE ActorCrash(k)
  <2>1. faults' \in 0..MaxFaults[program']
    BY <1>0, <1>2, FaultTyped DEF ActorCrash, Base
  <2> QED BY <1>0, <1>2, <2>1, EnvBefore, EnvStep DEF ActorCrash, ActorStates
<1> QED BY <1>1, <1>2

\* How the island drifts without its driver: what is gone stays gone.
Drift ==
    /\ UNCHANGED driverVars /\ UNCHANGED <<place, cluster>>
    /\ RootAlive' => RootAlive
    /\ root = "none" => root' = "none"
    /\ \A k \in Conns : act[k] \in {"none", "dead"} => act'[k] = act[k]
    /\ Running' \subseteq Running

\* And, where the connectors are actors of the driver, what it may have said.
SlowDrift ==
    /\ Drift
    /\ files \subseteq files' /\ files' \subseteq files \cup {"ready", "final"}
    /\ "ready" \in files' => "ready" \in files \/ (root = "booting" /\ root' = "serving")
    /\ root' = "booting" => root = "booting" /\ files' = files
    /\ root' = "leaving" => root = "leaving" \/ "done" \in files
    /\ \A k \in Conns : /\ act'[k] = "left" => act[k] = "left"
                        /\ act'[k] = "none" <=> act[k] = "none"
                        /\ act[k] \in {"dying", "dead"} => act'[k] \in {"dying", "dead"}
    /\ log \subseteq log'
    /\ \A e \in log' : e \in log \/ e[3] \in {"alone", "clean", "stalled"}

\* All the processes of an island, and what may befall them.
LEMMA ProgressSteps ==
  ASSUME Base, UNCHANGED driverVars, Progress(arm) \/ Mishap(arm)
  PROVE  Base' /\ SlowDrift
<1>1. Base'
  BY RootSteps, ActorSteps DEF Progress, Mishap
<1>2. act \in [Conns -> ActorStates]
  BY EnvBefore
<1>3. ASSUME RootBoot \/ RootLeave(arm) \/ RootLeaveTimeout \/ RootExit(arm) \/ RootResume
             \/ RootCrash \/ RootStall(arm)
      PROVE  SlowDrift
  BY <1>3 DEF SlowDrift, Drift, RootAlive, Running, RootBoot, RootLeave, RootLeaveTimeout, RootGivesUp,
     RootExit, RootResume, RootCrash, RootStall
<1>4. ASSUME NEW k \in Conns, ActorGone(k) \/ ActorCrash(k)
      PROVE  SlowDrift
  <2>1. Running' \subseteq Running
    BY <1>2, <1>4 DEF ActorGone, ActorCrash, Running
  <2>2. \A j \in Conns : /\ act[j] \in {"none", "dead"} => act'[j] = act[j]
                         /\ act'[j] = "left" => act[j] = "left"
                         /\ act'[j] = "none" <=> act[j] = "none"
                         /\ act[j] \in {"dying", "dead"} => act'[j] \in {"dying", "dead"}
    BY <1>2, <1>4 DEF ActorGone, ActorCrash, Running
  <2> QED BY <1>4, <2>1, <2>2 DEF SlowDrift, Drift, RootAlive, ActorGone, ActorCrash
<1> QED BY <1>1, <1>3, <1>4 DEF Progress, Mishap

\* The processes of experiment 65.
LEMMA Same65 ==
  /\ R65!RootBoot => RootBoot
  /\ R65!RootExit(arm) => RootExit(arm)
  /\ R65!RootResume => RootResume
  /\ R65!ActorGone("a") => ActorGone("a")
  /\ R65!Members = Members
  /\ R65!RootServes <=> RootServes
  /\ R65!Fault <=> Fault
  /\ \A ok, can : R65!Outcome(ok, can) <=> Outcome(ok, can)
<1>1. R65!RootBoot => RootBoot
  BY DEF R65!RootBoot, RootBoot
<1>2. R65!RootExit(arm) => RootExit(arm)
  BY DEF R65!RootExit, RootExit
<1>3. R65!RootResume => RootResume
  BY DEF R65!RootResume, RootResume
<1>4. R65!ActorGone("a") => ActorGone("a")
  BY DEF R65!ActorGone, ActorGone
<1>5. R65!Members = Members
  BY DEF R65!Members, Members, R65!Conns, Conns, R65!Cardinality, Cardinality
<1>6. R65!RootServes <=> RootServes
  BY DEF R65!RootServes, RootServes
<1>7. R65!Fault <=> Fault
  BY DEF R65!Fault, Fault
<1>8. \A ok, can : R65!Outcome(ok, can) <=> Outcome(ok, can)
  BY <1>7 DEF R65!Outcome, Outcome
<1> QED BY <1>1, <1>2, <1>3, <1>4, <1>5, <1>6, <1>7, <1>8

\* The processes of experiment 65 write a file after what it tells of.
LEMMA Steps65 ==
  ASSUME Base, UNCHANGED driverVars, R65!Processes
  PROVE  Base' /\ Drift /\ act'["b"] = act["b"]
<1> USE DEF R65!SameProcesses
<1>0. program' = program /\ "a" \in Conns /\ "b" \in Conns
  BY DEF driverVars, Conns
<1>1. CASE R65!RootLocalPhase
  <2>1. Base'
    BY <1>0, <1>1, EnvBefore, EnvStep DEF R65!RootLocalPhase, RootStates, Files, Saying, S3!Bad
  <2> QED BY <1>1, <2>1 DEF R65!RootLocalPhase, Drift, RootAlive, Running
<1>2. CASE R65!RootAdmits
  <2>1. Base'
    BY <1>0, <1>2, EnvBefore, EnvStep DEF R65!RootAdmits, RootStates, Files, Saying, S3!Bad
  <2> QED BY <1>2, <2>1 DEF R65!RootAdmits, Drift, RootAlive, Running
<1>3. CASE R65!RootDispatches
  <2>1. PICK ok \in BOOLEAN :
          /\ Outcome(ok, act["a"] = "joined")
          /\ files' = files \cup {"done", IF ok THEN "served" ELSE "unserved"}
          /\ log' = IF ok THEN log \cup {<<arm, "run", "worked">>} ELSE log
    BY <1>3, Same65 DEF R65!RootDispatches
  <2>2. faults' \in 0..MaxFaults[program']
    BY <1>0, <2>1, OutcomeTyped DEF Base
  <2>3. Inside => Saying(arm, root', files', finalMembers', log')
    BY <1>3, <2>1, EnvBefore DEF R65!RootDispatches, Saying, S3!Bad
  <2>4. files' \subseteq Files /\ log \subseteq log' /\ \A e \in log' : e \in log \/ e[3] # "suspected_alive"
    BY <2>1, EnvBefore DEF Files
  <2>5. Base'
    BY <1>3, <2>2, <2>3, <2>4, EnvBefore, EnvStep DEF R65!RootDispatches
  <2> QED BY <1>3, <2>5 DEF R65!RootDispatches, Drift, RootAlive, Running
<1>4. CASE R65!RootSeesLeave
  <2>1. faults' \in 0..MaxFaults[program']
    BY <1>0, <1>4, Same65, FaultTyped DEF R65!RootSeesLeave, Base
  <2>2. files' \subseteq Files /\ finalMembers' \in 0..3 /\ log \subseteq log'
        /\ \A e \in log' : e \in log \/ e[3] # "suspected_alive"
    BY <1>4, EnvBefore DEF R65!RootSeesLeave, Files
  <2>3. Inside => Saying(arm, root', files', finalMembers', log')
    BY <1>4, EnvBefore DEF R65!RootSeesLeave, Saying, S3!Bad
  <2>4. Base'
    BY <1>4, <2>1, <2>2, <2>3, EnvBefore, EnvStep DEF R65!RootSeesLeave, RootStates
  <2> QED BY <1>4, <2>4 DEF R65!RootSeesLeave, Drift, RootAlive, Running
<1>5. CASE R65!RootWaitEnds
  <2>1. faults' \in 0..MaxFaults[program']
    BY <1>0, <1>5, Same65, FaultTyped DEF R65!RootWaitEnds, Base
  <2>2. /\ finalMembers' = Members
        /\ log' = IF Members = 1 THEN log \cup {<<arm, "root", "alone">>} ELSE log
    BY <1>5, Same65 DEF R65!RootWaitEnds
  <2>3. Inside => Saying(arm, root', files', finalMembers', log')
    BY <1>5, <2>2, EnvBefore DEF R65!RootWaitEnds, Saying, S3!Bad
  <2>4. files' \subseteq Files /\ finalMembers' \in 0..3 /\ log \subseteq log'
        /\ \A e \in log' : e \in log \/ e[3] # "suspected_alive"
    BY <1>5, <2>2, EnvBefore DEF R65!RootWaitEnds, Files
  <2>5. Base'
    BY <1>5, <2>1, <2>3, <2>4, EnvBefore, EnvStep DEF R65!RootWaitEnds, RootStates
  <2> QED BY <1>5, <2>5 DEF R65!RootWaitEnds, Drift, RootAlive, Running
<1>6. CASE R65!ConnectorJoins
  <2>1. act' \in [Conns -> ActorStates] /\ files' \subseteq Files
    BY <1>0, <1>6, EnvBefore DEF R65!ConnectorJoins, ActorStates, Files
  <2>2. Inside => Saying(arm, root', files', finalMembers', log')
    BY <1>6, EnvBefore DEF R65!ConnectorJoins, Saying, S3!Bad
  <2>3. Base'
    BY <1>0, <1>6, <2>1, <2>2, EnvBefore, EnvStep DEF R65!ConnectorJoins
  <2> QED BY <1>0, <1>6, <2>3, EnvBefore DEF R65!ConnectorJoins, Drift, RootAlive, Running
<1>7. CASE R65!ConnectorLeaves
  <2>1. act' \in [Conns -> ActorStates] /\ files' \subseteq Files
    BY <1>0, <1>7, EnvBefore DEF R65!ConnectorLeaves, ActorStates, Files
  <2>2. Inside => Saying(arm, root', files', finalMembers', log')
    BY <1>7, EnvBefore DEF R65!ConnectorLeaves, Saying, S3!Bad
  <2>3. log \subseteq log' /\ \A e \in log' : e \in log \/ e[3] # "suspected_alive"
    BY <1>7 DEF R65!ConnectorLeaves
  <2>4. Base'
    BY <1>0, <1>7, <2>1, <2>2, <2>3, EnvBefore, EnvStep DEF R65!ConnectorLeaves
  <2> QED BY <1>0, <1>7, <2>4, EnvBefore DEF R65!ConnectorLeaves, Drift, RootAlive, Running
<1>8. CASE R65!ConnectorExits
  <2>1. act' \in [Conns -> ActorStates] /\ files' \subseteq Files
    BY <1>0, <1>8, EnvBefore DEF R65!ConnectorExits, ActorStates, Files
  <2>2. Inside => Saying(arm, root', files', finalMembers', log')
    BY <1>8, EnvBefore DEF R65!ConnectorExits, Saying, S3!Bad
  <2>3. Base'
    BY <1>0, <1>8, <2>1, <2>2, EnvBefore, EnvStep DEF R65!ConnectorExits
  <2> QED BY <1>0, <1>8, <2>3, EnvBefore DEF R65!ConnectorExits, Drift, RootAlive, Running
<1>9. CASE R65!RootBoot \/ R65!RootExit(arm) \/ R65!RootResume
  <2>1. RootBoot \/ RootExit(arm) \/ RootResume
    BY <1>9, Same65
  <2>2. Base' /\ SlowDrift
    BY <2>1, ProgressSteps DEF Progress
  <2> QED BY <2>1, <2>2 DEF SlowDrift, RootBoot, RootExit, RootResume
<1>10. CASE R65!ActorGone("a")
  <2>1. ActorGone("a")
    BY <1>10, Same65
  <2>2. Base' /\ SlowDrift
    BY <1>0, <2>1, ProgressSteps DEF Progress
  <2> QED BY <1>0, <2>1, <2>2, EnvBefore DEF SlowDrift, ActorGone
<1> QED BY <1>1, <1>2, <1>3, <1>4, <1>5, <1>6, <1>7, <1>8, <1>9, <1>10 DEF R65!Processes

\* The processes of experiment 66.
LEMMA Same66 ==
  /\ R66!RootBoot => RootBoot
  /\ R66!RootLeave(arm) => RootLeave(arm)
  /\ R66!RootLeaveTimeout => RootLeaveTimeout
  /\ R66!RootExit(arm) => RootExit(arm)
  /\ R66!RootResume => RootResume
  /\ \A k : R66!ActorGone(k) => ActorGone(k)
  /\ R66!LeaveTooSlow => RootGivesUp /\ Fault
  /\ R66!RootServes <=> RootServes
  /\ R66!RootAlive <=> RootAlive
<1>1. R66!Members = Members
  BY DEF R66!Members, Members, R66!Conns, Conns, R66!Cardinality, Cardinality
<1>2. R66!RootBoot => RootBoot
  BY DEF R66!RootBoot, RootBoot
<1>3. R66!RootLeave(arm) => RootLeave(arm)
  BY <1>1 DEF R66!RootLeave, RootLeave
<1>4. R66!RootGivesUp => RootGivesUp
  BY <1>1 DEF R66!RootGivesUp, RootGivesUp
<1>5. R66!LeaveTooSlow => RootGivesUp /\ Fault
  BY <1>4 DEF R66!LeaveTooSlow, R66!Fault, Fault
<1> QED BY <1>2, <1>3, <1>4, <1>5
    DEF R66!RootLeaveTimeout, RootLeaveTimeout, R66!RootExit, RootExit, R66!RootResume, RootResume,
        R66!ActorGone, ActorGone, R66!RootServes, RootServes, R66!RootAlive, RootAlive

\* So does the prober of experiment 66.
LEMMA Steps66 ==
  ASSUME Base, UNCHANGED driverVars, R66!Processes \/ R66!LeaveTooSlow
  PROVE  Base' /\ Drift
<1> USE DEF R66!ProberSame, R66!Prober
<1>0. program' = program /\ "a" \in Conns /\ "b" \in Conns
  BY DEF driverVars, Conns
<1>1. CASE R66!ProberJoin
  <2>1. act' \in [Conns -> ActorStates] /\ files' \subseteq Files
    BY <1>0, <1>1, EnvBefore DEF R66!ProberJoin, ActorStates, Files
  <2>2. Inside => Saying(arm, root', files', finalMembers', log')
    BY <1>1, EnvBefore DEF R66!ProberJoin, Saying, S3!Bad
  <2>3. Base'
    BY <1>0, <1>1, <2>1, <2>2, EnvBefore, EnvStep DEF R66!ProberJoin
  <2> QED BY <1>0, <1>1, <2>3, EnvBefore DEF R66!ProberJoin, Drift, RootAlive, Running
<1>2. CASE R66!ProberProbe
  <2>1. /\ files' \subseteq Files /\ log \subseteq log'
        /\ \A e \in log' : e \in log \/ e[3] # "suspected_alive"
    BY <1>2, EnvBefore DEF R66!ProberProbe, Files
  <2>2. Inside => Saying(arm, root', files', finalMembers', log')
    BY <1>2, EnvBefore DEF R66!ProberProbe, Saying, S3!Bad
  <2>3. Base'
    BY <1>0, <1>2, <2>1, <2>2, EnvBefore, EnvStep DEF R66!ProberProbe
  <2> QED BY <1>2, <2>3 DEF R66!ProberProbe, Drift, RootAlive, Running
<1>3. CASE R66!ProberLeave
  <2>1. act' \in [Conns -> ActorStates] /\ files' \subseteq Files
    BY <1>0, <1>3, EnvBefore DEF R66!ProberLeave, ActorStates, Files
  <2>2. Inside => Saying(arm, root', files', finalMembers', log')
    BY <1>3, EnvBefore DEF R66!ProberLeave, Saying, S3!Bad
  <2>3. log \subseteq log' /\ \A e \in log' : e \in log \/ e[3] # "suspected_alive"
    BY <1>3 DEF R66!ProberLeave
  <2>4. Base'
    BY <1>0, <1>3, <2>1, <2>2, <2>3, EnvBefore, EnvStep DEF R66!ProberLeave
  <2> QED BY <1>0, <1>3, <2>4, EnvBefore DEF R66!ProberLeave, Drift, RootAlive, Running
<1>4. CASE R66!ProberExit
  <2>1. act' \in [Conns -> ActorStates]
    BY <1>0, <1>4, EnvBefore DEF R66!ProberExit, ActorStates
  <2>2. Base'
    BY <1>0, <1>4, <2>1, EnvBefore, EnvStep DEF R66!ProberExit
  <2> QED BY <1>0, <1>4, <2>2, EnvBefore DEF R66!ProberExit, Drift, RootAlive, Running
<1>5. ASSUME RootBoot \/ RootLeave(arm) \/ RootLeaveTimeout \/ RootExit(arm) \/ RootResume
             \/ ActorGone("a") \/ ActorGone("b")
      PROVE  Base' /\ Drift
  BY <1>0, <1>5, ProgressSteps DEF Progress, SlowDrift
<1>6. CASE R66!LeaveTooSlow
  <2>1. RootGivesUp /\ Fault
    BY <1>6, Same66
  <2>2. Base'
    BY <2>1, RootSteps
  <2> QED BY <2>1, <2>2 DEF RootGivesUp, Drift, RootAlive, Running
<1> QED BY <1>1, <1>2, <1>3, <1>4, <1>5, <1>6, Same66 DEF R66!Processes

\* The root of slice 3b.
LEMMA StepsNative ==
  ASSUME Base, UNCHANGED driverVars, S3!RootNative
  PROVE  /\ Base' /\ Drift /\ UNCHANGED act
         /\ log \subseteq log' /\ \A e \in log' : e \in log \/ e[3] \notin Alarms
<1>0. program' = program
  BY DEF driverVars
<1>1. \A ok, can : S3!Outcome(ok, can) => Outcome(ok, can)
  BY DEF S3!Outcome, S3!Fault, Outcome, Fault
<1>2. CASE S3!RootFinishes
  <2>1. faults' \in 0..MaxFaults[program']
    BY <1>0, <1>1, <1>2, OutcomeTyped DEF S3!RootFinishes, Base
  <2>2. Base'
    BY <1>2, <2>1, EnvBefore, EnvStep DEF S3!RootFinishes, RootStates, Saying, S3!Bad
  <2> QED BY <1>2, <2>2 DEF S3!RootFinishes, Drift, RootAlive, Running
<1>3. CASE S3!RootSupervised
  <2>1. PICK m \in DOMAIN S3!Bad \cup {"root_joined", "effect", "replace"}, ok \in BOOLEAN :
          /\ m \notin files
          /\ Outcome(ok, m = "verified" => S3!Joined3b)
          /\ ~ok => m \in DOMAIN S3!Bad
          /\ files' = files \cup {m} \cup (IF ok THEN {} ELSE {S3!Bad[m]})
          /\ root' = IF ~ok /\ m \in {"verified", "fencing"} THEN "dead"
                     ELSE IF m = "result" THEN "leaving" ELSE root
          /\ stale' = IF ok /\ m = "force" THEN stale \ {"b"} ELSE stale
          /\ log' = IF ok THEN log \cup {<<arm, "root", m>>} ELSE log
    BY <1>1, <1>3 DEF S3!RootSupervised, S3!NextMarker
  <2>2. faults' \in 0..MaxFaults[program']
    BY <1>0, <2>1, OutcomeTyped DEF Base
  <2>3. m \in {"verified", "fencing", "force", "result", "root_joined", "effect", "replace"}
    BY DEF S3!Bad
  <2>4. files' \subseteq Files /\ stale' \subseteq Conns /\ root' \in RootStates
    BY <2>1, <2>3, EnvBefore DEF Files, S3!Bad, RootStates
  <2>5. log \subseteq log' /\ \A e \in log' : e \in log \/ e[3] \notin Alarms
    BY <2>1, <2>3 DEF Alarms
  <2>6. root = "serving" /\ UNCHANGED <<place, cluster, act, finalMembers>>
    BY <1>3 DEF S3!RootSupervised
  <2>7. Inside => Saying(arm, root', files', finalMembers', log')
    <3> SUFFICES ASSUME Inside PROVE Saying(arm, root', files', finalMembers', log')
      OBVIOUS
    <3>1. Saying(arm, root, files, finalMembers, log)
      BY EnvBefore
    <3>2. ASSUME NEW n \in DOMAIN S3!Bad, n \in files', S3!Bad[n] \notin files'
          PROVE  <<arm, "root", n>> \in log'
      <4>1. CASE n = m
        BY <2>1, <3>2, <4>1
      <4>2. CASE n # m
        <5>1. n \in files /\ S3!Bad[n] \notin files
          BY <2>1, <3>2, <4>2 DEF S3!Bad
        <5> QED BY <2>5, <3>1, <5>1 DEF Saying
      <4> QED BY <4>1, <4>2
    <3> QED BY <2>1, <2>3, <2>5, <2>6, <3>1, <3>2 DEF Saying, S3!Bad
  <2>8. \A e \in log' : e \in log \/ e[3] # "suspected_alive"
    BY <2>5 DEF Alarms
  <2>9. Base'
    BY <2>2, <2>4, <2>5, <2>6, <2>7, <2>8, EnvBefore, EnvStep
  <2> QED BY <2>1, <2>5, <2>6, <2>9 DEF Drift, RootAlive, Running
<1> QED BY <1>2, <1>3 DEF S3!RootNative

\* Every order survives the drift.
LEMMA SuccessionDrifts ==
  ASSUME SlowDrift, NEW first, NEW second, NEW over, NEW reaped, Succession(first, second, over, reaped),
         act \in [Conns -> ActorStates]
  PROVE  Succession(first, second, over, reaped)'
<1>1. Untouched => Untouched'
  BY DEF SlowDrift, Drift, Untouched
<1>2. Gone => Gone'
  BY DEF SlowDrift, Drift, Gone
<1>3. UNCHANGED <<pc, arm, rec>> /\ (RootAlive' => RootAlive)
  BY DEF SlowDrift, Drift, driverVars
<1>4. \A e \in log' : e[3] = "overlap" => e \in log
  BY DEF SlowDrift
<1> QED BY <1>1, <1>2, <1>3, <1>4 DEF Succession, Beginning, Ok, Has

\* The order of slice 1 survives what the processes do.
LEMMA Slice1Drifts ==
  ASSUME SlowDrift, Slice1Ordered, act \in [Conns -> ActorStates]
  PROVE  Slice1Ordered'
<1>1. UNCHANGED <<pc, arm>>
  BY DEF SlowDrift, Drift, driverVars
<1> QED BY <1>1, SuccessionDrifts DEF Slice1Ordered

\* The order of slice 2 survives what the processes do.
LEMMA Slice2Drifts ==
  ASSUME SlowDrift, Slice2Ordered
  PROVE  Slice2Ordered'
<1>1. UNCHANGED <<pc, arm>> /\ files \subseteq files' /\ (\A k \in Conns : act'[k] = "left" => act[k] = "left")
  BY DEF SlowDrift, Drift, driverVars
<1>2. Untouched => Untouched'
  BY DEF SlowDrift, Drift, Untouched
<1>3. NoAlarm => NoAlarm'
  BY DEF SlowDrift, NoAlarm, Alarms
<1> QED BY <1>1, <1>2, <1>3 DEF Slice2Ordered, Beginning

\* The order of slice 3 survives what the processes do.
LEMMA Slice3Drifts ==
  ASSUME SlowDrift, Slice3Ordered, act \in [Conns -> ActorStates]
  PROVE  Slice3Ordered'
<1>1. UNCHANGED <<pc, arm, rec>> /\ "b" \in Conns
  BY DEF SlowDrift, Drift, driverVars, Conns
<1>2. Succession("graceful", "loss", {"discard", "gone", "arm_done"}, "actor_pids_gone")'
  BY SuccessionDrifts DEF Slice3Ordered
<1>3. /\ act["b"] # "none" => act'["b"] # "none"
      /\ act["b"] \in {"none", "dead"} => act'["b"] \in {"none", "dead"}
  BY <1>1 DEF SlowDrift, Drift
<1>4. /\ log \subseteq log' /\ (act["b"] \in {"dying", "dead"} => act'["b"] \in {"dying", "dead"})
  BY <1>1 DEF SlowDrift
<1>5. Document' = Document
  BY DEF Document, Conns
<1>6. <<arm', "run", "events">> \in DOMAIN rec' =>
           /\ rec'[<<arm', "run", "events">>] \in Seq(Document')
           /\ \A i \in DOMAIN rec'[<<arm', "run", "events">>] : Truthful(rec[<<arm, "run", "events">>][i])'
  BY <1>1, <1>4, <1>5 DEF Slice3Ordered, Truthful
<1>7. /\ arm' = "graceful" => <<"loss", "run", "events">> \notin DOMAIN rec'
      /\ Beginning' \/ pc' \in {"launch", "ready", "actor_a", "start_a", "actor_b", "start_b", "join", "gates"} =>
           <<arm', "run", "events">> \notin DOMAIN rec'
  BY <1>1 DEF Slice3Ordered, Beginning
<1>8. /\ pc' \in {"start_b", "join", "gates", "work", "depart", "departed", "evidence", "publish"} => act'["b"] # "none"
      /\ pc' \in {"evidence", "publish"} /\ Ok(arm, "b", "pid_gone")' => act'["b"] \in {"none", "dead"}
  BY <1>1, <1>3 DEF Slice3Ordered, Ok, Has
<1> QED BY <1>2, <1>6, <1>7, <1>8 DEF Slice3Ordered

\* The order of slice 3b survives what the processes do.
LEMMA Slice3bDrifts ==
  ASSUME Drift, \A e \in log' : e \in log \/ e[3] \notin Alarms, Slice3bOrdered
  PROVE  Slice3bOrdered'
<1>1. Untouched => Untouched'
  BY DEF Drift, Untouched
<1> QED BY <1>1 DEF Slice3bOrdered, Drift, driverVars, Beginning, NoAlarm, Alarms

\* The order of slice 4 survives what the processes do.
LEMMA Slice4Drifts ==
  ASSUME SlowDrift, Slice4Ordered, act \in [Conns -> ActorStates]
  PROVE  Slice4Ordered'
<1>1. UNCHANGED <<pc, arm, rec, obs>> /\ files \subseteq files'
  BY DEF SlowDrift, Drift, driverVars
<1>2. Succession("normal", "loss", {"discard", "gone", "arm_done"}, "actor_pids_gone")'
  BY SuccessionDrifts DEF Slice4Ordered
<1>3. pc' \in Working \cup Joining4 \cup {"ready", "stop_a", "stop_b"} => "done" \notin files' /\ root' # "leaving"
  BY <1>1 DEF Slice4Ordered, SlowDrift
<1>4. root' = "booting" => "ready" \notin files'
  BY DEF Slice4Ordered, SlowDrift
<1>5. /\ pc' \in Joining4 /\ Ok(arm, "root", "ready")' => "ready" \in files'
      /\ pc' \in Working => "ready" \in files'
  BY <1>1 DEF Slice4Ordered, Ok, Has, Working, Joining4
<1>6. pc' = "observing" =>
          /\ obs' \in Observations
          /\ obs'.silence <= obs'.elapsed /\ obs'.elapsed <= obs'.limit
          /\ obs'.to \in Short => obs'.limit = ShortBound
  BY <1>1 DEF Slice4Ordered
<1>7. arm' = "loss" /\ \/ pc' \in {"observe", "wrong_epoch", "wrong_root", "classified", "conn_a", "conn_b"}
                       \/ pc' = "observing" /\ obs'.to # "probe"
         => ~RootAlive'
  BY <1>1 DEF Slice4Ordered, SlowDrift, Drift
<1>8. (Missed' <=> Missed) /\ (EventDue' <=> EventDue) /\ (ConnADue' <=> ConnADue) /\ (ConnBDue' <=> ConnBDue)
  BY <1>1 DEF Missed, EventDue, ConnADue, ConnBDue, Has, Beginning, Joining4, Working, Short
<1>9. \A e \in log' : e[3] = "suspected_alive" => e \in log
  BY DEF SlowDrift
<1>10. /\ \A e \in log' : e[3] = "suspected_alive" => Missed'
       /\ EventDue' => <<"normal", "observer", "event">> \notin DOMAIN rec'
       /\ ConnADue' => <<"normal", "observer", "conn_a">> \notin DOMAIN rec'
       /\ ConnBDue' => <<"normal", "observer", "conn_b">> \notin DOMAIN rec'
  BY <1>1, <1>8, <1>9 DEF Slice4Ordered
<1>11. pc' \in {"publish", "duplicate"} => arm' = "normal"
  BY <1>1 DEF Slice4Ordered
<1> QED BY <1>2, <1>3, <1>4, <1>5, <1>6, <1>7, <1>10, <1>11 DEF Slice4Ordered, Short, Observations,
           Working, Joining4

\* The order of experiment 65 survives what the processes do.
LEMMA Rep65Drifts ==
  ASSUME Drift, act'["b"] = act["b"], Rep65Ordered
  PROVE  Rep65Ordered'
  BY DEF Rep65Ordered, Drift, driverVars

\* The order of a repetition survives what the processes do.
LEMMA RepDrifts ==
  ASSUME Drift, RepOrdered
  PROVE  RepOrdered'
  BY DEF RepOrdered, Drift, driverVars, Beginning

\* In experiment 65 nobody touches b.
LEMMA OtherStill ==
  ASSUME Base, act["b"] = "none", Drift
  PROVE  act'["b"] = act["b"]
  BY DEF Drift, Conns

\* Whatever the processes do while the driver waits, the invariant holds.
LEMMA EnvKeeps ==
  ASSUME IInv, Mishaps \/ Processes
  PROVE  IInv'
<1>1. UNCHANGED driverVars /\ program' = program /\ overall' = overall
  BY DEF Mishaps, Processes, driverVars
<1>2. Base /\ act \in [Conns -> ActorStates] /\ program \in Slices \cup Repeated
  BY EnvBefore DEF IInv, Base, Typed
<1>3. CASE Progress(arm) \/ Mishap(arm)
  <2>1. Base' /\ SlowDrift
    BY <1>1, <1>2, <1>3, ProgressSteps
  <2>2. Drift
    BY <2>1 DEF SlowDrift
  <2>3. \A e \in log' : e \in log \/ e[3] \notin Alarms
    BY <2>1 DEF SlowDrift, Alarms
  <2>4. Ordered'
    BY <1>1, <1>2, <2>1, <2>2, <2>3, Slice1Drifts, Slice2Drifts, Slice3Drifts, Slice3bDrifts,
       Slice4Drifts, Rep65Drifts, RepDrifts, OtherStill
    DEF IInv, Ordered, Rep65Ordered
  <2>5. Passed'
    <3>1. NobodyLeft => NobodyLeft'
      BY <2>2 DEF NobodyLeft, Drift
    <3>2. Evidence[program] \subseteq log => Evidence[program] \subseteq log'
      BY <2>1 DEF SlowDrift
    <3>3. NoAlarm => NoAlarm'
      BY <2>3 DEF NoAlarm
    <3>4. Evidence' = Evidence
      BY DEF Evidence
    <3> QED BY <1>1, <3>1, <3>2, <3>3, <3>4 DEF IInv, Passed
  <2> QED BY <2>1, <2>4, <2>5 DEF IInv
<1>4. CASE program = "slice3b" /\ S3!RootNative
  <2>1. /\ Base' /\ Drift
        /\ log \subseteq log' /\ \A e \in log' : e \in log \/ e[3] \notin Alarms
    BY <1>1, <1>2, <1>4, StepsNative
  <2>2. Ordered'
    BY <1>1, <1>2, <1>4, <2>1, Slice3bDrifts DEF IInv, Ordered, Repeated
  <2>3. Passed'
    <3>1. Evidence' = Evidence
      BY DEF Evidence
    <3>2. NoAlarm => NoAlarm'
      BY <2>1 DEF NoAlarm
    <3> QED BY <1>1, <1>4, <2>1, <3>1, <3>2 DEF IInv, Passed
  <2> QED BY <2>1, <2>2, <2>3 DEF IInv
<1>5. CASE program = "exp65" /\ R65!Processes
  <2>1. Base' /\ Drift /\ act'["b"] = act["b"]
    BY <1>1, <1>2, <1>5, Steps65
  <2>2. Ordered' /\ Passed'
    BY <1>1, <1>5, <2>1, Rep65Drifts DEF IInv, Ordered, Passed, Slices, Repeated
  <2> QED BY <2>1, <2>2 DEF IInv
<1>6. CASE program = "exp66" /\ (R66!Processes \/ R66!LeaveTooSlow)
  <2>1. Base' /\ Drift
    BY <1>1, <1>2, <1>6, Steps66
  <2>2. Ordered' /\ Passed'
    BY <1>1, <1>6, <2>1, RepDrifts DEF IInv, Ordered, Passed, Slices, Repeated
  <2> QED BY <2>1, <2>2 DEF IInv
<1> QED BY <1>3, <1>4, <1>5, <1>6 DEF Mishaps, Processes

-----------------------------------------------------------------------------
(* Steps inside an island.                                                 *)

\* A marker that a step leaves alone.
Left(x) == (x \in DOMAIN rec' <=> x \in DOMAIN rec) /\ (x \in DOMAIN rec => rec'[x] = rec[x])

\* A step within the arm that raises no alarm and puts markers of the kinds K.
Onward(K) ==
    /\ UNCHANGED <<program, place, arm>>
    /\ pc' \notin {"preflight", "head", "worker", "launch"}
    /\ \A e \in log' : e \in log \/ e[3] \notin Alarms
    /\ \A x : x[1] \notin {arm, "run"} \/ x[3] \notin K => Left(x)

\* A step that writes no marker leaves each as it was.
LEMMA LeftSame ==
  ASSUME UNCHANGED rec
  PROVE  \A x : Left(x)
  BY DEF Left

\* A step leaves the markers it does not write.
LEMMA LeftMerge ==
  ASSUME NEW m, rec' = m @@ rec, NEW x, x \notin DOMAIN m
  PROVE  Left(x)
  BY Merged DEF Left

\* A step that puts one marker leaves the others.
LEMMA LeftPut ==
  ASSUME NEW who, NEW what, NEW v, Put(who, what, v), NEW x, x # <<arm, who, what>>
  PROVE  Left(x)
  BY Mark DEF Left, Put

\* A marker put is one of the arm under way or of the whole run.
LEMMA PutKeys ==
  ASSUME NEW who, NEW what, NEW v, Put(who, what, v), NEW K, what \in K
  PROVE  \A x : x[1] \notin {arm, "run"} \/ x[3] \notin K => Left(x)
<1> SUFFICES ASSUME NEW x, x[1] \notin {arm, "run"} \/ x[3] \notin K PROVE Left(x)
  OBVIOUS
<1>1. x # <<arm, who, what>>
  OBVIOUS
<1> QED BY <1>1, LeftPut

\* A marker left alone has its value or not, as before.
LEMMA HasLeft ==
  ASSUME NEW a, NEW w, NEW s, NEW v, Left(<<a, w, s>>)
  PROVE  Has(a, w, s, v)' <=> Has(a, w, s, v)
  BY DEF Left, Has

\* The markers of the steps that the slices share.
SharedKeys == {"ready", "identity", "start", "join", "stopped", "final_membership", "exit_path"}

\* Launching an actor is a step onward within the arm.
LEMMA ActorOnward ==
  ASSUME NEW k, NEW next, next \notin {"preflight", "head", "worker", "launch"},
         UNCHANGED <<program, place>>, ActorStep(k, next)
  PROVE  Onward(SharedKeys)
  BY PutKeys DEF ActorStep, Onward, SharedKeys

\* So is stopping one.
LEMMA StopOnward ==
  ASSUME NEW k, NEW last, NEW next, next \notin {"preflight", "head", "worker", "launch"},
         UNCHANGED <<program, place>>, StopStep(k, last, next)
  PROVE  Onward(SharedKeys)
<1>1. PICK ok \in BOOLEAN : StopHpx(k, ok, arm) /\ Put(k, "stopped", ok)
  BY DEF StopStep
<1>2. \A e \in log' : e \in log \/ e[3] \notin Alarms
  BY <1>1 DEF StopHpx, Alarms
<1>3. \A x : x[1] \notin {arm, "run"} \/ x[3] \notin SharedKeys => Left(x)
  BY <1>1, PutKeys DEF SharedKeys
<1> QED BY <1>2, <1>3 DEF StopStep, Onward

\* So is every step the supervisors share.
LEMMA SharedOnward ==
  ASSUME NEW next, next \notin {"preflight", "head", "worker", "launch"},
         \/ ReadyStep \/ (\E k \in Conns : Joining(k)) \/ JoinHealthStep
         \/ AwaitFinalStep(next) \/ AwaitExitStep(next) \/ DiscardStep(next) \/ FinalizeStep
         \/ (\E result : SweepStep(result))
  PROVE  Onward(SharedKeys)
<1>0. \A x : UNCHANGED rec => Left(x)
  BY LeftSame
<1>1. CASE ReadyStep
  BY <1>1, PutKeys DEF ReadyStep, Onward, SharedKeys
<1>3. ASSUME NEW k, NEW n, StartStep(k, n), UNCHANGED <<program, place>>,
             n \notin {"preflight", "head", "worker", "launch"}
      PROVE  Onward(SharedKeys)
  BY <1>3, PutKeys DEF StartStep, Onward, SharedKeys
<1>4. CASE \E k \in Conns : Joining(k)
  BY <1>3, <1>4, ActorOnward DEF Joining
<1>5. CASE JoinHealthStep
  <2>1. PICK oks \in [Conns -> BOOLEAN] :
          rec' = [x \in {<<arm, k, "join">> : k \in {c \in Conns : oks[c]}} |-> Members] @@ rec
    BY <1>5 DEF JoinHealthStep
  <2>2. ASSUME NEW x, x[1] \notin {arm, "run"} \/ x[3] \notin SharedKeys
        PROVE  Left(x)
    <3> DEFINE m == [y \in {<<arm, k, "join">> : k \in {c \in Conns : oks[c]}} |-> Members]
    <3>1. x \notin DOMAIN m
      BY <2>2 DEF SharedKeys
    <3> HIDE DEF m
    <3>2. rec' = m @@ rec
      BY <2>1 DEF m
    <3> QED BY <3>1, <3>2, LeftMerge
  <2> QED BY <1>5, <2>2 DEF JoinHealthStep, Onward
<1>7. CASE AwaitFinalStep(next)
  BY <1>0, <1>7, PutKeys DEF AwaitFinalStep, Onward, SharedKeys
<1>8. CASE AwaitExitStep(next)
  BY <1>8, PutKeys DEF AwaitExitStep, Onward, SharedKeys
<1>9. CASE DiscardStep(next)
  BY <1>0, <1>9 DEF DiscardStep, Onward
<1>10. CASE FinalizeStep
  BY <1>0, <1>10 DEF FinalizeStep, Onward
<1>11. CASE \E result : SweepStep(result)
  BY <1>0, <1>11 DEF SweepStep, Finish, Onward
<1> QED BY <1>1, <1>4, <1>5, <1>7, <1>8, <1>9, <1>10, <1>11

-----------------------------------------------------------------------------
(* The order of two arms.                                                  *)

Overs == {"root_gone", "discard", "gone", "arm_done"}
Reaps == {"pids_gone", "actor_pids_gone"}

\* Within an arm.
LEMMA SuccessionOnward ==
  ASSUME NEW first, NEW second, NEW over, NEW reaped, Succession(first, second, over, reaped),
         arm' = arm, pc' \notin {"preflight", "head", "worker", "launch"},
         \A e \in log' : e \in log \/ e[3] # "overlap",
         pc' \in over => ~RootAlive',
         pc' = "arm_done" /\ arm = first => (Ok(first, "run", reaped)' => Gone'),
         arm = second => Left(<<first, "run", reaped>>)
  PROVE  Succession(first, second, over, reaped)'
<1>1. arm = second => (Ok(first, "run", reaped)' <=> Ok(first, "run", reaped))
  BY HasLeft DEF Ok
<1> QED BY <1>1 DEF Succession, Beginning

\* The first steps of an arm come after the other arm is over, or before it.
LEMMA SuccessionBegins ==
  ASSUME NEW first, NEW second, first # second, NEW over \in SUBSET Overs, NEW reaped \in Reaps,
         Succession(first, second, over, reaped), PreflightStep \/ HeadStep \/ WorkerStep
  PROVE  Succession(first, second, over, reaped)'
<1>1. arm' = arm /\ arm = first /\ Untouched' /\ UNCHANGED log
  BY DEF Succession, Beginning, Untouched, PreflightStep, HeadStep, WorkerStep
<1>2. pc' \notin over /\ pc' # "arm_done"
  BY DEF PreflightStep, HeadStep, WorkerStep, Finish, Overs
<1>3. \A e \in log' : e[3] # "overlap"
  BY <1>1 DEF Succession
<1> QED BY <1>1, <1>2, <1>3 DEF Succession

\* An island is brought up in the arm under way.
LEMMA SuccessionLaunch ==
  ASSUME NEW first, NEW second, first # second, NEW over \in SUBSET Overs, NEW reaped \in Reaps,
         Succession(first, second, over, reaped), LaunchStep
  PROVE  Succession(first, second, over, reaped)'
<1>1. UNCHANGED <<arm, rec>> /\ pc = "launch" /\ pc' = "ready" /\ NewIsland(arm)
  BY DEF LaunchStep
<1>2. ~RootAlive
  BY <1>1 DEF Succession, Untouched, RootAlive
<1>3. arm = first => log' = log
  BY <1>1, <1>2 DEF Succession, Untouched, NewIsland
<1>4. arm = second /\ Ok(first, "run", reaped) => log' = log
  BY <1>1, <1>2 DEF Succession, Gone, NewIsland
<1>5. Ok(first, "run", reaped)' <=> Ok(first, "run", reaped)
  BY <1>1 DEF Ok, Has
<1>6. \A e \in log' : e[3] = "overlap" => arm' = second /\ ~Ok(first, "run", reaped)'
  BY <1>1, <1>3, <1>4, <1>5 DEF Succession
<1> QED BY <1>1, <1>6 DEF Succession, Beginning, Overs

-----------------------------------------------------------------------------
(* Slice 1.                                                                *)

\* What the instance of Slice1 shares is what the module shares.
LEMMA PlainS1 ==
  /\ S1!Conns = Conns /\ S1!Members = Members /\ S1!Running = Running
  /\ (S1!RootAlive <=> RootAlive) /\ (S1!RootServes <=> RootServes) /\ (S1!NobodyLeft <=> NobodyLeft)
  /\ (S1!Fault <=> Fault) /\ (\A ok, can : S1!Outcome(ok, can) <=> Outcome(ok, can))
  /\ \A f, g : S1!@@(f, g) = f @@ g
  /\ \A x, v : S1!:>(x, v) = (x :> v)
  /\ \A a, w, s, v : S1!Has(a, w, s, v) <=> Has(a, w, s, v)
  /\ \A a, w, s : S1!Ok(a, w, s) <=> Ok(a, w, s)
  /\ \A w, s, v : S1!Put(w, s, v) <=> Put(w, s, v)
<1>1. S1!Conns = Conns
  BY DEF S1!Conns, Conns
<1>2. S1!Members = Members
  BY <1>1 DEF S1!Members, Members, S1!Cardinality, Cardinality
<1>3. S1!Running = Running
  BY <1>1 DEF S1!Running, Running
<1>4. S1!RootAlive <=> RootAlive
  BY DEF S1!RootAlive, RootAlive
<1>5. S1!RootServes <=> RootServes
  BY DEF S1!RootServes, RootServes
<1>6. S1!NobodyLeft <=> NobodyLeft
  BY <1>1, <1>4 DEF S1!NobodyLeft, NobodyLeft
<1>7. S1!Fault <=> Fault
  BY DEF S1!Fault, Fault
<1>8. \A ok, can : S1!Outcome(ok, can) <=> Outcome(ok, can)
  BY <1>7 DEF S1!Outcome, Outcome
<1>9. \A f, g : S1!@@(f, g) = f @@ g
  BY DEF S1!@@, @@, S1!Merge, Merge, S1!Only, Only
<1>10. \A x, v : S1!:>(x, v) = (x :> v)
  BY DEF S1!:>, :>
<1>11. \A a, w, s, v : S1!Has(a, w, s, v) <=> Has(a, w, s, v)
  BY DEF S1!Has, Has
<1>12. \A a, w, s : S1!Ok(a, w, s) <=> Ok(a, w, s)
  BY <1>11 DEF S1!Ok, Ok
<1>13. \A w, s, v : S1!Put(w, s, v) <=> Put(w, s, v)
  BY <1>9, <1>10 DEF S1!Put, Put
<1> QED BY <1>1, <1>2, <1>3, <1>4, <1>5, <1>6, <1>7, <1>8, <1>9, <1>10, <1>11, <1>12, <1>13

\* The shared steps of S1 are this module's.
LEMMA SharedS1 ==
  /\ S1!PreflightStep => PreflightStep
  /\ S1!HeadStep => HeadStep
  /\ S1!WorkerStep => WorkerStep
  /\ S1!LaunchStep => LaunchStep
  /\ (\A k, next : S1!ActorStep(k, next) => ActorStep(k, next))
  /\ (\A k, next : S1!StartStep(k, next) => StartStep(k, next))
  /\ (\A k : S1!Joining(k) => Joining(k))
  /\ (\A k, last, next : S1!StopStep(k, last, next) => StopStep(k, last, next))
  /\ (\A next : S1!AwaitFinalStep(next) => AwaitFinalStep(next))
  /\ (\A next : S1!AwaitExitStep(next) => AwaitExitStep(next))
  /\ (\A result : S1!SweepStep(result) => SweepStep(result))
<1>1. S1!PreflightStep => PreflightStep
  BY PlainS1 DEF S1!PreflightStep, S1!Finish, S1!At, S1!Goto, S1!Raise, S1!OrRaise, S1!SameIsland,
     S1!SameRun, PreflightStep, Finish
<1>2. S1!HeadStep => HeadStep
  BY PlainS1 DEF S1!HeadStep, S1!At, S1!Goto, S1!Raise, S1!OrRaise, S1!SameIsland, S1!SameRun, HeadStep
<1>3. S1!WorkerStep => WorkerStep
  BY PlainS1 DEF S1!WorkerStep, S1!At, S1!Goto, S1!Raise, S1!OrRaise, S1!SameIsland, S1!SameRun,
     WorkerStep
<1>4. S1!LaunchStep => LaunchStep
  BY PlainS1 DEF S1!LaunchStep, S1!NewIsland, S1!At, S1!Goto, S1!Raise, S1!OrRaise, S1!SameIsland,
     S1!SameRun, LaunchStep, NewIsland
<1>5. \A k, next : S1!ActorStep(k, next) => ActorStep(k, next)
  BY PlainS1 DEF S1!ActorStep, S1!At, S1!Goto, S1!Raise, S1!OrRaise, S1!SameIsland, S1!SameRun,
     ActorStep
<1>6. \A k, next : S1!StartStep(k, next) => StartStep(k, next)
  BY PlainS1 DEF S1!StartStep, S1!StartHpx, S1!At, S1!Goto, S1!Raise, S1!OrRaise, S1!SameIsland,
     S1!SameRun, StartStep, StartHpx
<1>7. \A k : S1!Joining(k) => Joining(k)
  BY PlainS1, <1>5, <1>6 DEF S1!Joining, S1!At, S1!Goto, S1!Raise, S1!OrRaise, S1!SameIsland,
     S1!SameRun, Joining
<1>8. \A k, last, next : S1!StopStep(k, last, next) => StopStep(k, last, next)
  BY PlainS1 DEF S1!StopStep, S1!StopHpx, S1!At, S1!Goto, S1!Raise, S1!OrRaise, S1!SameIsland,
     S1!SameRun, StopStep, StopHpx
<1>9. \A next : S1!AwaitFinalStep(next) => AwaitFinalStep(next)
  BY PlainS1 DEF S1!AwaitFinalStep, S1!WaitForFile, S1!At, S1!Goto, S1!Raise, S1!OrRaise,
     S1!SameIsland, S1!SameRun, AwaitFinalStep, WaitForFile
<1>10. \A next : S1!AwaitExitStep(next) => AwaitExitStep(next)
  BY PlainS1 DEF S1!AwaitExitStep, S1!WaitRoot, S1!ExitPaths, S1!At, S1!Goto, S1!Raise, S1!OrRaise,
     S1!SameIsland, S1!SameRun, AwaitExitStep, WaitRoot, ExitPaths
<1>11. \A result : S1!SweepStep(result) => SweepStep(result)
  BY PlainS1 DEF S1!SweepStep, S1!Finish, S1!At, S1!Goto, S1!Raise, S1!OrRaise, S1!SameIsland,
     S1!SameRun, SweepStep, Finish
<1> QED BY <1>1, <1>2, <1>3, <1>4, <1>5, <1>6, <1>7, <1>8, <1>9, <1>10, <1>11

\* Markers s that are those of r, but for the log of phases.
ButPhases(s, r) ==
    \A x : x[1] # "run" => /\ x \in DOMAIN s <=> x \in DOMAIN r
                           /\ x \in DOMAIN r => s[x] = r[x]

\* The log of phases carries nothing.
LEMMA PutPhases ==
  ASSUME NEW r, NEW v, NEW L, MarkedBy(r, L), NEW s, s = (<<"run", "run", "phases">> :> v) @@ r
  PROVE  MarkedBy(s, L) /\ ButPhases(s, r)
<1>1. Holds(<<"run", "run", "phases">>, v, L)
  BY Mute DEF Telling, S3!Bad
<1>2. MarkedBy(s, L)
  BY <1>1, MarkOne
<1>3. ButPhases(s, r)
  BY Mark DEF ButPhases
<1> QED BY <1>2, <1>3

\* Writing a phase into the record writes that marker and no other.
LEMMA Phased ==
  ASSUME NEW r, NEW e, NEW L, MarkedBy(r, L), NEW s, s = S1!_phase(r, e)
  PROVE  MarkedBy(s, L) /\ ButPhases(s, r)
<1>1. s = (<<"run", "run", "phases">> :> Append(S1!Phases, <<arm, e>>)) @@ r
  BY PlainS1 DEF S1!_phase
<1> QED BY <1>1, PutPhases

\* So does writing it under a condition.
LEMMA PhasedIf ==
  ASSUME NEW r, NEW e, NEW c, NEW L, MarkedBy(r, L), NEW s, s = S1!PhaseIf(r, c, e)
  PROVE  MarkedBy(s, L) /\ ButPhases(s, r)
<1>1. s = S1!_phase(r, e) \/ s = r
  BY DEF S1!PhaseIf
<1>2. CASE s = S1!_phase(r, e)
  BY <1>2, Phased
<1>3. CASE s = r
  BY <1>3 DEF ButPhases
<1> QED BY <1>1, <1>2, <1>3

\* One marker, and what the phases add to it.
LEMMA PhasedPut ==
  ASSUME Marked, program' = program, log \subseteq log', NEW x, NEW v, NEW c, NEW e,
         x[1] = arm, arm # "run",
         rec' = S1!PhaseIf((x :> v) @@ rec, c, e), Holds(x, v, log')
  PROVE  Marked' /\ \A y : y[1] # "run" /\ y # x => Left(y)
<1>1. MarkedBy((x :> v) @@ rec, log')
  BY MarkedGrows, MarkOne DEF Marked
<1>2. MarkedBy(rec', log') /\ ButPhases(rec', (x :> v) @@ rec)
  BY <1>1, PhasedIf
<1>3. ASSUME NEW y, y[1] # "run", y # x
      PROVE  Left(y)
  BY <1>2, <1>3, Mark DEF Left, ButPhases
<1> QED BY <1>2, <1>3, MarkedAfter

\* The order of slice 1 within an epoch.
LEMMA Onward1 ==
  ASSUME Slice1Ordered, arm' = arm, pc' \notin {"preflight", "head", "worker", "launch", "arm_done"},
         \A e \in log' : e \in log \/ e[3] \notin Alarms,
         pc' = "root_gone" => ~RootAlive',
         pc' \in {"inject", "victim_gone", "victim_ping", "survivor_probe", "classify", "discard", "root_gone"} =>
           arm = "epoch0",
         arm = "epoch1" => Left(<<"epoch0", "run", "pids_gone">>)
  PROVE  Slice1Ordered'
<1>1. \A e \in log' : e \in log \/ e[3] # "overlap"
  BY DEF Alarms
<1> QED BY <1>1, SuccessionOnward DEF Slice1Ordered

\* Slice 1: AwaitReady keeps the order of its run.
LEMMA AwaitReady1 ==
  ASSUME Base, Slice1Ordered, S1!AwaitReady
  PROVE  Fine /\ Slice1Ordered' /\ program' = program
<1>1. PICK ok \in BOOLEAN :
        /\ S1!WaitForFile("ready", ok)
        /\ rec' = S1!PhaseIf((<<arm, "root", "ready">> :> ok) @@ rec, ok /\ RootAlive, "root_ready")
        /\ S1!OrRaise(ok /\ RootAlive, "actor_a")
  BY PlainS1 DEF S1!AwaitReady
<1>2. /\ UNCHANGED <<program, place>> /\ SameIsland /\ UNCHANGED <<arm, sm, obs>> /\ SameRun
      /\ pc = "ready" /\ pc' \in {"actor_a", "finalize"} /\ exc' \in BOOLEAN /\ Inside
  BY <1>1 DEF S1!AwaitReady, S1!At, S1!SameIsland, S1!SameRun, S1!OrRaise, S1!Goto, S1!Raise, Inside,
     Base, Typed, SupervisorTypeOK
<1>3. arm \in {"epoch0", "epoch1"}
  BY DEF Slice1Ordered, Succession
<1>4. Holds(<<arm, "root", "ready">>, ok, log')
  BY Mute DEF Telling, S3!Bad
<1>5. Marked' /\ \A y : y[1] # "run" /\ y # <<arm, "root", "ready">> => Left(y)
  BY <1>1, <1>2, <1>3, <1>4, PhasedPut DEF Base
<1>6. faults' \in 0..MaxFaults[program']
  BY <1>1, <1>2, PlainS1, OutcomeTyped DEF S1!WaitForFile, Base
<1>7. Fine
  BY <1>2, <1>5, <1>6, TellingStep
<1> QED BY <1>2, <1>3, <1>5, <1>7, Onward1

\* Slice 1: BringUpGates keeps the order of its run.
LEMMA BringUpGates1 ==
  ASSUME Base, Slice1Ordered, S1!BringUpGates
  PROVE  Fine /\ Slice1Ordered' /\ program' = program
<1>1. PICK c : rec' = S1!PhaseIf(rec, c, "actors_joined")
  BY DEF S1!BringUpGates
<1>2. /\ UNCHANGED <<program, place, faults>> /\ SameIsland /\ UNCHANGED <<arm, sm, obs>> /\ SameRun
      /\ pc = "join" /\ pc' \in {"work", "finalize"} /\ exc' \in BOOLEAN /\ Inside
  BY DEF S1!BringUpGates, S1!At, S1!SameIsland, S1!SameRun, S1!OrRaise, S1!Goto, S1!Raise, Inside,
     Base, Typed, SupervisorTypeOK
<1>3. MarkedBy(rec, log')
  BY <1>2 DEF Base, Marked
<1>4. MarkedBy(rec', log') /\ ButPhases(rec', rec)
  BY <1>1, <1>3, PhasedIf
<1>7. Marked' /\ \A y : y[1] # "run" => Left(y)
  BY <1>2, <1>4, MarkedAfter DEF Left, ButPhases
<1>5. faults' \in 0..MaxFaults[program']
  BY <1>2, FaultTyped DEF Base
<1>6. Fine
  BY <1>2, <1>5, <1>7, TellingStep
<1> QED BY <1>2, <1>6, <1>7, Onward1

\* Slice 1: run_workload keeps the order of its run.
LEMMA Workload1 ==
  ASSUME Base, Slice1Ordered, program = "slice1", S1!run_workload
  PROVE  Fine /\ Slice1Ordered' /\ program' = program
<1>1. PICK ok \in BOOLEAN :
        /\ S1!TopKCase(ok)
        /\ rec' = S1!PhaseIf((<<arm, "run", "work">> :> ok) @@ rec, ok, "workload_ok")
        /\ log' = IF ok THEN log \cup {<<arm, "run", "worked">>} ELSE log
        /\ S1!OrRaise(ok, IF arm = "epoch0" THEN "inject" ELSE "stop_a")
  BY PlainS1 DEF S1!run_workload
<1>2. /\ UNCHANGED <<program, place, cluster, root, act, stale, files, finalMembers, arm>> /\ SameRun
      /\ pc = "work" /\ pc' \in {"inject", "stop_a", "finalize"} /\ (pc' = "inject" => arm = "epoch0")
      /\ exc' \in BOOLEAN /\ Inside
  BY <1>1 DEF S1!run_workload, S1!At, S1!SameRun, S1!OrRaise, S1!Goto, S1!Raise, Inside,
     Base, Typed, SupervisorTypeOK
<1>3. arm \in {"epoch0", "epoch1"}
  BY DEF Slice1Ordered, Succession
<1>4. log \subseteq log' /\ \A e \in log' : e \in log \/ e[3] \notin Alarms
  BY <1>1 DEF Alarms
<1>5. Holds(<<arm, "run", "work">>, ok, log')
  BY <1>1 DEF Holds, S3!Bad, Slices, Repeated
<1>6. Marked' /\ \A y : y[1] # "run" /\ y # <<arm, "run", "work">> => Left(y)
  BY <1>1, <1>2, <1>3, <1>4, <1>5, PhasedPut DEF Base
<1>7. faults' \in 0..MaxFaults[program']
  BY <1>1, <1>2, PlainS1, OutcomeTyped DEF S1!TopKCase, Base
<1>8. /\ overall' = "none" /\ pc' # "ended" /\ \A e \in log' : e \in log \/ e[3] # "suspected_alive"
  BY <1>2, <1>4 DEF Alarms, Inside, Base, Typed, SupervisorTypeOK
<1>9. Fine
  BY <1>2, <1>4, <1>6, <1>7, <1>8, EnvBefore, MovingStep
<1> QED BY <1>2, <1>3, <1>4, <1>6, <1>9, Onward1

\* Slice 1: inject_victim_loss keeps the order of its run.
LEMMA Inject1 ==
  ASSUME Base, Slice1Ordered, program = "slice1", S1!inject_victim_loss
  PROVE  Fine /\ Slice1Ordered' /\ program' = program
<1>1. PICK sent \in BOOLEAN :
        /\ IF sent THEN S1!Killed({"b"}) ELSE UNCHANGED <<act, stale>>
        /\ rec' = S1!PhaseIf((<<arm, "b", "signalled">> :> sent) @@ rec, sent, "injected")
        /\ log' = IF sent THEN log \cup {<<arm, "b", "killed">>} ELSE log
        /\ S1!OrRaise(sent, "victim_gone")
  BY PlainS1 DEF S1!inject_victim_loss, S1!Victim, S1!select_victim, S1!Ok, S1!Has
<1>2. /\ UNCHANGED <<program, place, cluster, root, files, finalMembers, faults, arm>> /\ SameRun
      /\ pc = "inject" /\ pc' \in {"victim_gone", "finalize"} /\ exc' \in BOOLEAN /\ Inside
  BY <1>1 DEF S1!inject_victim_loss, S1!At, S1!SameRun, S1!OrRaise, S1!Goto, S1!Raise, Inside,
     Base, Typed, SupervisorTypeOK
<1>3. arm = "epoch0"
  BY <1>2 DEF Slice1Ordered
<1>4. log \subseteq log' /\ \A e \in log' : e \in log \/ e[3] \notin Alarms
  BY <1>1 DEF Alarms
<1>5. Holds(<<arm, "b", "signalled">>, sent, log')
  BY <1>1 DEF Holds, S3!Bad
<1>6. Marked'
  BY <1>1, <1>2, <1>3, <1>4, <1>5, PhasedPut DEF Base
<1>7. faults' \in 0..MaxFaults[program']
  BY <1>2, FaultTyped DEF Base
<1>8. act' \in [Conns -> ActorStates] /\ stale' \subseteq Conns
  BY <1>1, EnvBefore, PlainS1 DEF S1!Killed, ActorStates, Conns
<1>9. /\ overall' = "none" /\ pc' # "ended" /\ \A e \in log' : e \in log \/ e[3] # "suspected_alive"
  BY <1>2, <1>4 DEF Alarms, Inside, Base, Typed, SupervisorTypeOK
<1>10. Fine
  BY <1>2, <1>4, <1>6, <1>7, <1>8, <1>9, EnvBefore, MovingStep
<1> QED BY <1>2, <1>3, <1>4, <1>10, Onward1

\* Between two arms, on an island that is left as it is.
LEMMA ArmStep ==
  ASSUME Base, program \in Slices, UNCHANGED <<program, place>>, SameIsland, SameRun, Marked',
         faults' \in 0..MaxFaults[program'], exc' \in BOOLEAN, pc # "ended", pc' # "ended", ~Inside'
  PROVE  Fine
<1>1. Typed' /\ overall' = "none"
  BY DEF Base, Typed, SupervisorTypeOK, IslandTypeOK, Slices, Repeated
<1>2. Suspected'
  BY SuspectedKept DEF Base
<1> QED BY <1>1, <1>2, OutsideTrue DEF Fine, Base

\* Slice 1: observe_post_loss keeps the order of its run.
LEMMA PostLoss1 ==
  ASSUME Base, Slice1Ordered, S1!observe_post_loss
  PROVE  Fine /\ Slice1Ordered' /\ program' = program
<1>1. /\ UNCHANGED <<program, place>> /\ SameIsland /\ UNCHANGED <<arm, sm, exc, obs>> /\ SameRun
      /\ pc \in {"victim_gone", "victim_ping", "survivor_probe"}
      /\ pc' \in {"victim_ping", "survivor_probe", "classify"} /\ exc' \in BOOLEAN /\ Inside
  BY DEF S1!observe_post_loss, S1!At, S1!SameIsland, S1!SameRun, S1!Goto, Inside, Base, Typed,
     SupervisorTypeOK
<1>2. arm = "epoch0"
  BY <1>1 DEF Slice1Ordered
<1>3. faults' \in 0..MaxFaults[program']
  BY <1>1, PlainS1, OutcomeTyped DEF S1!observe_post_loss, S1!WaitPidGone, S1!RayGet, S1!Health, Base
<1>4. Marked'
  <2>1. CASE \E v : Put("b", "pid_gone", v) \/ Put("b", "raised", v)
    BY <1>1, <2>1, MutePut DEF Base, Telling, S3!Bad
  <2>2. CASE \E u, v : rec' = (<<arm, "a", "membership">> :> u) @@ (<<arm, "root", "probed">> :> v) @@ rec
    <3>1. PICK u, v : rec' = (<<arm, "a", "membership">> :> u) @@ (<<arm, "root", "probed">> :> v) @@ rec
      BY <2>2
    <3>2. Holds(<<arm, "a", "membership">>, u, log') /\ Holds(<<arm, "root", "probed">>, v, log')
      BY Mute DEF Telling, S3!Bad
    <3>3. MarkedBy((<<arm, "a", "membership">> :> u) @@ (<<arm, "root", "probed">> :> v), log')
      BY <3>2, MarkedSingle, MarkAll
    <3> QED BY <1>1, <3>1, <3>3, MarkedMerge DEF Base
  <2> QED BY <2>1, <2>2, PlainS1 DEF S1!observe_post_loss, S1!Victim, S1!Survivor
<1>5. Fine
  BY <1>1, <1>3, <1>4, TellingStep
<1> QED BY <1>1, <1>2, <1>5, Onward1

\* Slice 1: ClassifyIsland keeps the order of its run.
LEMMA Classify1 ==
  ASSUME Base, Slice1Ordered, S1!ClassifyIsland
  PROVE  Fine /\ Slice1Ordered' /\ program' = program
<1>1. PICK c : rec' = S1!PhaseIf(rec, c, "classified_failed")
  BY DEF S1!ClassifyIsland
<1>2. /\ UNCHANGED <<program, place, faults>> /\ SameIsland /\ UNCHANGED <<arm, sm, obs>> /\ SameRun
      /\ pc = "classify" /\ pc' \in {"discard", "finalize"} /\ exc' \in BOOLEAN /\ Inside
  BY DEF S1!ClassifyIsland, S1!At, S1!SameIsland, S1!SameRun, S1!OrRaise, S1!Goto, S1!Raise, Inside,
     Base, Typed, SupervisorTypeOK
<1>3. arm = "epoch0" /\ MarkedBy(rec, log')
  BY <1>2 DEF Slice1Ordered, Base, Marked
<1>4. Marked'
  BY <1>1, <1>2, <1>3, PhasedIf, MarkedAfter
<1>5. faults' \in 0..MaxFaults[program']
  BY <1>2, FaultTyped DEF Base
<1>6. Fine
  BY <1>2, <1>4, <1>5, TellingStep
<1> QED BY <1>2, <1>3, <1>6, Onward1

\* Slice 1: DiscardIsland keeps the order of its run.
LEMMA Discard1 ==
  ASSUME Base, Slice1Ordered, S1!DiscardIsland
  PROVE  Fine /\ Slice1Ordered' /\ program' = program
<1>1. rec' = S1!_phase((<<arm, "root", "files_at_discard">> :> files) @@ rec, "survivor_killed")
  BY PlainS1 DEF S1!DiscardIsland
<1>2. /\ UNCHANGED <<program, place, cluster, files, finalMembers, faults, log, arm, exc>> /\ SameRun
      /\ pc = "discard" /\ pc' = "root_gone" /\ exc' \in BOOLEAN /\ Inside
      /\ KilledRoot /\ Killed(Conns)
  BY PlainS1 DEF S1!DiscardIsland, S1!At, S1!SameRun, S1!Goto, S1!Killed, S1!KilledRoot, Killed,
     KilledRoot, Inside, Base, Typed, SupervisorTypeOK
<1>3. arm = "epoch0" /\ MarkedBy(rec, log')
  BY <1>2 DEF Slice1Ordered, Base, Marked
<1>4. Holds(<<arm, "root", "files_at_discard">>, files, log')
  BY Mute DEF Telling, S3!Bad
<1>5. Marked'
  BY <1>1, <1>2, <1>3, <1>4, MarkOne, Phased, MarkedAfter
<1>6. Fine
  BY <1>2, <1>5, KillingStep
<1>7. ~RootAlive'
  BY <1>2 DEF KilledRoot, RootAlive
<1> QED BY <1>2, <1>3, <1>6, <1>7, Onward1

\* Epoch 1 begins when the root of epoch 0 is gone; a marker says if the actors are.
LEMMA Teardown1 ==
  ASSUME Base, Slice1Ordered, program = "slice1", S1!teardown_epoch0
  PROVE  Fine /\ Slice1Ordered' /\ program' = program
<1>1. PICK gone, v :
        /\ gone \in BOOLEAN
        /\ S1!WaitPidGone(S1!Conns, gone)
        /\ rec' = (<<arm, "run", "pids_gone">> :> gone) @@ (<<"run", "run", "phases">> :> v) @@ rec
  BY PlainS1 DEF S1!teardown_epoch0
<1>2. /\ UNCHANGED <<program, place>> /\ SameIsland /\ UNCHANGED <<sm, exc, obs>> /\ SameRun
      /\ pc = "root_gone" /\ pc' = "launch" /\ arm' = "epoch1" /\ exc' \in BOOLEAN /\ ~Inside'
  BY DEF S1!teardown_epoch0, S1!At, S1!SameIsland, S1!SameRun, S1!Goto, Inside, Base, Typed,
     SupervisorTypeOK
<1>3. arm = "epoch0" /\ ~RootAlive /\ \A e \in log : e[3] # "overlap"
  BY <1>2 DEF Slice1Ordered, Succession
<1>4. Holds(<<arm, "run", "pids_gone">>, gone, log') /\ Holds(<<"run", "run", "phases">>, v, log')
  BY Mute DEF Telling, S3!Bad
<1> DEFINE m == (<<arm, "run", "pids_gone">> :> gone) @@ (<<"run", "run", "phases">> :> v)
<1>5. MarkedBy(m, log')
  BY <1>4, MarkedSingle, MarkAll
<1>6. Marked'
  BY <1>1, <1>2, <1>5, MarkedMerge DEF Base
<1>7. faults' \in 0..MaxFaults[program']
  BY <1>1, <1>2, PlainS1, OutcomeTyped DEF S1!WaitPidGone, Base
<1>8. Fine
  BY <1>2, <1>6, <1>7, ArmStep DEF Slices
<1>9. gone = TRUE => Gone'
  BY <1>1, <1>2, PlainS1 DEF S1!WaitPidGone, Gone
<1>10. <<arm, "run", "pids_gone">> \in DOMAIN m /\ m[<<arm, "run", "pids_gone">>] = gone
  BY <1>3, Mark
<1>11. rec'[<<arm, "run", "pids_gone">>] = gone
  <2> HIDE DEF m
  <2>1. rec' = m @@ rec
    BY <1>1 DEF m
  <2> QED BY <1>10, <2>1, Merged
<1>12. Ok("epoch0", "run", "pids_gone")' => Gone'
  BY <1>3, <1>9, <1>11 DEF Ok, Has
<1>13. ~RootAlive' /\ log' = log
  BY <1>2, <1>3 DEF RootAlive
<1> QED BY <1>2, <1>3, <1>8, <1>12, <1>13 DEF Slice1Ordered, Succession, Beginning

\* Slice 1: KillEpoch1Actors keeps the order of its run.
LEMMA KillEpoch1 ==
  ASSUME Base, Slice1Ordered, S1!KillEpoch1Actors
  PROVE  Fine /\ Slice1Ordered' /\ program' = program
<1>1. PICK v : rec' = (<<"run", "run", "phases">> :> v) @@ rec
  BY PlainS1 DEF S1!KillEpoch1Actors
<1>2. /\ UNCHANGED <<program, place, cluster, root, files, finalMembers, faults, log, arm, exc>> /\ SameRun
      /\ pc = "epoch1_gone" /\ pc' = "shutdown" /\ exc' \in BOOLEAN /\ Inside /\ Killed(Conns)
  BY PlainS1 DEF S1!KillEpoch1Actors, S1!At, S1!SameRun, S1!Goto, S1!Killed, Killed, Inside,
     Base, Typed, SupervisorTypeOK
<1>3. MarkedBy(rec, log')
  BY <1>2 DEF Base, Marked
<1>4. MarkedBy(rec', log') /\ ButPhases(rec', rec)
  BY <1>1, <1>3, PutPhases
<1>5. Marked' /\ Left(<<"epoch0", "run", "pids_gone">>)
  BY <1>2, <1>4, MarkedAfter DEF Left, ButPhases
<1>6. Fine
  BY <1>2, <1>5, KillingStep
<1> QED BY <1>2, <1>5, <1>6, Onward1

\* Slice 1: shutdown_epoch1 keeps the order of its run.
LEMMA Shutdown1 ==
  ASSUME Base, Slice1Ordered, S1!shutdown_epoch1
  PROVE  Fine /\ Slice1Ordered' /\ program' = program
<1>1. PICK gone \in BOOLEAN :
        /\ S1!WaitPidGone(S1!Conns, gone)
        /\ rec' = S1!PhaseIf((<<arm, "run", "pids_gone">> :> gone) @@ rec, gone, "actors_destroyed")
  BY PlainS1 DEF S1!shutdown_epoch1
<1>2. /\ UNCHANGED <<program, place>> /\ SameIsland /\ UNCHANGED <<arm, sm, exc, obs>> /\ SameRun
      /\ pc = "shutdown" /\ pc' = "verdict" /\ exc' \in BOOLEAN /\ Inside
  BY DEF S1!shutdown_epoch1, S1!At, S1!SameIsland, S1!SameRun, S1!Goto, Inside, Base, Typed,
     SupervisorTypeOK
<1>3. arm \in {"epoch0", "epoch1"}
  BY DEF Slice1Ordered, Succession
<1>4. Holds(<<arm, "run", "pids_gone">>, gone, log')
  BY Mute DEF Telling, S3!Bad
<1>5. Marked' /\ \A y : y[1] # "run" /\ y # <<arm, "run", "pids_gone">> => Left(y)
  BY <1>1, <1>2, <1>3, <1>4, PhasedPut DEF Base
<1>6. faults' \in 0..MaxFaults[program']
  BY <1>1, <1>2, PlainS1, OutcomeTyped DEF S1!WaitPidGone, Base
<1>7. Fine
  BY <1>2, <1>5, <1>6, TellingStep
<1> QED BY <1>2, <1>3, <1>5, <1>7, Onward1

\* Slice 1: EndOfEpochs keeps the order of its run.
LEMMA EndOfEpochs1 ==
  ASSUME Base, Slice1Ordered, S1!EndOfEpochs, program = "slice1"
  PROVE  Fine /\ Slice1Ordered' /\ program' = program
<1>1. /\ UNCHANGED <<program, place, faults, rec>> /\ SameIsland /\ UNCHANGED <<arm, sm, obs>> /\ SameRun
      /\ pc = "verdict" /\ pc' = "finalize" /\ exc' \in BOOLEAN /\ Inside
  BY DEF S1!EndOfEpochs, S1!At, S1!SameIsland, S1!SameRun, S1!OrRaise, S1!Goto, S1!Raise, Inside,
     Base, Typed, SupervisorTypeOK, Repeated
<1>2. Marked' /\ Left(<<"epoch0", "run", "pids_gone">>)
  BY <1>1, MarkedSame, LeftSame DEF Base
<1>3. faults' \in 0..MaxFaults[program']
  BY <1>1, FaultTyped DEF Base
<1>4. Fine
  BY <1>1, <1>2, <1>3, TellingStep
<1> QED BY <1>1, <1>2, <1>4, Onward1

\* Slice 1: finalize_run keeps the order of its run.
LEMMA FinalizeRun1 ==
  ASSUME Base, Slice1Ordered, S1!finalize_run
  PROVE  Fine /\ Slice1Ordered' /\ program' = program
<1>1. PICK v : rec' = (<<"run", "run", "phases">> :> v) @@ rec
  BY PlainS1 DEF S1!finalize_run
<1>2. /\ UNCHANGED <<program, place, cluster, files, finalMembers, faults, log, arm, exc>> /\ SameRun
      /\ pc = "finalize" /\ pc' = "sweep" /\ exc' \in BOOLEAN /\ ~Inside' /\ Killed(Conns) /\ KilledRoot
  BY PlainS1 DEF S1!finalize_run, S1!At, S1!SameRun, S1!Goto, S1!Killed, Killed, S1!KilledRoot,
     KilledRoot, Inside, Base, Typed, SupervisorTypeOK
<1>3. MarkedBy(rec, log')
  BY <1>2 DEF Base, Marked
<1>4. MarkedBy(rec', log') /\ ButPhases(rec', rec)
  BY <1>1, <1>3, PutPhases
<1>5. Marked' /\ Left(<<"epoch0", "run", "pids_gone">>)
  BY <1>2, <1>4, MarkedAfter DEF Left, ButPhases
<1>6. Fine
  BY <1>2, <1>5, KillingStep
<1> QED BY <1>2, <1>5, <1>6, Onward1

\* The first of a set of positions.
LEMMA FirstIs ==
  ASSUME NEW T \in SUBSET Nat, T # {}
  PROVE  First(T) \in T /\ \A j \in T : First(T) <= j
<1>1. PICK m \in T : \A j \in T : <<j, m>> \notin OpToRel(<, Nat)
  BY NatLessThanWellFounded, WFMin
<1>2. \A j \in T : ~(j < m)
  BY <1>1 DEF OpToRel
<1>3. \E i \in T : \A j \in T : i <= j
  BY <1>2
<1> QED BY <1>3 DEF First

\* A rollup that reports pass asked every gate.
LEMMA AllGates ==
  ASSUME NEW gates, DOMAIN gates \subseteq Nat, \A i \in DOMAIN gates : gates[i][1] # "pass",
         FirstFailed(gates) = "pass"
  PROVE  \A i \in DOMAIN gates : gates[i][2]
<1> DEFINE bad == {i \in DOMAIN gates : ~gates[i][2]}
<1>1. {ClassOf(g) : g \in {gates}} = {ClassOf(gates)}
  OBVIOUS
<1>2. ClassOf(gates) = "pass"
  BY <1>1, OnlyOne DEF FirstFailed
<1>3. CASE bad # {}
  <2>1. First(bad) \in bad
    BY <1>3, FirstIs
  <2>2. ClassOf(gates) = gates[First(bad)][1]
    BY <1>3 DEF ClassOf
  <2> QED BY <1>2, <2>1, <2>2
<1> QED BY <1>3

\* Gates that never say "pass", one sequence after another, never do.
LEMMA GatesJoined ==
  ASSUME NEW T, NEW g \in Seq(T), NEW h \in Seq(T)
  PROVE  /\ g \o h \in Seq(T)
         /\ (\A i \in DOMAIN g : g[i][1] # "pass") /\ (\A i \in DOMAIN h : h[i][1] # "pass") =>
               \A i \in DOMAIN (g \o h) : (g \o h)[i][1] # "pass"
         /\ (\A i \in DOMAIN (g \o h) : (g \o h)[i][2]) =>
               (\A i \in DOMAIN g : g[i][2]) /\ (\A i \in DOMAIN h : h[i][2])
<1>1. g \o h \in Seq(T)
  OBVIOUS
<1>2. \A i \in DOMAIN g : i \in DOMAIN (g \o h) /\ (g \o h)[i] = g[i]
  OBVIOUS
<1>3. \A i \in DOMAIN h : Len(g) + i \in DOMAIN (g \o h) /\ (g \o h)[Len(g) + i] = h[i]
  OBVIOUS
<1>4. \A i \in DOMAIN (g \o h) : i \in DOMAIN g \/ \E j \in DOMAIN h : i = Len(g) + j
  <2> SUFFICES ASSUME NEW i \in DOMAIN (g \o h), i \notin DOMAIN g PROVE \E j \in DOMAIN h : i = Len(g) + j
    OBVIOUS
  <2>1. i - Len(g) \in DOMAIN h /\ i = Len(g) + (i - Len(g))
    OBVIOUS
  <2> QED BY <2>1
<1>5. ASSUME \A i \in DOMAIN g : g[i][1] # "pass", \A i \in DOMAIN h : h[i][1] # "pass",
             NEW i \in DOMAIN (g \o h)
      PROVE  (g \o h)[i][1] # "pass"
  <2>1. CASE i \in DOMAIN g
    BY <1>2, <1>5, <2>1
  <2>2. CASE \E j \in DOMAIN h : i = Len(g) + j
    BY <1>3, <1>5, <2>2
  <2> QED BY <1>4, <2>1, <2>2
<1>6. (\A i \in DOMAIN (g \o h) : (g \o h)[i][2]) =>
         (\A i \in DOMAIN g : g[i][2]) /\ (\A i \in DOMAIN h : h[i][2])
  BY <1>2, <1>3
<1> QED BY <1>1, <1>5, <1>6

\* What a marker of an arm says, read off the invariant.
LEMMA Told ==
  ASSUME Marked, NEW a, NEW w, NEW s, NEW v, Has(a, w, s, v)
  PROVE  Holds(<<a, w, s>>, v, log)
  BY DEF Marked, MarkedBy, Has

\* A function on 1..n is a sequence.
LEMMA TupleOf ==
  ASSUME NEW n \in Nat, NEW T, NEW g \in [1..n -> T]
  PROVE  g \in Seq(T) /\ DOMAIN g = 1..n
  OBVIOUS

\* A rollup over two lists of gates that reports pass asked them all.
LEMMA BothGates ==
  ASSUME NEW T, NEW g \in Seq(T), NEW h \in Seq(T), FirstFailed(g \o h) = "pass",
         \A i \in DOMAIN g : g[i][1] # "pass", \A i \in DOMAIN h : h[i][1] # "pass"
  PROVE  (\A i \in DOMAIN g : g[i][2]) /\ (\A i \in DOMAIN h : h[i][2])
<1> DEFINE q == g \o h
<1>1. /\ q \in Seq(T) /\ \A i \in DOMAIN q : q[i][1] # "pass"
      /\ (\A i \in DOMAIN q : q[i][2]) =>
            (\A i \in DOMAIN g : g[i][2]) /\ (\A i \in DOMAIN h : h[i][2])
  BY GatesJoined
<1>2. FirstFailed(q) = "pass"
  OBVIOUS
<1> HIDE DEF q
<1>3. DOMAIN q \subseteq Nat
  BY <1>1
<1>4. \A i \in DOMAIN q : q[i][2]
  BY <1>1, <1>2, <1>3, AllGates
<1> QED BY <1>1, <1>4

\* Slice 1: a rollup that passes asked every gate.
LEMMA GatesS1 ==
  ASSUME S1!rollup.overall = "pass"
  PROVE  /\ S1!eval_workload("epoch0") /\ S1!eval_injection /\ S1!eval_epoch0_teardown
         /\ S1!eval_workload("epoch1") /\ S1!eval_epoch1_shutdown /\ S1!eval_final
<1> DEFINE g == S1!evaluate_run
           h == << <<"orphan_detected", S1!eval_final>>,
                   <<"invalid_ordering", /\ S1!subsequence_in_order("epoch0", S1!E0_ORDER)
                                         /\ S1!subsequence_in_order("epoch1", S1!E1_ORDER)>> >>
           T == {g[i] : i \in 1..15} \cup {h[i] : i \in 1..2}
<1>1. \A q : S1!FirstFailed(q) = FirstFailed(q)
  BY DEF S1!FirstFailed, FirstFailed, S1!ClassOf, ClassOf, S1!Only, Only, S1!First, First
<1>2. FirstFailed(g \o h) = "pass"
  BY <1>1 DEF S1!rollup, S1!failure_class
<1>3. g \in Seq(T) /\ h \in Seq(T) /\ DOMAIN g = 1..15 /\ DOMAIN h = 1..2
  <2>1. g = [i \in 1..15 |-> g[i]]
    BY DEF S1!evaluate_run
  <2>2. h = [i \in 1..2 |-> h[i]]
    OBVIOUS
  <2> HIDE DEF g, h
  <2>3. g \in [1..15 -> T] /\ h \in [1..2 -> T]
    BY <2>1, <2>2
  <2> HIDE DEF T
  <2> QED BY <2>3, TupleOf
<1>4. (\A i \in DOMAIN g : g[i][1] # "pass") /\ (\A i \in DOMAIN h : h[i][1] # "pass")
  BY DEF S1!evaluate_run
<1>5. (\A i \in DOMAIN g : g[i][2]) /\ (\A i \in DOMAIN h : h[i][2])
  <2> HIDE DEF g, h, T
  <2> QED BY <1>2, <1>3, <1>4, BothGates
<1>6. g[6][2] /\ g[7][2] /\ g[10][2] /\ g[14][2] /\ g[15][2] /\ h[1][2]
  <2> HIDE DEF g, h, T
  <2> QED BY <1>3, <1>5
<1> QED BY <1>6 DEF S1!evaluate_run

\* Slice 1: what a pass rests on did happen.
LEMMA Verdict1 ==
  ASSUME Base, Slice1Ordered, program = "slice1", S1!rollup.overall = "pass"
  PROVE  Evidence["slice1"] \subseteq log /\ NobodyLeft /\ NoAlarm
<1>1. /\ Ok("epoch0", "run", "work") /\ Ok("epoch0", "b", "signalled") /\ Ok("epoch0", "run", "pids_gone")
      /\ Ok("epoch1", "run", "work") /\ Ok("epoch1", "a", "stopped") /\ Ok("epoch1", "b", "stopped")
      /\ Has("epoch1", "root", "exit_path", "finalized_clean") /\ Has("epoch1", "root", "final_membership", 1)
      /\ NobodyLeft
  BY GatesS1, PlainS1 DEF S1!eval_workload, S1!eval_injection, S1!eval_epoch0_teardown,
     S1!eval_epoch1_shutdown, S1!eval_final, S1!evaluate_owned_processes, S1!Victim, Conns
<1>2. <<"epoch0", "run", "worked">> \in log /\ <<"epoch1", "run", "worked">> \in log
  BY <1>1, Told DEF Base, Ok, Holds, Slices
<1>3. <<"epoch0", "b", "killed">> \in log
  BY <1>1, Told DEF Base, Ok, Holds
<1>4. <<"epoch1", "a", "left">> \in log /\ <<"epoch1", "b", "left">> \in log
  BY <1>1, Told DEF Base, Ok, Holds
<1>5. <<"epoch1", "root", "alone">> \in log /\ <<"epoch1", "root", "clean">> \in log
  BY <1>1, Told DEF Base, Holds
<1>6. NoAlarm
  BY <1>1 DEF Base, Suspected, Slice1Ordered, Succession, NoAlarm, Alarms
<1> QED BY <1>1, <1>2, <1>3, <1>4, <1>5, <1>6 DEF Evidence

\* Slice 1: the last step writes a verdict that is true.
LEMMA WriteOutputs1 ==
  ASSUME Base, Slice1Ordered, program = "slice1", S1!write_outputs
  PROVE  Base' /\ Slice1Ordered' /\ program' = program /\ Passed'
<1>1. SweepStep(S1!rollup)
  BY SharedS1 DEF S1!write_outputs
<1>2. S1!rollup.overall \in {"pass", "fail"}
  BY DEF S1!rollup
<1>3. Base'
  BY <1>1, <1>2, SweepBase
<1>4. UNCHANGED <<program, arm, rec, root, act, log>> /\ overall' = S1!rollup.overall
      /\ pc' = "ended"
  BY <1>1 DEF SweepStep, Finish
<1>5. Slice1Ordered'
  BY <1>4, LeftSame, Onward1
<1>6. ASSUME overall' = "pass"
      PROVE  Evidence["slice1"] \subseteq log' /\ NobodyLeft' /\ NoAlarm'
  BY <1>4, <1>6, Verdict1 DEF NobodyLeft, RootAlive, NoAlarm
<1> QED BY <1>3, <1>4, <1>5, <1>6 DEF Passed, Evidence

\* Slice 1: the shared steps keep the order of its run.
LEMMA Shared1 ==
  ASSUME Base, Slice1Ordered, program = "slice1",
         \/ S1!Preflight \/ S1!ClusterHead \/ S1!ClusterWorker \/ S1!LaunchRoot \/ S1!JoinActor
         \/ S1!StopConnectors \/ S1!AwaitFinal \/ S1!AwaitExit
  PROVE  Fine /\ Slice1Ordered' /\ program' = program
<1>0. ASSUME Onward(SharedKeys), pc' \notin {"inject", "victim_gone", "victim_ping", "survivor_probe", "classify",
                                             "discard", "root_gone", "arm_done"}
      PROVE  Slice1Ordered' /\ program' = program
  <2>1. Left(<<"epoch0", "run", "pids_gone">>)
    BY <1>0 DEF Onward, SharedKeys
  <2> QED BY <1>0, <2>1, Onward1 DEF Onward
<1>1. CASE PreflightStep \/ HeadStep \/ WorkerStep
  <2>1. Fine
    BY <1>1, PreflightFine, HeadFine, WorkerFine
  <2>2. program' = program /\ arm' = arm /\ pc' \in {"head", "worker", "launch", "ended", "finalize"}
    BY <1>1 DEF PreflightStep, HeadStep, WorkerStep, Finish
  <2>3. Succession("epoch0", "epoch1", {"root_gone"}, "pids_gone")'
    BY <1>1, SuccessionBegins DEF Slice1Ordered, Overs, Reaps
  <2> QED BY <2>1, <2>2, <2>3 DEF Slice1Ordered
<1>2. CASE LaunchStep
  <2>1. Fine
    BY <1>2, LaunchFine
  <2>2. program' = program /\ pc' = "ready"
    BY <1>2 DEF LaunchStep
  <2>3. Succession("epoch0", "epoch1", {"root_gone"}, "pids_gone")'
    BY <1>2, SuccessionLaunch DEF Slice1Ordered, Overs, Reaps
  <2> QED BY <2>1, <2>2, <2>3 DEF Slice1Ordered
<1>3. CASE \E k \in Conns : Joining(k)
  <2>1. Fine
    BY <1>3, JoiningFine
  <2>2. Onward(SharedKeys)
    BY <1>3, SharedOnward
  <2>3. pc' \in {"start_a", "start_b", "actor_b", "join"}
    BY <1>3 DEF Joining, ActorStep, StartStep, Conns
  <2> QED BY <1>0, <2>1, <2>2, <2>3
<1>4. CASE At("stop_a") /\ StopStep("a", FALSE, "stop_b")
  <2>1. Inside /\ pc' = "stop_b"
    BY <1>4 DEF Inside, StopStep
  <2>2. Fine
    BY <1>4, <2>1, StopFine DEF Conns
  <2>3. Onward(SharedKeys)
    BY <1>4, <2>1, StopOnward
  <2> QED BY <1>0, <2>1, <2>2, <2>3
<1>5. CASE At("stop_b") /\ StopStep("b", TRUE, "await_final")
  <2>1. Inside /\ pc' = "await_final"
    BY <1>5 DEF Inside, StopStep
  <2>2. Fine
    BY <1>5, <2>1, StopFine DEF Conns
  <2>3. Onward(SharedKeys)
    BY <1>5, <2>1, StopOnward
  <2> QED BY <1>0, <2>1, <2>2, <2>3
<1>6. CASE AwaitFinalStep("await_exit")
  <2>1. Fine /\ Onward(SharedKeys) /\ pc' = "await_exit"
    BY <1>6, AwaitFinalFine, SharedOnward DEF AwaitFinalStep
  <2> QED BY <1>0, <2>1
<1>7. CASE AwaitExitStep("epoch1_gone")
  <2>1. Fine /\ Onward(SharedKeys) /\ pc' = "epoch1_gone"
    BY <1>7, AwaitExitFine, SharedOnward DEF AwaitExitStep
  <2> QED BY <1>0, <2>1
<1> QED BY <1>1, <1>2, <1>3, <1>4, <1>5, <1>6, <1>7, SharedS1, PlainS1
       DEF S1!Preflight, S1!ClusterHead, S1!ClusterWorker, S1!LaunchRoot, S1!JoinActor, S1!StopConnectors,
           S1!AwaitFinal, S1!AwaitExit, S1!At

\* Every step of the driver of slice 1 keeps the invariant.
LEMMA Slice1Keeps ==
  ASSUME IInv, program = "slice1", S1!Driver
  PROVE  IInv'
<1>1. Base /\ Slice1Ordered
  BY DEF IInv, Ordered
<1>2. \/ Base' /\ Slice1Ordered' /\ program' = program /\ Passed'
      \/ Fine /\ Slice1Ordered' /\ program' = program
  BY <1>1, Shared1, WriteOutputs1, AwaitReady1, BringUpGates1, Workload1, Inject1, PostLoss1, Classify1,
     Discard1, Teardown1, KillEpoch1, Shutdown1, EndOfEpochs1, FinalizeRun1
  DEF S1!Driver, S1!live_run, S1!crossnode_live_run, S1!run_two_epochs, S1!bring_up_epoch
<1>3. Fine => Base' /\ Passed'
  BY DEF Fine, Passed
<1> QED BY <1>2, <1>3 DEF IInv, Ordered, Repeated

-----------------------------------------------------------------------------
(* Slice 2.                                                                *)

\* What the instance of Slice2 shares is what the module shares.
LEMMA PlainS2 ==
  /\ S2!Conns = Conns /\ S2!Members = Members /\ S2!Running = Running
  /\ (S2!RootAlive <=> RootAlive) /\ (S2!RootServes <=> RootServes) /\ (S2!NobodyLeft <=> NobodyLeft)
  /\ (S2!Fault <=> Fault) /\ (\A ok, can : S2!Outcome(ok, can) <=> Outcome(ok, can))
  /\ \A f, g : S2!@@(f, g) = f @@ g
  /\ \A x, v : S2!:>(x, v) = (x :> v)
  /\ \A a, w, s, v : S2!Has(a, w, s, v) <=> Has(a, w, s, v)
  /\ \A a, w, s : S2!Ok(a, w, s) <=> Ok(a, w, s)
  /\ \A w, s, v : S2!Put(w, s, v) <=> Put(w, s, v)
<1>1. S2!Conns = Conns
  BY DEF S2!Conns, Conns
<1>2. S2!Members = Members
  BY <1>1 DEF S2!Members, Members, S2!Cardinality, Cardinality
<1>3. S2!Running = Running
  BY <1>1 DEF S2!Running, Running
<1>4. S2!RootAlive <=> RootAlive
  BY DEF S2!RootAlive, RootAlive
<1>5. S2!RootServes <=> RootServes
  BY DEF S2!RootServes, RootServes
<1>6. S2!NobodyLeft <=> NobodyLeft
  BY <1>1, <1>4 DEF S2!NobodyLeft, NobodyLeft
<1>7. S2!Fault <=> Fault
  BY DEF S2!Fault, Fault
<1>8. \A ok, can : S2!Outcome(ok, can) <=> Outcome(ok, can)
  BY <1>7 DEF S2!Outcome, Outcome
<1>9. \A f, g : S2!@@(f, g) = f @@ g
  BY DEF S2!@@, @@, S2!Merge, Merge, S2!Only, Only
<1>10. \A x, v : S2!:>(x, v) = (x :> v)
  BY DEF S2!:>, :>
<1>11. \A a, w, s, v : S2!Has(a, w, s, v) <=> Has(a, w, s, v)
  BY DEF S2!Has, Has
<1>12. \A a, w, s : S2!Ok(a, w, s) <=> Ok(a, w, s)
  BY <1>11 DEF S2!Ok, Ok
<1>13. \A w, s, v : S2!Put(w, s, v) <=> Put(w, s, v)
  BY <1>9, <1>10 DEF S2!Put, Put
<1> QED BY <1>1, <1>2, <1>3, <1>4, <1>5, <1>6, <1>7, <1>8, <1>9, <1>10, <1>11, <1>12, <1>13

\* The shared steps of S2 are this module's.
LEMMA SharedS2 ==
  /\ S2!PreflightStep => PreflightStep
  /\ S2!HeadStep => HeadStep
  /\ S2!WorkerStep => WorkerStep
  /\ S2!LaunchStep => LaunchStep
  /\ S2!ReadyStep => ReadyStep
  /\ (\A k, next : S2!ActorStep(k, next) => ActorStep(k, next))
  /\ (\A k, next : S2!StartStep(k, next) => StartStep(k, next))
  /\ (\A k : S2!Joining(k) => Joining(k))
  /\ S2!JoinHealthStep => JoinHealthStep
  /\ (\A k, last, next : S2!StopStep(k, last, next) => StopStep(k, last, next))
  /\ (\A next : S2!AwaitFinalStep(next) => AwaitFinalStep(next))
  /\ (\A next : S2!AwaitExitStep(next) => AwaitExitStep(next))
  /\ (\A next : S2!DiscardStep(next) => DiscardStep(next))
  /\ S2!FinalizeStep => FinalizeStep
  /\ (\A result : S2!SweepStep(result) => SweepStep(result))
<1>1. S2!PreflightStep => PreflightStep
  BY PlainS2 DEF S2!PreflightStep, S2!Finish, S2!At, S2!Goto, S2!Raise, S2!OrRaise, S2!SameIsland,
     S2!SameRun, PreflightStep, Finish
<1>2. S2!HeadStep => HeadStep
  BY PlainS2 DEF S2!HeadStep, S2!At, S2!Goto, S2!Raise, S2!OrRaise, S2!SameIsland, S2!SameRun, HeadStep
<1>3. S2!WorkerStep => WorkerStep
  BY PlainS2 DEF S2!WorkerStep, S2!At, S2!Goto, S2!Raise, S2!OrRaise, S2!SameIsland, S2!SameRun,
     WorkerStep
<1>4. S2!LaunchStep => LaunchStep
  BY PlainS2 DEF S2!LaunchStep, S2!NewIsland, S2!At, S2!Goto, S2!Raise, S2!OrRaise, S2!SameIsland,
     S2!SameRun, LaunchStep, NewIsland
<1>5. S2!ReadyStep => ReadyStep
  BY PlainS2 DEF S2!ReadyStep, S2!WaitForFile, S2!At, S2!Goto, S2!Raise, S2!OrRaise, S2!SameIsland,
     S2!SameRun, ReadyStep, WaitForFile
<1>6. \A k, next : S2!ActorStep(k, next) => ActorStep(k, next)
  BY PlainS2 DEF S2!ActorStep, S2!At, S2!Goto, S2!Raise, S2!OrRaise, S2!SameIsland, S2!SameRun,
     ActorStep
<1>7. \A k, next : S2!StartStep(k, next) => StartStep(k, next)
  BY PlainS2 DEF S2!StartStep, S2!StartHpx, S2!At, S2!Goto, S2!Raise, S2!OrRaise, S2!SameIsland,
     S2!SameRun, StartStep, StartHpx
<1>8. \A k : S2!Joining(k) => Joining(k)
  BY PlainS2, <1>6, <1>7 DEF S2!Joining, S2!At, S2!Goto, S2!Raise, S2!OrRaise, S2!SameIsland,
     S2!SameRun, Joining
<1>9. S2!JoinHealthStep => JoinHealthStep
  BY PlainS2 DEF S2!JoinHealthStep, S2!At, S2!Goto, S2!Raise, S2!OrRaise, S2!SameIsland, S2!SameRun,
     JoinHealthStep
<1>10. \A k, last, next : S2!StopStep(k, last, next) => StopStep(k, last, next)
  BY PlainS2 DEF S2!StopStep, S2!StopHpx, S2!At, S2!Goto, S2!Raise, S2!OrRaise, S2!SameIsland,
     S2!SameRun, StopStep, StopHpx
<1>11. \A next : S2!AwaitFinalStep(next) => AwaitFinalStep(next)
  BY PlainS2 DEF S2!AwaitFinalStep, S2!WaitForFile, S2!At, S2!Goto, S2!Raise, S2!OrRaise,
     S2!SameIsland, S2!SameRun, AwaitFinalStep, WaitForFile
<1>12. \A next : S2!AwaitExitStep(next) => AwaitExitStep(next)
  BY PlainS2 DEF S2!AwaitExitStep, S2!WaitRoot, S2!ExitPaths, S2!At, S2!Goto, S2!Raise, S2!OrRaise,
     S2!SameIsland, S2!SameRun, AwaitExitStep, WaitRoot, ExitPaths
<1>13. \A next : S2!DiscardStep(next) => DiscardStep(next)
  BY PlainS2 DEF S2!DiscardStep, S2!Killed, S2!At, S2!Goto, S2!Raise, S2!OrRaise, S2!SameIsland,
     S2!SameRun, DiscardStep, Killed
<1>14. S2!FinalizeStep => FinalizeStep
  BY PlainS2 DEF S2!FinalizeStep, S2!Killed, S2!KilledRoot, S2!At, S2!Goto, S2!Raise, S2!OrRaise,
     S2!SameIsland, S2!SameRun, FinalizeStep, Killed, KilledRoot
<1>15. \A result : S2!SweepStep(result) => SweepStep(result)
  BY PlainS2 DEF S2!SweepStep, S2!Finish, S2!At, S2!Goto, S2!Raise, S2!OrRaise, S2!SameIsland,
     S2!SameRun, SweepStep, Finish
<1> QED BY <1>1, <1>2, <1>3, <1>4, <1>5, <1>6, <1>7, <1>8, <1>9, <1>10, <1>11, <1>12, <1>13, <1>14,
           <1>15

\* A step of S2 goes on to its next place, or raises.
LEMMA AdvanceS2 ==
  ASSUME NEW to, NEW l, S2!advance(to, l), exc \in BOOLEAN
  PROVE  exc' \in BOOLEAN /\ pc' \in {l, "finalize"}
  BY DEF S2!advance, S2!Advance, S2!Raise, S2!Goto

\* The order of slice 2 within the island.
LEMMA Onward2 ==
  ASSUME Slice2Ordered, arm' = arm, pc' \notin {"preflight", "head", "worker", "launch"},
         \A e \in log' : e \in log \/ e[3] \notin Alarms, files \subseteq files',
         pc' \in {"fence", "observe", "stop_a", "stop_b"} => "completion" \in files',
         \A k \in Conns : act'[k] = "left" => act[k] = "left" \/ "completion" \in files'
  PROVE  Slice2Ordered'
<1>1. NoAlarm'
  BY DEF Slice2Ordered, NoAlarm
<1> QED BY <1>1 DEF Slice2Ordered, Beginning

\* A step on an island that is left as it is, and that only puts markers.
LEMMA Still2 ==
  ASSUME Base, Slice2Ordered, UNCHANGED <<program, place, arm>>, SameIsland, SameRun, Inside, exc' \in BOOLEAN,
         pc' \notin {"ended", "preflight", "head", "worker", "launch"}, Marked',
         pc' \in {"fence", "observe", "stop_a", "stop_b"} => "completion" \in files,
         UNCHANGED faults \/ \E ok, can : Outcome(ok, can)
  PROVE  Fine /\ Slice2Ordered' /\ program' = program
<1>1. faults' \in 0..MaxFaults[program']
  BY OutcomeTyped, FaultTyped DEF Base
<1>2. Fine
  BY <1>1, TellingStep
<1>3. Slice2Ordered'
  BY Onward2
<1> QED BY <1>2, <1>3

\* Slice 2: BringUpGates keeps the order of its run.
LEMMA BringUpGates2 ==
  ASSUME Base, Slice2Ordered, S2!BringUpGates
  PROVE  Fine /\ Slice2Ordered' /\ program' = program
<1>1. exc \in BOOLEAN
  BY DEF Base, Typed, SupervisorTypeOK
<1>2. /\ UNCHANGED <<program, place, faults, arm, rec>> /\ SameIsland /\ SameRun /\ Inside
      /\ pc' \in {"work1", "finalize"} /\ exc' \in BOOLEAN
  BY <1>1, AdvanceS2 DEF S2!BringUpGates, S2!At, S2!SameIsland, S2!SameRun, S2!Raise, Inside
<1>3. Marked'
  BY <1>2, MarkedSame DEF Base
<1> QED BY <1>2, <1>3, Still2

\* Slice 2: _run_case keeps the order of its run.
LEMMA RunCase2 ==
  ASSUME Base, Slice2Ordered, program = "slice2", NEW w \in {"work1", "work2"}, NEW to,
         NEW next \in {"pre_idle", "publish"}, S2!_run_case(w, to, next)
  PROVE  Fine /\ Slice2Ordered' /\ program' = program
<1>1. PICK ok, v :
        /\ ok \in BOOLEAN
        /\ S2!TopKCase(ok)
        /\ rec' = (<<arm, "run", w>> :> ok) @@ (<<arm, "run", "work2_state">> :> v) @@ rec
        /\ log' = IF ok THEN log \cup {<<arm, "run", w>>} ELSE log
        /\ IF ok THEN S2!advance(to, next) ELSE S2!Raise
  BY PlainS2 DEF S2!_run_case
<1>2. exc \in BOOLEAN
  BY DEF Base, Typed, SupervisorTypeOK
<1>3. /\ UNCHANGED <<program, place, cluster, root, act, stale, files, finalMembers, arm>> /\ SameRun
      /\ pc = w /\ pc' \in {next, "finalize"} /\ exc' \in BOOLEAN /\ Inside
  BY <1>1, <1>2, AdvanceS2 DEF S2!_run_case, S2!At, S2!SameRun, S2!Raise, Inside
<1>4. log \subseteq log' /\ \A e \in log' : e \in log \/ e[3] \notin Alarms
  BY <1>1 DEF Alarms
<1>5. Holds(<<arm, "run", w>>, ok, log') /\ Holds(<<arm, "run", "work2_state">>, v, log')
  <2>1. Holds(<<arm, "run", "work2_state">>, v, log')
    BY Mute DEF Telling, S3!Bad
  <2> QED BY <1>1, <2>1 DEF Holds, S3!Bad
<1>6. MarkedBy((<<arm, "run", w>> :> ok) @@ (<<arm, "run", "work2_state">> :> v), log')
  BY <1>5, MarkedSingle, MarkAll
<1>7. Marked'
  BY <1>1, <1>3, <1>4, <1>6, MarkedMerge DEF Base
<1>8. faults' \in 0..MaxFaults[program']
  BY <1>1, <1>3, PlainS2, OutcomeTyped DEF S2!TopKCase, Base
<1>9. /\ overall' = "none" /\ pc' # "ended" /\ \A e \in log' : e \in log \/ e[3] # "suspected_alive"
  BY <1>3, <1>4 DEF Alarms, Inside, Base, Typed, SupervisorTypeOK
<1>10. Fine
  BY <1>3, <1>4, <1>7, <1>8, <1>9, EnvBefore, MovingStep
<1> QED BY <1>3, <1>4, <1>10, Onward2

\* Slice 2: EnterIdle and LeaveIdle keep the order of its run.
LEMMA Idle2 ==
  ASSUME Base, Slice2Ordered, S2!EnterIdle \/ S2!LeaveIdle
  PROVE  Fine /\ Slice2Ordered' /\ program' = program
<1>1. exc \in BOOLEAN
  BY DEF Base, Typed, SupervisorTypeOK
<1>2. /\ UNCHANGED <<program, place, arm>> /\ SameIsland /\ SameRun /\ Inside
      /\ pc' \in {"post_idle", "work2", "finalize"} /\ exc' \in BOOLEAN /\ (\E ok, can : Outcome(ok, can))
  BY <1>1, AdvanceS2, PlainS2 DEF S2!EnterIdle, S2!LeaveIdle, S2!At, S2!SameIsland, S2!SameRun,
     S2!Goto, Inside
<1>3. Marked'
  <2>1. CASE \E u, v : rec' = (<<arm, "contract", "attempts">> :> u) @@ (<<arm, "run", "pre_health">> :> v) @@ rec
    <3>1. PICK u, v : rec' = (<<arm, "contract", "attempts">> :> u) @@ (<<arm, "run", "pre_health">> :> v) @@ rec
      BY <2>1
    <3>2. Holds(<<arm, "contract", "attempts">>, u, log') /\ Holds(<<arm, "run", "pre_health">>, v, log')
      BY Mute DEF Telling, S3!Bad
    <3>3. MarkedBy((<<arm, "contract", "attempts">> :> u) @@ (<<arm, "run", "pre_health">> :> v), log')
      BY <3>2, MarkedSingle, MarkAll
    <3> QED BY <1>2, <3>1, <3>3, MarkedMerge DEF Base
  <2>2. CASE UNCHANGED rec \/ \E v : Put("run", "post_membership", v)
    BY <1>2, <2>2, MarkedSame, MutePut DEF Base, Telling, S3!Bad
  <2> QED BY <2>1, <2>2, PlainS2 DEF S2!EnterIdle, S2!LeaveIdle
<1> QED BY <1>2, <1>3, Still2

\* Slice 2: PublishCompletion keeps the order of its run.
LEMMA Publish2 ==
  ASSUME Base, Slice2Ordered, S2!PublishCompletion
  PROVE  Fine /\ Slice2Ordered' /\ program' = program
<1>1. PICK u, v, accepted :
        /\ rec' = (<<arm, "run", "stale_observed">> :> u) @@ (<<arm, "contract", "attempts">> :> v) @@ rec
        /\ files' = IF accepted THEN files \cup {"completion"} ELSE files
        /\ IF accepted THEN S2!advance("COMPLETION_PUBLISHED", "fence") ELSE S2!Raise
  BY PlainS2 DEF S2!PublishCompletion
<1>2. exc \in BOOLEAN
  BY DEF Base, Typed, SupervisorTypeOK
<1>3. /\ UNCHANGED <<program, place, cluster, root, act, stale, finalMembers, faults, log, arm>> /\ SameRun
      /\ pc' \in {"fence", "finalize"} /\ (pc' = "fence" => "completion" \in files') /\ exc' \in BOOLEAN /\ Inside
  BY <1>1, <1>2, AdvanceS2 DEF S2!PublishCompletion, S2!At, S2!SameRun, S2!Raise, Inside
<1>4. Holds(<<arm, "run", "stale_observed">>, u, log') /\ Holds(<<arm, "contract", "attempts">>, v, log')
  BY Mute DEF Telling, S3!Bad
<1>5. MarkedBy((<<arm, "run", "stale_observed">> :> u) @@ (<<arm, "contract", "attempts">> :> v), log')
  BY <1>4, MarkedSingle, MarkAll
<1>6. Marked'
  BY <1>1, <1>3, <1>5, MarkedMerge DEF Base
<1>7. faults' \in 0..MaxFaults[program'] /\ overall' = "none" /\ pc' # "ended"
  BY <1>3, FaultTyped DEF Inside, Base, Typed, SupervisorTypeOK
<1>8. files' \subseteq Files /\ files \subseteq files' /\ files' \cap TellingFiles \subseteq files
  BY <1>1, EnvBefore DEF Files, TellingFiles, S3!Bad
<1>9. Fine
  BY <1>3, <1>6, <1>7, <1>8, EnvBefore, MovingStep
<1> QED BY <1>3, <1>8, <1>9, Onward2

\* Slice 2: ProbeFence and ObserveCompletion keep the order of its run.
LEMMA Fence2 ==
  ASSUME Base, Slice2Ordered, S2!ProbeFence \/ S2!ObserveCompletion
  PROVE  Fine /\ Slice2Ordered' /\ program' = program
<1>1. exc \in BOOLEAN
  BY DEF Base, Typed, SupervisorTypeOK
<1>2. /\ UNCHANGED <<program, place, arm>> /\ SameIsland /\ SameRun /\ Inside /\ pc \in {"fence", "observe"}
      /\ pc' \in {"observe", "stop_a", "finalize"} /\ exc' \in BOOLEAN
      /\ UNCHANGED faults \/ \E ok, can : Outcome(ok, can)
  BY <1>1, AdvanceS2, PlainS2
  DEF S2!ProbeFence, S2!ObserveCompletion, S2!At, S2!SameIsland, S2!SameRun, S2!Goto, Inside
<1>3. Marked'
  <2>1. CASE \E u, v : rec' = (<<arm, "contract", "attempts">> :> u) @@ (<<arm, "run", "fence">> :> v) @@ rec
    <3>1. PICK u, v : rec' = (<<arm, "contract", "attempts">> :> u) @@ (<<arm, "run", "fence">> :> v) @@ rec
      BY <2>1
    <3>2. Holds(<<arm, "contract", "attempts">>, u, log') /\ Holds(<<arm, "run", "fence">>, v, log')
      BY Mute DEF Telling, S3!Bad
    <3>3. MarkedBy((<<arm, "contract", "attempts">> :> u) @@ (<<arm, "run", "fence">> :> v), log')
      BY <3>2, MarkedSingle, MarkAll
    <3> QED BY <1>2, <3>1, <3>3, MarkedMerge DEF Base
  <2>2. CASE \E v : rec' = [x \in {<<arm, k, "observed">> : k \in Conns} |-> v] @@ rec
    <3>1. PICK v : rec' = [x \in {<<arm, k, "observed">> : k \in Conns} |-> v] @@ rec
      BY <2>2
    <3>2. MarkedBy([x \in {<<arm, k, "observed">> : k \in Conns} |-> v], log')
      BY Mute DEF MarkedBy, Telling, S3!Bad
    <3> QED BY <1>2, <3>1, <3>2, MarkedMerge DEF Base
  <2> QED BY <2>1, <2>2, PlainS2 DEF S2!ProbeFence, S2!ObserveCompletion
<1> QED BY <1>2, <1>3, Still2 DEF Slice2Ordered

\* Slice 2: RecordRootAlone and ConfirmGone keep the order of its run.
LEMMA RootAlone2 ==
  ASSUME Base, Slice2Ordered, S2!RecordRootAlone \/ S2!ConfirmGone
  PROVE  Fine /\ Slice2Ordered' /\ program' = program
<1>1. exc \in BOOLEAN
  BY DEF Base, Typed, SupervisorTypeOK
<1>2. /\ UNCHANGED <<program, place, arm>> /\ SameIsland /\ SameRun /\ pc \in {"root_alone", "gone"} /\ Inside
      /\ pc' \in {"await_exit", "finalize"} /\ exc' \in BOOLEAN
      /\ UNCHANGED faults \/ \E ok, can : Outcome(ok, can)
  BY <1>1, AdvanceS2, PlainS2
  DEF S2!RecordRootAlone, S2!ConfirmGone, S2!WaitPidGone, S2!At, S2!SameIsland, S2!SameRun, S2!Goto, Inside
<1>3. UNCHANGED rec \/ \E v : Put("run", "actor_pids_gone", v)
  BY PlainS2 DEF S2!RecordRootAlone, S2!ConfirmGone
<1>4. Marked'
  BY <1>2, <1>3, MarkedSame, MutePut DEF Base, Telling, S3!Bad
<1> QED BY <1>2, <1>4, Still2

\* No connector leaves, and no file comes or goes.
Calm == files' = files /\ \A k \in Conns : act'[k] = "left" => act[k] = "left"

\* A shared step is fine, onward and calm.
LEMMA SharedCalm ==
  ASSUME Base, NEW next, next \notin {"preflight", "head", "worker", "launch", "ended"},
         \/ ReadyStep \/ (\E k \in Conns : Joining(k)) \/ JoinHealthStep
         \/ AwaitFinalStep(next) \/ AwaitExitStep(next) \/ DiscardStep(next) \/ FinalizeStep
  PROVE  Fine /\ Onward(SharedKeys) /\ Calm
<1>1. Fine
  BY ReadyFine, JoiningFine, JoinHealthFine, AwaitFinalFine, AwaitExitFine, DiscardFine, FinalizeFine
<1>2. Onward(SharedKeys)
  BY SharedOnward
<1>3. Calm
  <2>1. act \in [Conns -> ActorStates]
    BY EnvBefore
  <2>2. CASE \E k \in Conns : Joining(k)
    <3>1. PICK k \in Conns : Joining(k)
      BY <2>2
    <3> QED BY <2>1, <3>1 DEF Joining, ActorStep, StartStep, StartHpx, Calm
  <2>3. CASE ReadyStep \/ JoinHealthStep \/ AwaitFinalStep(next) \/ AwaitExitStep(next)
    BY <2>3 DEF ReadyStep, JoinHealthStep, AwaitFinalStep, AwaitExitStep, Calm
  <2>4. CASE DiscardStep(next) \/ FinalizeStep
    BY <2>4 DEF DiscardStep, FinalizeStep, Killed, Calm
  <2> QED BY <2>2, <2>3, <2>4
<1> QED BY <1>1, <1>2, <1>3

\* Slice 2: the shared steps keep the order of its run.
LEMMA Shared2 ==
  ASSUME Base, Slice2Ordered,
         \/ S2!Preflight \/ S2!ClusterHead \/ S2!ClusterWorker \/ S2!LaunchRoot \/ S2!AwaitReady \/ S2!JoinActor
         \/ S2!JoinHealth \/ S2!StopConnectors \/ S2!AwaitFinal \/ S2!AwaitExit \/ S2!DiscardActors \/ S2!Finalize
  PROVE  Fine /\ Slice2Ordered' /\ program' = program
<1>0. ASSUME Onward(SharedKeys), Calm, pc' \notin {"fence", "observe", "stop_a", "stop_b"}
      PROVE  Slice2Ordered' /\ program' = program
  BY <1>0, Onward2 DEF Onward, Calm
<1>1. CASE PreflightStep \/ HeadStep \/ WorkerStep
  <2>1. Fine
    BY <1>1, PreflightFine, HeadFine, WorkerFine
  <2>2. /\ UNCHANGED <<program, arm, root, act, log, files>> /\ Beginning
        /\ pc' \in {"head", "worker", "launch", "ended", "finalize"}
    BY <1>1 DEF PreflightStep, HeadStep, WorkerStep, Finish, Beginning
  <2> QED BY <2>1, <2>2 DEF Slice2Ordered, NoAlarm, Untouched
<1>2. CASE LaunchStep
  <2>1. Fine
    BY <1>2, LaunchFine
  <2>2. program' = program /\ pc' = "ready" /\ arm' = arm /\ NewIsland(arm) /\ Untouched /\ NoAlarm
    BY <1>2 DEF LaunchStep, Slice2Ordered
  <2>3. log' = log /\ \A k \in Conns : act'[k] = "none"
    BY <2>2 DEF NewIsland, Untouched, RootAlive
  <2> QED BY <2>1, <2>2, <2>3 DEF Slice2Ordered, NoAlarm, Beginning
<1>3. CASE \/ ReadyStep \/ (\E k \in Conns : Joining(k)) \/ JoinHealthStep
           \/ AwaitFinalStep("root_alone") \/ AwaitExitStep("discard") \/ DiscardStep("gone") \/ FinalizeStep
  <2>1. Fine /\ Onward(SharedKeys) /\ Calm
    BY <1>3, SharedCalm
  <2>2. pc' \notin {"fence", "observe", "stop_a", "stop_b"}
    BY <1>3 DEF ReadyStep, Joining, ActorStep, StartStep, JoinHealthStep, AwaitFinalStep, AwaitExitStep,
       DiscardStep, FinalizeStep
  <2> QED BY <1>0, <2>1, <2>2
<1>4. ASSUME NEW k \in Conns, NEW last \in BOOLEAN, NEW next \in {"stop_b", "await_final"},
             At("stop_a") \/ At("stop_b"), StopStep(k, last, next)
      PROVE  Fine /\ Slice2Ordered' /\ program' = program
  <2>1. Inside /\ pc' = next /\ UNCHANGED <<program, place>>
    BY <1>4 DEF Inside, StopStep
  <2>2. Fine
    BY <1>4, <2>1, StopFine
  <2>3. Onward(SharedKeys)
    BY <1>4, <2>1, StopOnward
  <2>4. files \subseteq files' /\ "completion" \in files
    BY <1>4 DEF StopStep, Slice2Ordered
  <2> QED BY <2>1, <2>2, <2>3, <2>4, Onward2 DEF Onward
<1>5. CASE S2!StopConnectors
  BY <1>4, <1>5, SharedS2 DEF S2!StopConnectors, S2!At, Conns
<1> QED BY <1>1, <1>2, <1>3, <1>5, SharedS2, PlainS2
       DEF S2!Preflight, S2!ClusterHead, S2!ClusterWorker, S2!LaunchRoot, S2!JoinActor, S2!AwaitReady,
           S2!JoinHealth, S2!AwaitFinal, S2!AwaitExit, S2!DiscardActors, S2!Finalize

\* Slice 2: a rollup that passes asked every gate.
LEMMA GatesS2 ==
  ASSUME S2!rollup.overall = "pass"
  PROVE  /\ S2!eval_work("work1") /\ S2!eval_work("work2") /\ S2!eval_departure
         /\ S2!eval_root_alone /\ S2!eval_finalize /\ S2!eval_final
<1> DEFINE g == S2!Gates
<1>1. \A q : S2!FirstFailed(q) = FirstFailed(q)
  BY DEF S2!FirstFailed, FirstFailed, S2!ClassOf, ClassOf, S2!Only, Only, S2!First, First
<1>2. FirstFailed(g) = "pass"
  BY <1>1 DEF S2!rollup
<1>3. DOMAIN g = 1..15 /\ \A i \in DOMAIN g : g[i][1] # "pass"
  BY DEF S2!Gates
<1>4. \A i \in DOMAIN g : g[i][2]
  <2> HIDE DEF g
  <2>1. DOMAIN g \subseteq Nat
    BY <1>3
  <2> QED BY <1>2, <1>3, <2>1, AllGates
<1>5. g[4][2] /\ g[6][2] /\ g[10][2] /\ g[11][2] /\ g[12][2] /\ g[15][2]
  <2> HIDE DEF g
  <2> QED BY <1>3, <1>4
<1> QED BY <1>5 DEF S2!Gates

\* Slice 2: what a pass rests on did happen.
LEMMA Verdict2 ==
  ASSUME Base, Slice2Ordered, S2!rollup.overall = "pass"
  PROVE  Evidence["slice2"] \subseteq log /\ NobodyLeft /\ NoAlarm
<1>1. /\ Ok("island", "run", "work1") /\ Ok("island", "run", "work2")
      /\ Ok("island", "a", "stopped") /\ Ok("island", "b", "stopped")
      /\ Has("island", "root", "exit_path", "finalized_clean") /\ Has("island", "root", "final_membership", 1)
      /\ NobodyLeft /\ NoAlarm
  BY GatesS2, PlainS2 DEF S2!eval_work, S2!eval_departure, S2!eval_root_alone, S2!eval_finalize,
     S2!eval_final, Conns, Slice2Ordered
<1>2. <<"island", "run", "work1">> \in log /\ <<"island", "run", "work2">> \in log
  BY <1>1, Told DEF Base, Ok, Holds
<1>3. <<"island", "a", "left">> \in log /\ <<"island", "b", "left">> \in log
  BY <1>1, Told DEF Base, Ok, Holds
<1>4. <<"island", "root", "alone">> \in log /\ <<"island", "root", "clean">> \in log
  BY <1>1, Told DEF Base, Holds
<1> QED BY <1>1, <1>2, <1>3, <1>4 DEF Evidence

\* Slice 2: the last step writes a verdict that is true.
LEMMA Sweep2 ==
  ASSUME Base, Slice2Ordered, program = "slice2", S2!Sweep
  PROVE  Base' /\ Slice2Ordered' /\ program' = program /\ Passed'
<1>1. SweepStep(S2!rollup)
  BY SharedS2 DEF S2!Sweep
<1>2. S2!rollup.overall \in {"pass", "fail"}
  BY DEF S2!rollup
<1>3. Base'
  BY <1>1, <1>2, SweepBase
<1>4. UNCHANGED <<program, arm, rec, root, act, log, files>> /\ overall' = S2!rollup.overall
      /\ pc' = "ended"
  BY <1>1 DEF SweepStep, Finish
<1>5. Slice2Ordered'
  BY <1>4, Onward2
<1>6. ASSUME overall' = "pass"
      PROVE  Evidence["slice2"] \subseteq log' /\ NobodyLeft' /\ NoAlarm'
  BY <1>4, <1>6, Verdict2 DEF NobodyLeft, RootAlive, NoAlarm
<1> QED BY <1>3, <1>4, <1>5, <1>6 DEF Passed, Evidence

\* Every step of the driver of slice 2 keeps the invariant.
LEMMA Slice2Keeps ==
  ASSUME IInv, program = "slice2", S2!Driver
  PROVE  IInv'
<1>1. Base /\ Slice2Ordered
  BY DEF IInv, Ordered
<1>2. S2!RunWork1 \/ S2!RunWork2 => Fine /\ Slice2Ordered' /\ program' = program
  BY <1>1, RunCase2 DEF S2!RunWork1, S2!RunWork2
<1>3. \/ Base' /\ Slice2Ordered' /\ program' = program /\ Passed'
      \/ Fine /\ Slice2Ordered' /\ program' = program
  BY <1>1, <1>2, Shared2, Sweep2, BringUpGates2, Idle2, Publish2, Fence2, RootAlone2
  DEF S2!Driver, S2!live_local_run, S2!crossnode_live_run, S2!_island_lifecycle
<1>4. Fine => Base' /\ Passed'
  BY DEF Fine, Passed
<1> QED BY <1>3, <1>4 DEF IInv, Ordered, Repeated

-----------------------------------------------------------------------------
(* Slice 3.                                                                *)

\* What the instance of Slice3 shares is what the module shares.
LEMMA PlainS3 ==
  /\ S3!Conns = Conns /\ S3!Members = Members /\ S3!Running = Running
  /\ (S3!RootAlive <=> RootAlive) /\ (S3!RootServes <=> RootServes) /\ (S3!NobodyLeft <=> NobodyLeft)
  /\ (S3!Fault <=> Fault) /\ (\A ok, can : S3!Outcome(ok, can) <=> Outcome(ok, can))
  /\ \A f, g : S3!@@(f, g) = f @@ g
  /\ \A x, v : S3!:>(x, v) = (x :> v)
  /\ \A a, w, s, v : S3!Has(a, w, s, v) <=> Has(a, w, s, v)
  /\ \A a, w, s : S3!Ok(a, w, s) <=> Ok(a, w, s)
  /\ \A w, s, v : S3!Put(w, s, v) <=> Put(w, s, v)
<1>1. S3!Conns = Conns
  BY DEF S3!Conns, Conns
<1>2. S3!Members = Members
  BY <1>1 DEF S3!Members, Members, S3!Cardinality, Cardinality
<1>3. S3!Running = Running
  BY <1>1 DEF S3!Running, Running
<1>4. S3!RootAlive <=> RootAlive
  BY DEF S3!RootAlive, RootAlive
<1>5. S3!RootServes <=> RootServes
  BY DEF S3!RootServes, RootServes
<1>6. S3!NobodyLeft <=> NobodyLeft
  BY <1>1, <1>4 DEF S3!NobodyLeft, NobodyLeft
<1>7. S3!Fault <=> Fault
  BY DEF S3!Fault, Fault
<1>8. \A ok, can : S3!Outcome(ok, can) <=> Outcome(ok, can)
  BY <1>7 DEF S3!Outcome, Outcome
<1>9. \A f, g : S3!@@(f, g) = f @@ g
  BY DEF S3!@@, @@, S3!Merge, Merge, S3!Only, Only
<1>10. \A x, v : S3!:>(x, v) = (x :> v)
  BY DEF S3!:>, :>
<1>11. \A a, w, s, v : S3!Has(a, w, s, v) <=> Has(a, w, s, v)
  BY DEF S3!Has, Has
<1>12. \A a, w, s : S3!Ok(a, w, s) <=> Ok(a, w, s)
  BY <1>11 DEF S3!Ok, Ok
<1>13. \A w, s, v : S3!Put(w, s, v) <=> Put(w, s, v)
  BY <1>9, <1>10 DEF S3!Put, Put
<1> QED BY <1>1, <1>2, <1>3, <1>4, <1>5, <1>6, <1>7, <1>8, <1>9, <1>10, <1>11, <1>12, <1>13

\* The shared steps of S3 are this module's.
LEMMA SharedS3 ==
  /\ S3!PreflightStep => PreflightStep
  /\ S3!LaunchStep => LaunchStep
  /\ S3!HeadStep => HeadStep
  /\ S3!WorkerStep => WorkerStep
  /\ S3!ReadyStep => ReadyStep
  /\ (\A k, next : S3!ActorStep(k, next) => ActorStep(k, next))
  /\ (\A k, next : S3!StartStep(k, next) => StartStep(k, next))
  /\ (\A k : S3!Joining(k) => Joining(k))
  /\ S3!JoinHealthStep => JoinHealthStep
  /\ (\A k, last, next : S3!StopStep(k, last, next) => StopStep(k, last, next))
  /\ (\A next : S3!AwaitFinalStep(next) => AwaitFinalStep(next))
  /\ (\A next : S3!AwaitExitStep(next) => AwaitExitStep(next))
  /\ (\A next : S3!DiscardStep(next) => DiscardStep(next))
  /\ S3!FinalizeStep => FinalizeStep
  /\ (\A result : S3!SweepStep(result) => SweepStep(result))
<1>1. S3!PreflightStep => PreflightStep
  BY PlainS3 DEF S3!PreflightStep, S3!Finish, S3!At, S3!Goto, S3!Raise, S3!OrRaise, S3!SameIsland,
     S3!SameRun, PreflightStep, Finish
<1>2. S3!LaunchStep => LaunchStep
  BY PlainS3 DEF S3!LaunchStep, S3!NewIsland, S3!At, S3!Goto, S3!Raise, S3!OrRaise, S3!SameIsland,
     S3!SameRun, LaunchStep, NewIsland
<1>3. S3!HeadStep => HeadStep
  BY PlainS3 DEF S3!HeadStep, S3!At, S3!Goto, S3!Raise, S3!OrRaise, S3!SameIsland, S3!SameRun, HeadStep
<1>4. S3!WorkerStep => WorkerStep
  BY PlainS3 DEF S3!WorkerStep, S3!At, S3!Goto, S3!Raise, S3!OrRaise, S3!SameIsland, S3!SameRun,
     WorkerStep
<1>5. S3!ReadyStep => ReadyStep
  BY PlainS3 DEF S3!ReadyStep, S3!WaitForFile, S3!At, S3!Goto, S3!Raise, S3!OrRaise, S3!SameIsland,
     S3!SameRun, ReadyStep, WaitForFile
<1>6. \A k, next : S3!ActorStep(k, next) => ActorStep(k, next)
  BY PlainS3 DEF S3!ActorStep, S3!At, S3!Goto, S3!Raise, S3!OrRaise, S3!SameIsland, S3!SameRun,
     ActorStep
<1>7. \A k, next : S3!StartStep(k, next) => StartStep(k, next)
  BY PlainS3 DEF S3!StartStep, S3!StartHpx, S3!At, S3!Goto, S3!Raise, S3!OrRaise, S3!SameIsland,
     S3!SameRun, StartStep, StartHpx
<1>8. \A k : S3!Joining(k) => Joining(k)
  BY PlainS3, <1>6, <1>7 DEF S3!Joining, S3!At, S3!Goto, S3!Raise, S3!OrRaise, S3!SameIsland,
     S3!SameRun, Joining
<1>9. S3!JoinHealthStep => JoinHealthStep
  BY PlainS3 DEF S3!JoinHealthStep, S3!At, S3!Goto, S3!Raise, S3!OrRaise, S3!SameIsland, S3!SameRun,
     JoinHealthStep
<1>10. \A k, last, next : S3!StopStep(k, last, next) => StopStep(k, last, next)
  BY PlainS3 DEF S3!StopStep, S3!StopHpx, S3!At, S3!Goto, S3!Raise, S3!OrRaise, S3!SameIsland,
     S3!SameRun, StopStep, StopHpx
<1>11. \A next : S3!AwaitFinalStep(next) => AwaitFinalStep(next)
  BY PlainS3 DEF S3!AwaitFinalStep, S3!WaitForFile, S3!At, S3!Goto, S3!Raise, S3!OrRaise,
     S3!SameIsland, S3!SameRun, AwaitFinalStep, WaitForFile
<1>12. \A next : S3!AwaitExitStep(next) => AwaitExitStep(next)
  BY PlainS3 DEF S3!AwaitExitStep, S3!WaitRoot, S3!ExitPaths, S3!At, S3!Goto, S3!Raise, S3!OrRaise,
     S3!SameIsland, S3!SameRun, AwaitExitStep, WaitRoot, ExitPaths
<1>13. \A next : S3!DiscardStep(next) => DiscardStep(next)
  BY PlainS3 DEF S3!DiscardStep, S3!Killed, S3!At, S3!Goto, S3!Raise, S3!OrRaise, S3!SameIsland,
     S3!SameRun, DiscardStep, Killed
<1>14. S3!FinalizeStep => FinalizeStep
  BY PlainS3 DEF S3!FinalizeStep, S3!Killed, S3!KilledRoot, S3!At, S3!Goto, S3!Raise, S3!OrRaise,
     S3!SameIsland, S3!SameRun, FinalizeStep, Killed, KilledRoot
<1>15. \A result : S3!SweepStep(result) => SweepStep(result)
  BY PlainS3 DEF S3!SweepStep, S3!Finish, S3!At, S3!Goto, S3!Raise, S3!OrRaise, S3!SameIsland,
     S3!SameRun, SweepStep, Finish
<1> QED BY <1>1, <1>2, <1>3, <1>4, <1>5, <1>6, <1>7, <1>8, <1>9, <1>10, <1>11, <1>12, <1>13, <1>14,
           <1>15

\* Two and three markers at once.
LEMMA PutTwo ==
  ASSUME Marked, program' = program, log \subseteq log', NEW x, NEW v, NEW z, NEW w,
         rec' = (x :> v) @@ (z :> w) @@ rec, Holds(x, v, log'), Holds(z, w, log')
  PROVE  Marked' /\ (\A y : y # x /\ y # z => Left(y)) /\ x \in DOMAIN rec' /\ rec'[x] = v
<1> DEFINE m == (x :> v) @@ (z :> w)
<1>1. MarkedBy(m, log')
  BY MarkedSingle, MarkAll
<1>2. \A y : y \in DOMAIN m <=> y = x \/ y = z
  BY Mark, Single
<1>3. m[x] = v
  BY Mark
<1>4. rec' = m @@ rec
  OBVIOUS
<1> HIDE DEF m
<1>5. Marked'
  BY <1>1, <1>4, MarkedMerge
<1>6. \A y : y # x /\ y # z => Left(y)
  BY <1>2, <1>4, LeftMerge
<1>7. x \in DOMAIN rec' /\ rec'[x] = v
  BY <1>2, <1>3, <1>4, Merged
<1> QED BY <1>5, <1>6, <1>7

\* Three true markers written at once.
LEMMA PutThree ==
  ASSUME Marked, program' = program, log \subseteq log', NEW x, NEW v, NEW z, NEW w, NEW u, NEW t,
         rec' = (x :> v) @@ (z :> w) @@ (u :> t) @@ rec, Holds(x, v, log'), Holds(z, w, log'), Holds(u, t, log')
  PROVE  Marked' /\ (\A y : y # x /\ y # z /\ y # u => Left(y))
<1> DEFINE n == (x :> v) @@ (z :> w)
           m == n @@ (u :> t)
<1>1. MarkedBy(n, log') /\ MarkedBy(u :> t, log')
  BY MarkedSingle, MarkAll
<1>2. \A y : y \in DOMAIN n <=> y = x \/ y = z
  BY Mark, Single
<1>3. rec' = m @@ rec
  OBVIOUS
<1> HIDE DEF n
<1>4. MarkedBy(m, log') /\ \A y : y \in DOMAIN m <=> y = x \/ y = z \/ y = u
  BY <1>1, <1>2, MarkAll, Merged, Single
<1> HIDE DEF m
<1>5. Marked'
  BY <1>3, <1>4, MarkedMerge
<1>6. \A y : y # x /\ y # z /\ y # u => Left(y)
  BY <1>3, <1>4, LeftMerge
<1> QED BY <1>5, <1>6

\* A step of S3 goes on to its next place, or raises.
LEMMA AdvanceS3 ==
  ASSUME NEW to, NEW l, S3!advance(to, l), exc \in BOOLEAN
  PROVE  exc' \in BOOLEAN /\ pc' \in {l, "finalize"}
  BY DEF S3!advance, S3!Advance, S3!Raise, S3!Goto

\* Before the events of an arm; b has a process; its departure is looked at.
Before3 == {"ready", "actor_a", "start_a", "actor_b", "start_b", "join", "gates"}
Hosted3 == {"start_b", "join", "gates", "work", "depart", "departed", "evidence", "publish"}
Lost3 == act["b"] \in {"dying", "dead"}

\* An event is still truthful after the step.
TruthfulThen(d) ==
    d.kind = "DEPARTED" => /\ d.label = "graceful_departure" => <<arm', "b", "left">> \in log'
                           /\ d.label = "unexpected_loss" => act'["b"] \in {"dying", "dead"}

\* The order of slice 3 within an arm.
LEMMA Order3 ==
  ASSUME Slice3Ordered, arm' = arm, pc' \notin {"preflight", "head", "worker", "launch"},
         \A e \in log' : e \in log \/ e[3] \notin Alarms,
         pc' \in {"discard", "gone", "arm_done"} => ~RootAlive',
         pc' = "arm_done" /\ arm = "graceful" => (Ok("graceful", "run", "actor_pids_gone")' => Gone'),
         \A x : x[1] \notin {arm, "run"} => Left(x),
         pc' \in Before3 => <<arm, "run", "events">> \notin DOMAIN rec',
         <<arm, "run", "events">> \in DOMAIN rec' =>
           /\ rec'[<<arm, "run", "events">>] \in Seq(Document)
           /\ \A i \in DOMAIN rec'[<<arm, "run", "events">>] : TruthfulThen(rec'[<<arm, "run", "events">>][i]),
         pc' \in Hosted3 => act'["b"] # "none",
         pc' \in {"evidence", "publish"} /\ Ok(arm, "b", "pid_gone")' => act'["b"] \in {"none", "dead"}
  PROVE  Slice3Ordered'
<1>1. Succession("graceful", "loss", {"discard", "gone", "arm_done"}, "actor_pids_gone")'
  <2>1. \A e \in log' : e \in log \/ e[3] # "overlap"
    BY DEF Alarms
  <2>2. arm = "loss" => Left(<<"graceful", "run", "actor_pids_gone">>)
    OBVIOUS
  <2> QED BY <2>1, <2>2, SuccessionOnward DEF Slice3Ordered
<1>2. (arm = "graceful" => <<"loss", "run", "events">> \notin DOMAIN rec)'
  BY DEF Slice3Ordered, Left
<1>3. (Beginning \/ pc \in {"launch", "ready", "actor_a", "start_a", "actor_b", "start_b", "join", "gates"} =>
         <<arm, "run", "events">> \notin DOMAIN rec)'
  BY DEF Beginning, Before3
<1>4. (pc \in {"evidence", "publish"} /\ Ok(arm, "b", "pid_gone") => act["b"] \in {"none", "dead"})'
  OBVIOUS
<1>5. (<<arm, "run", "events">> \in DOMAIN rec =>
         /\ rec[<<arm, "run", "events">>] \in Seq(Document)
         /\ \A i \in DOMAIN rec[<<arm, "run", "events">>] : Truthful(rec[<<arm, "run", "events">>][i]))'
  BY DEF Truthful, TruthfulThen, Document
<1>6. (pc \in {"start_b", "join", "gates", "work", "depart", "departed", "evidence", "publish"} =>
         act["b"] # "none")'
  BY DEF Hosted3
<1> QED BY <1>1, <1>2, <1>3, <1>4, <1>5, <1>6 DEF Slice3Ordered

\* Slice 3: a step onward within an arm keeps the order of the run.
LEMMA Onward3 ==
  ASSUME Slice3Ordered, arm' = arm, pc' \notin {"preflight", "head", "worker", "launch"}, log \subseteq log',
         \A e \in log' : e \in log \/ e[3] \notin Alarms,
         pc' \in {"discard", "gone", "arm_done"} => ~RootAlive',
         pc' = "arm_done" /\ arm = "graceful" => (Ok("graceful", "run", "actor_pids_gone")' => Gone'),
         \A x : x[1] \notin {arm, "run"} => Left(x), Left(<<arm, "run", "events">>),
         pc' \in Before3 => pc \in {"launch"} \cup Before3,
         pc \notin {"launch"} \cup Before3 => (Lost3 => Lost3'),
         pc' \in Hosted3 => act'["b"] # "none",
         pc' \in {"evidence", "publish"} /\ Ok(arm, "b", "pid_gone")' => act'["b"] \in {"none", "dead"}
  PROVE  Slice3Ordered'
<1> DEFINE x == <<arm, "run", "events">>
<1>1. pc \in {"launch"} \cup Before3 => x \notin DOMAIN rec'
  BY DEF Slice3Ordered, Before3, Left
<1>2. x \in DOMAIN rec' => x \in DOMAIN rec /\ rec'[x] = rec[x] /\ (Lost3 => Lost3')
  BY <1>1 DEF Left
<1>3. x \in DOMAIN rec' => rec'[x] \in Seq(Document) /\ \A i \in DOMAIN rec'[x] : TruthfulThen(rec'[x][i])
  <2> SUFFICES ASSUME x \in DOMAIN rec'
               PROVE  rec'[x] \in Seq(Document) /\ \A i \in DOMAIN rec'[x] : TruthfulThen(rec'[x][i])
    OBVIOUS
  <2>1. rec[x] \in Seq(Document) /\ \A i \in DOMAIN rec[x] : Truthful(rec[x][i])
    BY <1>2 DEF Slice3Ordered
  <2>2. ASSUME NEW d, Truthful(d)
        PROVE  TruthfulThen(d)
    BY <1>2, <2>2 DEF Truthful, TruthfulThen, Lost3
  <2> QED BY <1>2, <2>1, <2>2
<1>4. pc' \in Before3 => x \notin DOMAIN rec'
  BY <1>1
<1> QED BY <1>3, <1>4, Order3

\* The two connectors of slice 3.
LEMMA Const3 == S3!DEPARTING = "b" /\ S3!SURVIVOR = "a" /\ S3!Conns = Conns
  BY PlainS3 DEF S3!DEPARTING, S3!SURVIVOR

\* A step on an island that is left as it is, and that only puts markers.
LEMMA Still3 ==
  ASSUME Base, Slice3Ordered, UNCHANGED <<program, place, arm>>, SameIsland, SameRun, Inside, exc' \in BOOLEAN,
         pc' \notin {"ended", "preflight", "head", "worker", "launch"}, pc' \notin Before3, Marked',
         UNCHANGED faults \/ \E ok, can : Outcome(ok, can),
         \A x : x[1] \notin {arm, "run"} => Left(x), Left(<<arm, "run", "events">>),
         pc' \in {"discard", "gone", "arm_done"} => ~RootAlive,
         pc' = "arm_done" /\ arm = "graceful" => (Ok("graceful", "run", "actor_pids_gone")' => Gone),
         pc' \in Hosted3 => pc \in Hosted3,
         pc' \in {"evidence", "publish"} /\ Ok(arm, "b", "pid_gone")' => act["b"] \in {"none", "dead"}
  PROVE  Fine /\ Slice3Ordered' /\ program' = program
<1>1. faults' \in 0..MaxFaults[program']
  BY OutcomeTyped, FaultTyped DEF Base
<1>2. Fine
  BY <1>1, TellingStep
<1>3. pc' \in Hosted3 => act'["b"] # "none"
  BY DEF Slice3Ordered, Hosted3
<1>4. RootAlive' <=> RootAlive
  BY DEF RootAlive
<1>5. Gone' <=> Gone
  BY DEF Gone
<1>6. Slice3Ordered'
  BY <1>3, <1>4, <1>5, Onward3 DEF Lost3
<1> QED BY <1>2, <1>6

\* Slice 3: BringUpGates keeps the order of its run.
LEMMA BringUpGates3 ==
  ASSUME Base, Slice3Ordered, program = "slice3", S3!BringUpGates
  PROVE  Fine /\ Slice3Ordered' /\ program' = program
<1> DEFINE x == <<arm, "run", "events">>
           v == << [epoch |-> arm, connector |-> "a", kind |-> "JOINED", label |-> "none"],
                   [epoch |-> arm, connector |-> "b", kind |-> "JOINED", label |-> "none"] >>
<1>1. exc \in BOOLEAN /\ arm \in {"graceful", "loss"}
  BY DEF Base, Typed, SupervisorTypeOK, Slice3Ordered, Succession
<1>2. /\ UNCHANGED <<program, place, faults, arm>> /\ SameIsland /\ SameRun /\ Inside
      /\ pc = "gates" /\ pc' \in {"work", "finalize"} /\ exc' \in BOOLEAN /\ rec' = (x :> v) @@ rec
  BY <1>1, AdvanceS3, PlainS3 DEF S3!BringUpGates, S3!At, S3!SameIsland, S3!SameRun, S3!Raise, Inside
<1>3. Holds(x, v, log')
  BY DEF Holds, S3!Bad
<1>4. Marked'
  BY <1>2, <1>3, MarkedPut DEF Base
<1>5. v \in Seq(Document) /\ \A i \in DOMAIN v : v[i].kind = "JOINED"
  BY <1>1 DEF Document, Conns
<1>6. x \in DOMAIN rec' /\ rec'[x] = v
  BY <1>2, Mark
<1>7. \A y : y[1] # arm => Left(y)
  <2> SUFFICES ASSUME NEW y, y[1] # arm PROVE Left(y)
    OBVIOUS
  <2>1. y # x
    OBVIOUS
  <2> QED BY <1>2, <2>1, Mark DEF Left
<1> HIDE DEF v
<1>8. Fine
  BY <1>2, <1>4, FaultTyped, TellingStep DEF Base
<1>9. \A i \in DOMAIN rec'[x] : TruthfulThen(rec'[x][i])
  BY <1>5, <1>6 DEF TruthfulThen
<1>10. Slice3Ordered'
  <2>1. act["b"] # "none"
    BY <1>2 DEF Slice3Ordered
  <2> QED BY <1>2, <1>5, <1>6, <1>7, <1>9, <2>1, Order3 DEF Before3
<1> QED BY <1>2, <1>8, <1>10

\* Slice 3: RunWork keeps the order of its run.
LEMMA RunWork3 ==
  ASSUME Base, Slice3Ordered, program = "slice3", S3!RunWork
  PROVE  Fine /\ Slice3Ordered' /\ program' = program
<1>1. PICK ok \in BOOLEAN :
        /\ S3!TopKCase(ok)
        /\ Put("run", "work", ok)
        /\ log' = IF ok THEN log \cup {<<arm, "run", "worked">>} ELSE log
        /\ IF ok THEN S3!advance("WORK_VERIFIED", "depart") ELSE S3!Raise
  BY PlainS3 DEF S3!RunWork
<1>2. exc \in BOOLEAN
  BY DEF Base, Typed, SupervisorTypeOK
<1>3. /\ UNCHANGED <<program, place, cluster, root, act, stale, files, finalMembers, arm>> /\ SameRun
      /\ pc = "work" /\ pc' \in {"depart", "finalize"} /\ exc' \in BOOLEAN /\ Inside
  BY <1>1, <1>2, AdvanceS3 DEF S3!RunWork, S3!At, S3!SameRun, S3!Raise, Inside
<1>4. log \subseteq log' /\ \A e \in log' : e \in log \/ e[3] \notin Alarms
  BY <1>1 DEF Alarms
<1>5. Holds(<<arm, "run", "work">>, ok, log')
  BY <1>1 DEF Holds, S3!Bad, Slices, Repeated
<1>6. Marked'
  BY <1>1, <1>3, <1>4, <1>5, MarkedPut DEF Base, Put
<1>7. \A x : x # <<arm, "run", "work">> => Left(x)
  BY <1>1, LeftPut
<1>8. faults' \in 0..MaxFaults[program']
  BY <1>1, <1>3, PlainS3, OutcomeTyped DEF S3!TopKCase, Base
<1>9. /\ overall' = "none" /\ pc' # "ended" /\ \A e \in log' : e \in log \/ e[3] # "suspected_alive"
  BY <1>3, <1>4 DEF Alarms, Inside, Base, Typed, SupervisorTypeOK
<1>10. Fine
  BY <1>3, <1>4, <1>6, <1>8, <1>9, EnvBefore, MovingStep
<1>11. act'["b"] # "none"
  BY <1>3 DEF Slice3Ordered
<1>12. (\A x : x[1] # arm => Left(x)) /\ Left(<<arm, "run", "events">>)
  BY <1>7
<1>13. Slice3Ordered'
  BY <1>3, <1>4, <1>11, <1>12, Onward3 DEF Before3, Lost3
<1> QED BY <1>3, <1>10, <1>13

\* Connector b leaves, or its host is killed.
LEMMA Leave3 ==
  ASSUME Base, Slice3Ordered, program = "slice3", S3!Depart, arm = "graceful"
  PROVE  Fine /\ Slice3Ordered' /\ program' = program
<1>1. PICK ok, u, v :
        /\ ok \in BOOLEAN
        /\ S3!StopHpx("b", ok, arm)
        /\ rec' = (<<arm, "contract", "premature">> :> u) @@ (<<arm, "run", "departed_in">> :> v)
                  @@ (<<arm, "b", "stopped">> :> ok) @@ rec
  BY PlainS3, Const3 DEF S3!Depart
<1>2. StopHpx("b", ok, arm)
  BY <1>1, PlainS3 DEF S3!StopHpx, StopHpx
<1>3. /\ UNCHANGED <<program, place, cluster, root, stale, files, finalMembers, arm, exc>> /\ SameRun
      /\ pc = "depart" /\ pc' = "departed" /\ exc' \in BOOLEAN /\ Inside
  BY DEF S3!Depart, S3!At, S3!Goto, S3!SameRun, Inside, Base, Typed, SupervisorTypeOK
<1>4. log \subseteq log' /\ (\A e \in log' : e \in log \/ e[3] \notin Alarms)
      /\ (ok = TRUE => <<arm, "b", "left">> \in log')
  BY <1>2 DEF StopHpx, Alarms
<1>5. /\ Holds(<<arm, "b", "stopped">>, ok, log')
      /\ Holds(<<arm, "contract", "premature">>, u, log')
      /\ Holds(<<arm, "run", "departed_in">>, v, log')
  <2>1. Holds(<<arm, "b", "stopped">>, ok, log')
    BY <1>4 DEF Holds, S3!Bad
  <2> QED BY <2>1, Mute DEF Telling, S3!Bad
<1>6. Marked' /\ \A y : y # <<arm, "contract", "premature">> /\ y # <<arm, "run", "departed_in">>
                           /\ y # <<arm, "b", "stopped">> => Left(y)
  BY <1>1, <1>3, <1>4, <1>5, PutThree DEF Base
<1>7. act' \in [Conns -> ActorStates] /\ act'["b"] # "none" /\ (Lost3 => Lost3')
  <2>1. act["b"] # "none" /\ act \in [Conns -> ActorStates] /\ "b" \in Conns
    BY <1>3, EnvBefore DEF Slice3Ordered, Conns
  <2> QED BY <1>2, <2>1 DEF StopHpx, Lost3, ActorStates
<1>8. faults' \in 0..MaxFaults[program']
  BY <1>2, <1>3, OutcomeTyped DEF StopHpx, Base
<1>9. /\ overall' = "none" /\ pc' # "ended" /\ \A e \in log' : e \in log \/ e[3] # "suspected_alive"
  BY <1>3, <1>4 DEF Alarms, Inside, Base, Typed, SupervisorTypeOK
<1>10. Fine
  BY <1>3, <1>4, <1>6, <1>7, <1>8, <1>9, EnvBefore, MovingStep
<1>11. (\A x : x[1] # arm => Left(x)) /\ Left(<<arm, "run", "events">>)
  BY <1>6
<1>12. Slice3Ordered'
  BY <1>3, <1>4, <1>7, <1>11, Onward3 DEF Before3
<1> QED BY <1>3, <1>10, <1>12

\* The loss arm of slice 3 kills connector b.
LEMMA Kill3 ==
  ASSUME Base, Slice3Ordered, program = "slice3", S3!Depart, arm = "loss"
  PROVE  Fine /\ Slice3Ordered' /\ program' = program
<1>1. PICK u, v, w :
        rec' = (<<arm, "contract", "premature">> :> u) @@ (<<arm, "run", "departed_in">> :> v)
               @@ (<<arm, "b", "signalled">> :> w) @@ rec
  BY PlainS3, Const3 DEF S3!Depart
<1>2. Killed({"b"})
  BY PlainS3, Const3 DEF S3!Depart, S3!Killed, Killed
<1>3. /\ UNCHANGED <<program, place, cluster, root, files, finalMembers, faults, log, arm>> /\ SameRun
      /\ pc = "depart" /\ pc' \in {"departed", "finalize"} /\ exc' \in BOOLEAN /\ Inside
  BY DEF S3!Depart, S3!At, S3!Goto, S3!OrRaise, S3!Raise, S3!SameRun, Inside, Base, Typed,
     SupervisorTypeOK
<1>4. log \subseteq log' /\ (\A e \in log' : e \in log \/ e[3] \notin Alarms)
  BY <1>3
<1>5. /\ Holds(<<arm, "b", "signalled">>, w, log')
      /\ Holds(<<arm, "contract", "premature">>, u, log')
      /\ Holds(<<arm, "run", "departed_in">>, v, log')
  <2>1. Holds(<<arm, "b", "signalled">>, w, log')
    BY DEF Holds, S3!Bad
  <2> QED BY <2>1, Mute DEF Telling, S3!Bad
<1>6. Marked' /\ \A y : y # <<arm, "contract", "premature">> /\ y # <<arm, "run", "departed_in">>
                           /\ y # <<arm, "b", "signalled">> => Left(y)
  BY <1>1, <1>3, <1>4, <1>5, PutThree DEF Base
<1>7. act'["b"] # "none" /\ (Lost3 => Lost3')
  <2>1. act["b"] # "none" /\ act \in [Conns -> ActorStates] /\ "b" \in Conns
    BY <1>3, EnvBefore DEF Slice3Ordered, Conns
  <2> QED BY <1>2, <2>1 DEF Killed, Lost3, ActorStates, Running
<1>8. Fine
  <2>1. {"b"} \in SUBSET Conns
    BY DEF Conns
  <2> QED BY <1>2, <1>3, <1>6, <2>1, KillingStep
<1>9. (\A x : x[1] # arm => Left(x)) /\ Left(<<arm, "run", "events">>)
  BY <1>6
<1>10. Slice3Ordered'
  BY <1>3, <1>4, <1>7, <1>9, Onward3 DEF Before3
<1> QED BY <1>3, <1>8, <1>10

\* Slice 3: Depart keeps the order of its run.
LEMMA Depart3 ==
  ASSUME Base, Slice3Ordered, program = "slice3", S3!Depart
  PROVE  Fine /\ Slice3Ordered' /\ program' = program
  BY Leave3, Kill3 DEF Slice3Ordered, Succession

\* Slice 3: ConfirmDeparted keeps the order of its run.
LEMMA Confirm3 ==
  ASSUME Base, Slice3Ordered, S3!ConfirmDeparted
  PROVE  Fine /\ Slice3Ordered' /\ program' = program
<1>1. PICK gone \in BOOLEAN :
        /\ gone <=> act["b"] \in {"none", "dead"}
        /\ UNCHANGED faults \/ \E ok, can : Outcome(ok, can)
        /\ Put("b", "pid_gone", gone)
  BY PlainS3, Const3 DEF S3!ConfirmDeparted, S3!WaitPidGone
<1>2. exc \in BOOLEAN
  BY DEF Base, Typed, SupervisorTypeOK
<1>3. /\ UNCHANGED <<program, place, arm>> /\ SameIsland /\ SameRun /\ Inside
      /\ pc = "departed" /\ pc' \in {"evidence", "finalize"} /\ exc' \in BOOLEAN
  BY <1>2, AdvanceS3 DEF S3!ConfirmDeparted, S3!At, S3!SameIsland, S3!SameRun, Inside
<1>4. Marked'
  BY <1>1, <1>3, MutePut DEF Base, Telling, S3!Bad
<1>5. \A x : x # <<arm, "b", "pid_gone">> => Left(x)
  BY <1>1, LeftPut
<1>6. Ok(arm, "b", "pid_gone")' => act["b"] \in {"none", "dead"}
  <2>1. rec'[<<arm, "b", "pid_gone">>] = gone
    BY <1>1, Mark DEF Put
  <2> QED BY <1>1, <1>3, <2>1 DEF Ok, Has
<1>7. (\A x : x[1] # arm => Left(x)) /\ Left(<<arm, "run", "events">>)
  BY <1>5
<1> QED BY <1>1, <1>3, <1>4, <1>6, <1>7, Still3 DEF Before3, Hosted3

\* Slice 3: CollectEvidence keeps the order of its run.
LEMMA Collect3 ==
  ASSUME Base, Slice3Ordered, S3!CollectEvidence
  PROVE  Fine /\ Slice3Ordered' /\ program' = program
<1>1. PICK v : Put("b", "raised", v) /\ \E ok, can : Outcome(ok, can)
  BY PlainS3, Const3 DEF S3!CollectEvidence, S3!RayGet
<1>2. exc \in BOOLEAN
  BY DEF Base, Typed, SupervisorTypeOK
<1>3. /\ UNCHANGED <<program, place, arm>> /\ SameIsland /\ SameRun /\ Inside
      /\ pc = "evidence" /\ pc' \in {"publish", "finalize"} /\ exc' \in BOOLEAN
  BY <1>2, AdvanceS3 DEF S3!CollectEvidence, S3!At, S3!SameIsland, S3!SameRun, Inside
<1>4. Marked'
  BY <1>1, <1>3, MutePut DEF Base, Telling, S3!Bad
<1>5. \A x : x # <<arm, "b", "raised">> => Left(x)
  BY <1>1, LeftPut
<1>6. Ok(arm, "b", "pid_gone")' => act["b"] \in {"none", "dead"}
  <2>1. Left(<<arm, "b", "pid_gone">>)
    BY <1>5
  <2>2. Ok(arm, "b", "pid_gone")' => Ok(arm, "b", "pid_gone")
    BY <1>3, <2>1, HasLeft DEF Ok, Left, Has
  <2> QED BY <1>3, <2>2 DEF Slice3Ordered
<1>7. (\A x : x[1] # arm => Left(x)) /\ Left(<<arm, "run", "events">>)
  BY <1>5
<1> QED BY <1>1, <1>3, <1>4, <1>6, <1>7, Still3 DEF Before3, Hosted3

\* The terminal event says what the evidence says, and the evidence is true.
LEMMA Evidence3 ==
  ASSUME Base, Slice3Ordered, pc = "publish"
  PROVE  LET label == S3!classify_departure(S3!collect_departure_evidence)
         IN  /\ label \in {"graceful_departure", "unexpected_loss", "indeterminate"}
             /\ label = "graceful_departure" => <<arm, "b", "left">> \in log
             /\ label = "unexpected_loss" => act["b"] \in {"dying", "dead"}
<1> DEFINE label == S3!classify_departure(S3!collect_departure_evidence)
<1>1. label \in {"graceful_departure", "unexpected_loss", "indeterminate"}
  BY DEF S3!classify_departure
<1>2. label = "graceful_departure" => Ok(arm, "b", "stopped")
  BY PlainS3, Const3 DEF S3!classify_departure, S3!collect_departure_evidence
<1>3. label = "unexpected_loss" => Ok(arm, "b", "pid_gone")
  BY PlainS3, Const3 DEF S3!classify_departure, S3!collect_departure_evidence
<1>4. Ok(arm, "b", "stopped") => <<arm, "b", "left">> \in log
  BY Told DEF Base, Ok, Holds
<1>5. Ok(arm, "b", "pid_gone") => act["b"] \in {"dying", "dead"}
  BY DEF Slice3Ordered
<1> QED BY <1>1, <1>2, <1>3, <1>4, <1>5

\* Slice 3: PublishTerminal keeps the order of its run.
LEMMA Publish3 ==
  ASSUME Base, Slice3Ordered, program = "slice3", S3!PublishTerminal
  PROVE  Fine /\ Slice3Ordered' /\ program' = program
<1> DEFINE x == <<arm, "run", "events">>
           label == S3!classify_departure(S3!collect_departure_evidence)
           d == [epoch |-> arm, connector |-> "b", kind |-> "DEPARTED", label |-> label]
           s == Append(S3!Events(arm), d)
           y == <<arm, "run", "classification">>
           z == <<arm, "contract", "publication">>
<1>1. PICK answer :
        /\ rec' = (y :> label) @@ (z :> answer) @@ (IF answer = "accepted" THEN (x :> s) ELSE rec) @@ rec
        /\ S3!OrRaise(answer = "accepted", "duplicate")
  BY PlainS3, Const3 DEF S3!PublishTerminal, S3!publish_event
<1>2. /\ UNCHANGED <<program, place, faults, arm>> /\ SameIsland /\ SameRun /\ Inside
      /\ pc = "publish" /\ pc' \in {"duplicate", "finalize"} /\ exc' \in BOOLEAN
  BY <1>1 DEF S3!PublishTerminal, S3!At, S3!SameIsland, S3!SameRun, S3!OrRaise, S3!Goto, S3!Raise,
     Inside, Base, Typed, SupervisorTypeOK
<1>3. arm \in {"graceful", "loss"}
  BY DEF Slice3Ordered, Succession
<1>4. d \in Document /\ Truthful(d)
  BY <1>2, <1>3, Evidence3 DEF Document, Conns, Truthful
<1>5. s \in Seq(Document) /\ \A i \in DOMAIN s : Truthful(s[i])
  <2> HIDE DEF d
  <2>1. S3!Events(arm) \in Seq(Document) /\ \A i \in DOMAIN S3!Events(arm) : Truthful(S3!Events(arm)[i])
    BY DEF S3!Events, Slice3Ordered
  <2> DEFINE q == S3!Events(arm)
  <2>2. s = Append(q, d)
    OBVIOUS
  <2> HIDE DEF q, s
  <2>3. s \in Seq(Document) /\ DOMAIN s = 1..Len(q) + 1 /\ s[Len(q) + 1] = d
        /\ \A i \in 1..Len(q) : s[i] = q[i]
    BY <1>4, <2>1, <2>2 DEF q
  <2>4. \A i \in DOMAIN s : i \in DOMAIN q \/ i = Len(q) + 1
    BY <2>1, <2>3 DEF q
  <2> QED BY <1>4, <2>1, <2>3, <2>4 DEF q
<1>6. Holds(x, s, log') /\ Holds(y, label, log') /\ Holds(z, answer, log')
  <2> HIDE DEF s, label
  <2>1. Holds(x, s, log')
    BY DEF Holds, S3!Bad
  <2> QED BY <2>1, Mute DEF Telling, S3!Bad
<1>7. CASE answer = "accepted"
  <2> HIDE DEF s, label
  <2>1. rec' = (y :> label) @@ (z :> answer) @@ (x :> s) @@ rec
    BY <1>1, <1>7
  <2>2. Marked' /\ \A k : k # y /\ k # z /\ k # x => Left(k)
    BY <1>2, <1>6, <2>1, PutThree DEF Base
  <2>3. x \in DOMAIN rec' /\ rec'[x] = s
    <3> DEFINE m == (y :> label) @@ (z :> answer)
    <3>1. x \notin DOMAIN m
      BY Mark, Single
    <3>2. rec' = (m @@ (x :> s)) @@ rec
      BY <2>1
    <3> HIDE DEF m
    <3>3. x \in DOMAIN (m @@ (x :> s)) /\ (m @@ (x :> s))[x] = s
      BY <3>1, Merged, Single
    <3> QED BY <3>2, <3>3, Merged
  <2>4. Fine
    BY <1>2, <2>2, FaultTyped, TellingStep DEF Base
  <2>5. \A i \in DOMAIN rec'[x] : TruthfulThen(rec'[x][i])
    BY <1>2, <1>5, <2>3 DEF Truthful, TruthfulThen
  <2>6. \A k : k[1] # arm => Left(k)
    BY <2>2
  <2>7. Slice3Ordered'
    BY <1>2, <1>5, <2>3, <2>5, <2>6, Order3 DEF Before3, Hosted3
  <2> QED BY <1>2, <2>4, <2>7
<1>8. CASE answer # "accepted"
  <2> HIDE DEF s, label
  <2> DEFINE n == (y :> label) @@ (z :> answer)
             m == n @@ rec
  <2>1. rec' = m @@ rec
    BY <1>1, <1>8
  <2>2. \A k : k \in DOMAIN n <=> k = y \/ k = z
    BY Mark, Single
  <2>3. MarkedBy(n, log') /\ MarkedBy(rec, log')
    BY <1>2, <1>6, MarkedSingle, MarkAll DEF Base, Marked
  <2> HIDE DEF n
  <2>4. MarkedBy(m, log')
    BY <2>3, MarkAll
  <2>5. \A k : k # y /\ k # z => Left(k)
    BY <2>1, <2>2, Merged DEF Left
  <2>6. Marked'
    <3> HIDE DEF m
    <3> QED BY <1>2, <2>1, <2>4, MarkedMerge DEF Base
  <2>7. (\A k : k[1] # arm => Left(k)) /\ Left(x)
    BY <2>5
  <2>8. pc' = "finalize"
    BY <1>1, <1>8 DEF S3!OrRaise, S3!Raise
  <2> QED BY <1>2, <2>6, <2>7, <2>8, Still3 DEF Before3, Hosted3
<1> QED BY <1>7, <1>8

\* Slice 3: PublishRefused and ObserveTerminal keep the order of its run.
LEMMA Refused3 ==
  ASSUME Base, Slice3Ordered, S3!PublishRefused \/ S3!ObserveTerminal
  PROVE  Fine /\ Slice3Ordered' /\ program' = program
<1>1. exc \in BOOLEAN
  BY DEF Base, Typed, SupervisorTypeOK
<1>2. /\ UNCHANGED <<program, place, arm, faults>> /\ SameIsland /\ SameRun /\ Inside
      /\ pc' \in {"observe", "stop_a", "poisoned", "finalize"} /\ exc' \in BOOLEAN
  BY <1>1, AdvanceS3
  DEF S3!PublishRefused, S3!ObserveTerminal, S3!At, S3!SameIsland, S3!SameRun, S3!Raise, Inside
<1>3. Marked' /\ (\A x : x[1] # arm => Left(x)) /\ Left(<<arm, "run", "events">>)
  <2>1. ASSUME NEW w, NEW s, NEW t, NEW r, s \notin Telling, r \notin Telling,
               \E u, v : rec' = (<<arm, w, s>> :> u) @@ (<<arm, t, r>> :> v) @@ rec
        PROVE  Marked' /\ (\A x : x[1] # arm => Left(x)) /\ Left(<<arm, "run", "events">>)
    <3>1. PICK u, v : rec' = (<<arm, w, s>> :> u) @@ (<<arm, t, r>> :> v) @@ rec
      BY <2>1
    <3>2. Holds(<<arm, w, s>>, u, log') /\ Holds(<<arm, t, r>>, v, log')
      BY <2>1, Mute
    <3>3. Marked' /\ \A y : y # <<arm, w, s>> /\ y # <<arm, t, r>> => Left(y)
      BY <1>2, <3>1, <3>2, PutTwo DEF Base
    <3>4. "events" # s /\ "events" # r
      BY <2>1 DEF Telling
    <3> QED BY <3>3, <3>4
  <2>2. CASE S3!PublishRefused
    <3>1. PICK u, v, t : rec' = (<<arm, "contract", "duplicate">> :> u)
                                @@ (<<arm, "contract", "non_departed">> :> v) @@ (<<arm, "run", "prompt">> :> t) @@ rec
      BY <2>2, PlainS3 DEF S3!PublishRefused
    <3>2. /\ Holds(<<arm, "contract", "duplicate">>, u, log')
          /\ Holds(<<arm, "contract", "non_departed">>, v, log')
          /\ Holds(<<arm, "run", "prompt">>, t, log')
      BY Mute DEF Telling, S3!Bad
    <3>3. Marked' /\ \A y : y # <<arm, "contract", "duplicate">> /\ y # <<arm, "contract", "non_departed">>
                            /\ y # <<arm, "run", "prompt">> => Left(y)
      BY <1>2, <3>1, <3>2, PutThree DEF Base
    <3> QED BY <3>3
  <2>3. CASE S3!ObserveTerminal
    <3>1. \/ \E u, v : rec' = (<<arm, "a", "observed">> :> u) @@ (<<arm, "run", "stale_observed">> :> v) @@ rec
          \/ UNCHANGED rec
      BY <2>3, PlainS3, Const3 DEF S3!ObserveTerminal
    <3>2. UNCHANGED rec => Marked' /\ \A x : Left(x)
      BY <1>2, MarkedSame, LeftSame DEF Base
    <3> QED BY <2>1, <3>1, <3>2 DEF Telling, S3!Bad
  <2> QED BY <2>2, <2>3
<1> QED BY <1>2, <1>3, Still3 DEF Before3, Hosted3

\* Slice 3: KillPoisonedRoot keeps the order of its run.
LEMMA Poisoned3 ==
  ASSUME Base, Slice3Ordered, S3!KillPoisonedRoot
  PROVE  Fine /\ Slice3Ordered' /\ program' = program
<1>1. /\ UNCHANGED <<program, place, cluster, act, stale, files, finalMembers, faults, log, arm, exc>> /\ SameRun
      /\ pc = "poisoned" /\ pc' = "discard" /\ exc' \in BOOLEAN /\ Inside
      /\ KilledRoot /\ Put("root", "process_gone", TRUE)
  BY PlainS3 DEF S3!KillPoisonedRoot, S3!At, S3!SameRun, S3!Goto, S3!KilledRoot, KilledRoot, Inside,
     Base, Typed, SupervisorTypeOK
<1>2. Marked'
  BY <1>1, MutePut DEF Base, Telling, S3!Bad
<1>3. Fine
  BY <1>1, <1>2, KillingStep
<1>4. \A x : x # <<arm, "root", "process_gone">> => Left(x)
  BY <1>1, LeftPut
<1>5. (\A x : x[1] # arm => Left(x)) /\ Left(<<arm, "run", "events">>)
  BY <1>4
<1>6. ~RootAlive' /\ (Lost3 => Lost3')
  BY <1>1 DEF KilledRoot, RootAlive, Lost3
<1> QED BY <1>1, <1>3, <1>5, <1>6, Onward3 DEF Before3, Hosted3

\* Slice 3: ConfirmGone keeps the order of its run.
LEMMA ConfirmGone3 ==
  ASSUME Base, Slice3Ordered, S3!ConfirmGone
  PROVE  Fine /\ Slice3Ordered' /\ program' = program
<1>1. PICK ok \in BOOLEAN :
        /\ ok <=> \A k \in Conns : act[k] \in {"none", "dead"}
        /\ \E o, can : Outcome(o, can)
        /\ Put("run", "actor_pids_gone", ok)
  BY PlainS3 DEF S3!ConfirmGone, S3!WaitPidGone
<1>2. exc \in BOOLEAN
  BY DEF Base, Typed, SupervisorTypeOK
<1>3. /\ UNCHANGED <<program, place, arm>> /\ SameIsland /\ SameRun /\ Inside
      /\ pc = "gone" /\ pc' \in {"arm_done", "finalize"} /\ exc' \in BOOLEAN
  BY <1>2, AdvanceS3 DEF S3!ConfirmGone, S3!At, S3!SameIsland, S3!SameRun, Inside
<1>4. Marked'
  BY <1>1, <1>3, MutePut DEF Base, Telling, S3!Bad
<1>5. \A x : x # <<arm, "run", "actor_pids_gone">> => Left(x)
  BY <1>1, LeftPut
<1>6. arm = "graceful" => (Ok("graceful", "run", "actor_pids_gone")' => Gone)
  <2>1. rec'[<<arm, "run", "actor_pids_gone">>] = ok
    BY <1>1, Mark DEF Put
  <2> QED BY <1>1, <2>1 DEF Ok, Has, Gone
<1>7. (\A x : x[1] # arm => Left(x)) /\ Left(<<arm, "run", "events">>)
  BY <1>5
<1>8. ~RootAlive
  BY <1>3 DEF Slice3Ordered, Succession
<1> QED BY <1>1, <1>3, <1>4, <1>6, <1>7, <1>8, Still3 DEF Before3, Hosted3

\* The arm with the loss begins when the root of the graceful arm is gone.
LEMMA NextArm3 ==
  ASSUME Base, Slice3Ordered, program = "slice3", S3!FinishArm, arm = "graceful"
  PROVE  Fine /\ Slice3Ordered' /\ program' = program
<1> DEFINE x == <<"graceful", "run", "finalized">>
<1>1. PICK v : rec' = (x :> v) @@ rec @@ rec
  BY PlainS3 DEF S3!FinishArm
<1>2. /\ UNCHANGED <<program, place, faults, exc>> /\ SameIsland /\ SameRun
      /\ pc = "arm_done" /\ pc' = "launch" /\ arm' = "loss" /\ exc' \in BOOLEAN /\ ~Inside'
  BY DEF S3!FinishArm, S3!At, S3!SameIsland, S3!SameRun, S3!Goto, Inside, Base, Typed, SupervisorTypeOK
<1>3. ~RootAlive /\ (\A e \in log : e[3] # "overlap") /\ (Ok("graceful", "run", "actor_pids_gone") => Gone)
      /\ <<"loss", "run", "events">> \notin DOMAIN rec
  BY <1>2 DEF Slice3Ordered, Succession
<1>4. Holds(x, v, log')
  BY Mute DEF Telling, S3!Bad
<1> DEFINE m == (x :> v) @@ rec
<1>5. MarkedBy(m, log') /\ (\A k : k # x => (k \in DOMAIN m <=> k \in DOMAIN rec))
      /\ \A k : k # x /\ k \in DOMAIN rec => m[k] = rec[k]
  BY <1>2, <1>4, MarkOne, Mark DEF Base, Marked
<1>6. rec' = m @@ rec
  BY <1>1
<1> HIDE DEF m
<1>7. Marked'
  BY <1>2, <1>5, <1>6, MarkedMerge DEF Base
<1>8. \A k : k # x => Left(k)
  BY <1>5, <1>6, Merged DEF Left
<1>9. Fine
  BY <1>2, <1>7, FaultTyped, ArmStep DEF Slices, Base
<1>10. Ok("graceful", "run", "actor_pids_gone")' => Gone'
  <2>1. Ok("graceful", "run", "actor_pids_gone")' => Ok("graceful", "run", "actor_pids_gone")
    BY <1>8, HasLeft DEF Ok
  <2> QED BY <1>2, <1>3, <2>1 DEF Gone
<1>11. ~RootAlive' /\ log' = log
  BY <1>2, <1>3 DEF RootAlive
<1>12. <<"loss", "run", "events">> \notin DOMAIN rec'
  BY <1>3, <1>8 DEF Left
<1>13. Succession("graceful", "loss", {"discard", "gone", "arm_done"}, "actor_pids_gone")'
  BY <1>2, <1>3, <1>10, <1>11 DEF Succession, Beginning
<1> QED BY <1>2, <1>9, <1>12, <1>13 DEF Slice3Ordered, Beginning

\* Slice 3: FinishArm keeps the order of its run.
LEMMA FinishArm3 ==
  ASSUME Base, Slice3Ordered, program = "slice3", S3!FinishArm
  PROVE  Fine /\ Slice3Ordered' /\ program' = program
<1>1. CASE arm # "graceful"
  <2>1. exc \in BOOLEAN /\ arm = "loss"
    BY <1>1 DEF Base, Typed, SupervisorTypeOK, Slice3Ordered, Succession
  <2>2. PICK v : rec' = (<<arm, "run", "finalized">> :> v) @@ (<<arm, "run", "endpoints">> :> TRUE) @@ rec
    BY <2>1, PlainS3 DEF S3!FinishArm
  <2>3. /\ UNCHANGED <<program, place, arm, faults>> /\ SameIsland /\ SameRun /\ Inside
        /\ pc' = "finalize" /\ exc' \in BOOLEAN
    BY <1>1, <2>1, AdvanceS3 DEF S3!FinishArm, S3!At, S3!SameIsland, S3!SameRun, Inside
  <2>4. Holds(<<arm, "run", "finalized">>, v, log') /\ Holds(<<arm, "run", "endpoints">>, TRUE, log')
    BY Mute DEF Telling, S3!Bad
  <2>5. Marked' /\ \A y : y # <<arm, "run", "finalized">> /\ y # <<arm, "run", "endpoints">> => Left(y)
    BY <2>2, <2>3, <2>4, PutTwo DEF Base
  <2>6. (\A x : x[1] \notin {arm, "run"} => Left(x)) /\ Left(<<arm, "run", "events">>)
    BY <2>5
  <2> QED BY <2>3, <2>5, <2>6, Still3 DEF Before3, Hosted3
<1> QED BY <1>1, NextArm3

\* Slice 3: the shared steps keep the order of its run.
LEMMA Shared3 ==
  ASSUME Base, Slice3Ordered, program = "slice3",
         \/ S3!Preflight \/ S3!ClusterHead \/ S3!ClusterWorker \/ S3!LaunchRoot \/ S3!AwaitReady \/ S3!JoinActor
         \/ S3!JoinHealth \/ S3!StopSurvivor \/ S3!AwaitFinal \/ S3!AwaitExit \/ S3!DiscardActors \/ S3!Finalize
  PROVE  Fine /\ Slice3Ordered' /\ program' = program
<1>0. ASSUME Onward(SharedKeys), log \subseteq log', pc' \notin {"evidence", "publish", "arm_done"},
             pc' \in {"discard", "gone"} => ~RootAlive',
             pc' \in Before3 => pc \in {"launch"} \cup Before3,
             pc \notin {"launch"} \cup Before3 => (Lost3 => Lost3'),
             pc' \in Hosted3 => act'["b"] # "none"
      PROVE  Slice3Ordered' /\ program' = program
  <2>1. (\A x : x[1] \notin {arm, "run"} => Left(x)) /\ Left(<<arm, "run", "events">>)
    BY <1>0 DEF Onward, SharedKeys
  <2> QED BY <1>0, <2>1, Onward3 DEF Onward
<1>1. CASE PreflightStep \/ HeadStep \/ WorkerStep
  <2>1. Fine
    BY <1>1, PreflightFine, HeadFine, WorkerFine
  <2>2. program' = program /\ arm' = arm /\ arm = "graceful" /\ act' = act
        /\ pc' \in {"head", "worker", "launch", "ended", "finalize"}
    BY <1>1 DEF PreflightStep, HeadStep, WorkerStep, Finish, Slice3Ordered, Succession, Beginning
  <2>3. Succession("graceful", "loss", {"discard", "gone", "arm_done"}, "actor_pids_gone")'
    BY <1>1, SuccessionBegins DEF Slice3Ordered, Overs, Reaps
  <2>4. Left(<<"graceful", "run", "events">>) /\ Left(<<"loss", "run", "events">>)
    <3>1. rec' = rec \/ \E v : Put("run", "attested", v)
      BY <1>1 DEF PreflightStep, HeadStep, WorkerStep
    <3> QED BY <3>1, LeftSame, LeftPut
  <2>5. <<"graceful", "run", "events">> \notin DOMAIN rec' /\ <<"loss", "run", "events">> \notin DOMAIN rec'
    BY <1>1, <2>2, <2>4 DEF Slice3Ordered, Left, PreflightStep, HeadStep, WorkerStep, Beginning
  <2> QED BY <2>1, <2>2, <2>3, <2>5 DEF Slice3Ordered
<1>2. CASE LaunchStep
  <2>1. Fine
    BY <1>2, LaunchFine
  <2>2. program' = program /\ pc' = "ready" /\ UNCHANGED <<arm, rec>> /\ pc = "launch"
    BY <1>2 DEF LaunchStep
  <2>3. Succession("graceful", "loss", {"discard", "gone", "arm_done"}, "actor_pids_gone")'
    BY <1>2, SuccessionLaunch DEF Slice3Ordered, Overs, Reaps
  <2>4. <<arm, "run", "events">> \notin DOMAIN rec'
    BY <2>2 DEF Slice3Ordered
  <2> QED BY <2>1, <2>2, <2>3, <2>4 DEF Slice3Ordered
<1>3. CASE ReadyStep \/ JoinHealthStep
  <2>1. Fine /\ Onward(SharedKeys)
    BY <1>3, ReadyFine, JoinHealthFine, SharedOnward
  <2>2. act' = act /\ log' = log
        /\ ((pc = "ready" /\ pc' = "actor_a") \/ (pc = "join" /\ pc' = "gates"))
    <3>1. CASE ReadyStep
      BY <3>1 DEF ReadyStep
    <3>2. CASE JoinHealthStep
      BY <3>2 DEF JoinHealthStep
    <3> QED BY <1>3, <3>1, <3>2
  <2>3. pc' \in Hosted3 => act'["b"] # "none"
    BY <2>2 DEF Hosted3, Slice3Ordered
  <2> QED BY <1>0, <2>1, <2>2, <2>3 DEF Before3
<1>4. CASE \E k \in Conns : Joining(k)
  <2>1. PICK k \in Conns : Joining(k)
    BY <1>4
  <2>2. Fine /\ Onward(SharedKeys)
    BY <1>4, JoiningFine, SharedOnward
  <2>3. act \in [Conns -> ActorStates] /\ "b" \in Conns
    BY EnvBefore DEF Conns
  <2>4. log' = log /\ pc' \in {"start_a", "start_b", "actor_b", "join"} /\ pc \in Before3
        /\ (pc' \in Hosted3 => act'["b"] # "none")
    <3>1. CASE k = "a"
      BY <2>1, <2>3, <3>1 DEF Joining, ActorStep, StartStep, Before3, Hosted3
    <3>2. CASE k = "b"
      <4>1. pc = "start_b" => act["b"] # "none"
        BY DEF Slice3Ordered
      <4> QED BY <2>1, <2>3, <3>2, <4>1 DEF Joining, ActorStep, StartStep, StartHpx, Before3, Hosted3
    <3> QED BY <3>1, <3>2 DEF Conns
  <2> QED BY <1>0, <2>2, <2>4
<1>5. CASE At("stop_a") /\ StopStep("a", TRUE, "await_final")
  <2>1. Inside /\ pc' = "await_final"
    BY <1>5 DEF Inside, StopStep
  <2>2. Fine
    BY <1>5, <2>1, StopFine DEF Conns
  <2>3. Onward(SharedKeys)
    BY <1>5, <2>1, StopOnward
  <2>4. act \in [Conns -> ActorStates] /\ "b" \in Conns
    BY EnvBefore DEF Conns
  <2>5. log \subseteq log' /\ (Lost3 => Lost3')
    BY <1>5, <2>4 DEF StopStep, StopHpx, Lost3
  <2> QED BY <1>0, <2>1, <2>2, <2>3, <2>5 DEF Before3, Hosted3
<1>6. CASE AwaitFinalStep("await_exit")
  <2>1. Fine /\ Onward(SharedKeys) /\ pc' = "await_exit" /\ UNCHANGED <<act, log>>
    BY <1>6, AwaitFinalFine, SharedOnward DEF AwaitFinalStep
  <2> QED BY <1>0, <2>1 DEF Before3, Hosted3, Lost3
<1>7. CASE AwaitExitStep("discard")
  <2>1. Fine /\ Onward(SharedKeys) /\ pc' = "discard" /\ UNCHANGED <<act, log>>
    BY <1>7, AwaitExitFine, SharedOnward DEF AwaitExitStep
  <2>2. ~RootAlive'
    BY <1>7 DEF AwaitExitStep, WaitRoot, RootAlive
  <2> QED BY <1>0, <2>1, <2>2 DEF Before3, Hosted3, Lost3
<1>8. CASE DiscardStep("gone")
  <2>1. Fine /\ Onward(SharedKeys)
    BY <1>8, DiscardFine, SharedOnward
  <2>2. pc = "discard" /\ pc' = "gone" /\ UNCHANGED <<root, log>> /\ (Lost3 => Lost3')
    BY <1>8 DEF DiscardStep, Killed, Lost3, Running, Conns
  <2>3. ~RootAlive'
    BY <2>2 DEF Slice3Ordered, Succession, RootAlive
  <2> QED BY <1>0, <2>1, <2>2, <2>3 DEF Before3, Hosted3
<1>9. CASE FinalizeStep
  <2>1. Fine /\ Onward(SharedKeys)
    BY <1>9, FinalizeFine, SharedOnward
  <2>2. pc' = "sweep" /\ UNCHANGED log /\ (Lost3 => Lost3')
    BY <1>9 DEF FinalizeStep, Killed, Lost3, Running, Conns
  <2> QED BY <1>0, <2>1, <2>2 DEF Before3, Hosted3
<1> QED BY <1>1, <1>2, <1>3, <1>4, <1>5, <1>6, <1>7, <1>8, <1>9, SharedS3, PlainS3, Const3
       DEF S3!Preflight, S3!ClusterHead, S3!ClusterWorker, S3!LaunchRoot, S3!AwaitReady, S3!JoinActor,
           S3!JoinHealth, S3!StopSurvivor, S3!AwaitFinal, S3!AwaitExit, S3!DiscardActors, S3!Finalize, S3!At

\* A rollup over four lists of gates that reports pass asked them all.
LEMMA FourGates ==
  ASSUME NEW T, NEW p \in Seq(T), NEW g \in Seq(T), NEW h \in Seq(T), NEW q \in Seq(T),
         FirstFailed(p \o g \o h \o q) = "pass",
         \A i \in DOMAIN p : p[i][1] # "pass", \A i \in DOMAIN g : g[i][1] # "pass",
         \A i \in DOMAIN h : h[i][1] # "pass", \A i \in DOMAIN q : q[i][1] # "pass"
  PROVE  /\ \A i \in DOMAIN p : p[i][2]
         /\ \A i \in DOMAIN g : g[i][2]
         /\ \A i \in DOMAIN h : h[i][2]
         /\ \A i \in DOMAIN q : q[i][2]
<1> DEFINE pg == p \o g
           pgh == pg \o h
<1>1. pg \in Seq(T) /\ (\A i \in DOMAIN pg : pg[i][1] # "pass")
      /\ ((\A i \in DOMAIN pg : pg[i][2]) => (\A i \in DOMAIN p : p[i][2]) /\ (\A i \in DOMAIN g : g[i][2]))
  BY GatesJoined
<1>2. pgh \in Seq(T) /\ (\A i \in DOMAIN pgh : pgh[i][1] # "pass")
      /\ ((\A i \in DOMAIN pgh : pgh[i][2]) => (\A i \in DOMAIN pg : pg[i][2]) /\ (\A i \in DOMAIN h : h[i][2]))
  <2> HIDE DEF pg
  <2> QED BY <1>1, GatesJoined
<1>3. FirstFailed(pgh \o q) = "pass"
  OBVIOUS
<1> HIDE DEF pg, pgh
<1>4. (\A i \in DOMAIN pgh : pgh[i][2]) /\ (\A i \in DOMAIN q : q[i][2])
  BY <1>2, <1>3, BothGates
<1> QED BY <1>1, <1>2, <1>4

\* Slice 3: a rollup that passes asked every gate.
LEMMA GatesS3 ==
  ASSUME S3!rollup.overall = "pass"
  PROVE  /\ \A r \in {"graceful", "loss"} : S3!eval_work(r) /\ S3!eval_departure(r) /\ S3!eval_teardown(r)
         /\ S3!eval_final
<1> DEFINE p == << <<"crossnode_placement_failed", S3!eval_placement>> >>
           g == S3!ArmGates("graceful")
           h == S3!ArmGates("loss")
           q == << <<"arm_isolation_violated", S3!eval_arm_isolation>>,
                   <<"misclassified", S3!eval_classifier_discriminates>>,
                   <<"cleanup_incomplete", S3!eval_final>> >>
           T == {p[1]} \cup {g[i] : i \in 1..12} \cup {h[i] : i \in 1..12} \cup {q[i] : i \in 1..3}
<1>1. \A z : S3!FirstFailed(z) = FirstFailed(z)
  BY DEF S3!FirstFailed, FirstFailed, S3!ClassOf, ClassOf, S3!Only, Only, S3!First, First
<1>2. FirstFailed(p \o g \o h \o q) = "pass"
  BY <1>1 DEF S3!rollup, S3!Gates
<1>3. /\ p \in Seq(T) /\ g \in Seq(T) /\ h \in Seq(T) /\ q \in Seq(T)
      /\ DOMAIN g = 1..12 /\ DOMAIN h = 1..12 /\ DOMAIN q = 1..3
  <2>1. g = [i \in 1..12 |-> g[i]] /\ h = [i \in 1..12 |-> h[i]]
    BY DEF S3!ArmGates
  <2>2. q = [i \in 1..3 |-> q[i]] /\ p = [i \in 1..1 |-> p[i]]
    OBVIOUS
  <2> HIDE DEF p, g, h, q
  <2>3. g \in [1..12 -> T] /\ h \in [1..12 -> T] /\ q \in [1..3 -> T] /\ p \in [1..1 -> T]
    BY <2>1, <2>2
  <2> HIDE DEF T
  <2> QED BY <2>3, TupleOf
<1>4. (\A i \in DOMAIN p : p[i][1] # "pass") /\ (\A i \in DOMAIN q : q[i][1] # "pass")
  OBVIOUS
<1>5. (\A i \in DOMAIN g : g[i][1] # "pass") /\ (\A i \in DOMAIN h : h[i][1] # "pass")
  BY DEF S3!ArmGates
<1>6. (\A i \in DOMAIN g : g[i][2]) /\ (\A i \in DOMAIN h : h[i][2]) /\ (\A i \in DOMAIN q : q[i][2])
  <2> HIDE DEF p, g, h, q, T
  <2>1. \A i \in DOMAIN p : p[i][1] # "pass"
    BY <1>4
  <2> QED BY <1>2, <1>3, <1>4, <1>5, <2>1, FourGates, ZenonT(60)
<1>7. g[3][2] /\ g[4][2] /\ g[11][2] /\ h[3][2] /\ h[4][2] /\ h[11][2] /\ q[3][2]
  <2> HIDE DEF p, g, h, q, T
  <2> QED BY <1>3, <1>6
<1> QED BY <1>7 DEF S3!ArmGates

\* Slice 3: what a pass rests on did happen.
LEMMA Verdict3 ==
  ASSUME Base, Slice3Ordered, program = "slice3", S3!rollup.overall = "pass"
  PROVE  Evidence["slice3"] \subseteq log /\ NobodyLeft /\ NoAlarm
<1>1. /\ Ok("graceful", "run", "work") /\ Ok("loss", "run", "work") /\ Ok("graceful", "b", "stopped")
      /\ Ok("graceful", "run", "actor_pids_gone")
      /\ Has("graceful", "root", "exit_path", "finalized_clean") /\ Has("graceful", "root", "final_membership", 1)
      /\ NobodyLeft
  BY GatesS3, PlainS3, Const3 DEF S3!eval_work, S3!eval_departure, S3!eval_teardown, S3!eval_final
<1>2. <<"graceful", "run", "worked">> \in log /\ <<"loss", "run", "worked">> \in log
  BY <1>1, Told DEF Base, Ok, Holds, Slices
<1>3. <<"graceful", "b", "left">> \in log
  BY <1>1, Told DEF Base, Ok, Holds
<1>4. <<"graceful", "root", "alone">> \in log /\ <<"graceful", "root", "clean">> \in log
  BY <1>1, Told DEF Base, Holds
<1>5. NoAlarm
  BY <1>1 DEF Base, Suspected, Slice3Ordered, Succession, NoAlarm, Alarms
<1> QED BY <1>1, <1>2, <1>3, <1>4, <1>5 DEF Evidence

\* Slice 3: the last step writes a verdict that is true.
LEMMA Sweep3 ==
  ASSUME Base, Slice3Ordered, program = "slice3", S3!Sweep
  PROVE  Base' /\ Slice3Ordered' /\ program' = program /\ Passed'
<1>1. SweepStep(S3!rollup)
  BY SharedS3 DEF S3!Sweep
<1>2. S3!rollup.overall \in {"pass", "fail"}
  BY DEF S3!rollup
<1>3. Base'
  BY <1>1, <1>2, SweepBase
<1>4. UNCHANGED <<program, arm, rec, root, act, log>> /\ overall' = S3!rollup.overall
      /\ pc' = "ended"
  BY <1>1 DEF SweepStep, Finish
<1>5. Slice3Ordered'
  BY <1>4, LeftSame, Onward3 DEF Before3, Hosted3, Lost3
<1>6. ASSUME overall' = "pass"
      PROVE  Evidence["slice3"] \subseteq log' /\ NobodyLeft' /\ NoAlarm'
  BY <1>4, <1>6, Verdict3 DEF NobodyLeft, RootAlive, NoAlarm
<1> QED BY <1>3, <1>4, <1>5, <1>6 DEF Passed, Evidence

\* Every step of the driver of slice 3 keeps the invariant.
LEMMA Slice3Keeps ==
  ASSUME IInv, program = "slice3", S3!live_local_run \/ S3!crossnode_live_run
  PROVE  IInv'
<1>1. Base /\ Slice3Ordered
  BY DEF IInv, Ordered
<1>2. \/ Base' /\ Slice3Ordered' /\ program' = program /\ Passed'
      \/ Fine /\ Slice3Ordered' /\ program' = program
  BY <1>1, Shared3, Sweep3, BringUpGates3, RunWork3, Depart3, Confirm3, Collect3, Publish3,
     Refused3, Poisoned3, ConfirmGone3, FinishArm3
  DEF S3!live_local_run, S3!crossnode_live_run, S3!_run_arm
<1>3. Fine => Base' /\ Passed'
  BY DEF Fine, Passed
<1> QED BY <1>2, <1>3 DEF IInv, Ordered, Repeated

-----------------------------------------------------------------------------
(* Slice 3b.                                                               *)

\* The order of slice 3b once its island was launched.
LEMMA Onward3b ==
  ASSUME Slice3bOrdered, arm' = arm, \A e \in log' : e \in log \/ e[3] \notin Alarms,
         pc' \notin {"preflight", "head", "worker", "launch"}
  PROVE  Slice3bOrdered'
  BY DEF Slice3bOrdered, NoAlarm, Beginning

\* Slice 3b: preflight keeps the order of its run.
LEMMA Preflight3b ==
  ASSUME Base, Slice3bOrdered, S3!preflight
  PROVE  Fine /\ Slice3bOrdered' /\ program' = program
<1>1. /\ UNCHANGED <<program, place, faults, rec, exc>> /\ SameIsland /\ arm' = arm /\ pc = "preflight"
      /\ overall = "none" /\ exc \in BOOLEAN
      /\ \/ pc' = "launch" /\ overall' = overall
         \/ pc' = "ended" /\ overall' = "fail_preflight"
  BY DEF S3!preflight, S3!At, S3!Goto, S3!Finish, S3!SameIsland, S3!SameRun, Base, Typed,
     SupervisorTypeOK
<1>2. Marked'
  BY <1>1, MarkedSame DEF Base
<1>3. Fine
  <2>1. ~Inside'
    BY <1>1 DEF Inside
  <2>2. faults' \in 0..MaxFaults[program']
    BY <1>1, FaultTyped DEF Base
  <2> QED BY <1>1, <1>2, <2>1, <2>2, StillStep
<1> QED BY <1>1, <1>3 DEF Slice3bOrdered, Beginning, Untouched, NoAlarm

\* Markers of the root: good ones are told by its files.
LEMMA Require3b ==
  ASSUME Base, Slice3bOrdered, NEW m \in {"root_joined", "verified", "fencing", "force", "effect", "replace", "result"},
         NEW next \in {"verified", "kill", "force", "effect", "probe", "actor_c", "await_exit"},
         S3!_require_marker(m, next)
  PROVE  Fine /\ Slice3bOrdered' /\ program' = program
<1>1. PICK ok \in BOOLEAN :
        /\ S3!WaitForFile(m, ok)
        /\ IF ok THEN Put("root", m, m \in DOMAIN S3!Bad => S3!Bad[m] \notin files) ELSE UNCHANGED rec
        /\ S3!OrRaise(ok, next)
  BY PlainS3 DEF S3!_require_marker
<1>2. /\ UNCHANGED <<program, place, arm>> /\ SameIsland /\ SameRun /\ Inside
      /\ pc' \in {next, "finalize"} /\ exc' \in BOOLEAN
  BY <1>1 DEF S3!_require_marker, S3!At, S3!SameIsland, S3!SameRun, S3!OrRaise, S3!Goto, S3!Raise,
     Inside, Base, Typed, SupervisorTypeOK
<1>3. faults' \in 0..MaxFaults[program']
  BY <1>1, <1>2, PlainS3, OutcomeTyped DEF S3!WaitForFile, Base
<1> DEFINE v == (m \in DOMAIN S3!Bad => S3!Bad[m] \notin files)
<1>4. ok => Holds(<<arm, "root", m>>, v, log')
  <2>1. ok /\ m \in DOMAIN S3!Bad /\ v = TRUE => <<arm, "root", m>> \in log
    BY <1>1, <1>2 DEF S3!WaitForFile, Base, FilesTrue, Saying
  <2>2. m \notin DOMAIN S3!Bad => m \notin Telling
    BY DEF Telling, S3!Bad
  <2>3. CASE m \notin DOMAIN S3!Bad
    BY <2>2, <2>3, Mute
  <2>4. CASE m \in DOMAIN S3!Bad
    <3> HIDE DEF v
    <3>1. m \in {"verified", "fencing", "force", "result"}
      BY <2>4 DEF S3!Bad
    <3> QED BY <1>2, <2>1, <2>4, <3>1 DEF Holds
  <2> QED BY <2>3, <2>4
<1>5. Marked'
  BY <1>1, <1>2, <1>4, MarkedPut, MarkedSame DEF Put, Base
<1>6. Fine
  BY <1>2, <1>3, <1>5, TellingStep
<1> QED BY <1>2, <1>6, Onward3b

\* Slice 3b: start_hpx keeps the order of its run.
LEMMA Start3b ==
  ASSUME Base, Slice3bOrdered, NEW k \in Conns, NEW l \in {"start_a", "start_b", "start_c"},
         NEW next \in {"init_a", "init_b", "init_c"}, S3!start_hpx(k, l, next)
  PROVE  Fine /\ Slice3bOrdered' /\ program' = program
<1>1. /\ UNCHANGED <<program, place, cluster, root, files, stale, finalMembers, log, arm, rec>> /\ SameRun
      /\ pc' \in {next, "finalize"} /\ exc' \in BOOLEAN /\ Inside
  BY DEF S3!start_hpx, S3!At, S3!SameRun, S3!OrRaise, S3!Goto, S3!Raise, Inside, Base, Typed,
     SupervisorTypeOK
<1>2. act' \in [Conns -> ActorStates] /\ \E ok, can : Outcome(ok, can)
  BY PlainS3, EnvBefore DEF S3!start_hpx, S3!StartHpx, ActorStates
<1>3. Marked'
  BY <1>1, MarkedSame DEF Base
<1>4. faults' \in 0..MaxFaults[program']
  BY <1>1, <1>2, OutcomeTyped DEF Base
<1>5. overall' = "none" /\ pc' # "ended"
  BY <1>1 DEF Inside, Base, Typed, SupervisorTypeOK
<1>6. Fine
  BY <1>1, <1>2, <1>3, <1>4, <1>5, EnvBefore, MovingStep
<1> QED BY <1>1, <1>6, Onward3b

\* Slice 3b: supervision_init keeps the order of its run.
LEMMA Init3b ==
  ASSUME Base, Slice3bOrdered, NEW k, NEW l \in {"init_a", "init_b", "init_c"},
         NEW next \in {"actor_b", "discover", "result"}, NEW roles, roles \subseteq {"roles", "roles_c"},
         S3!supervision_init(k, l, roles, next)
  PROVE  Fine /\ Slice3bOrdered' /\ program' = program
<1>1. /\ UNCHANGED <<program, place, cluster, root, act, stale, finalMembers, log, arm, rec>> /\ SameRun
      /\ pc' \in {next, "finalize"} /\ exc' \in BOOLEAN /\ Inside
  BY DEF S3!supervision_init, S3!At, S3!SameRun, S3!OrRaise, S3!Goto, S3!Raise, Inside,
     Base, Typed, SupervisorTypeOK
<1>2. files' \subseteq Files /\ files \subseteq files' /\ files' \cap TellingFiles \subseteq files
  <2>1. files' = files \/ files' = files \cup roles
    BY DEF S3!supervision_init
  <2> QED BY <2>1, EnvBefore DEF Files, TellingFiles, S3!Bad
<1>3. Marked'
  BY <1>1, MarkedSame DEF Base
<1>4. faults' \in 0..MaxFaults[program']
  BY <1>1, PlainS3, OutcomeTyped DEF S3!supervision_init, S3!Health, Base
<1>5. overall' = "none" /\ pc' # "ended"
  BY <1>1 DEF Inside, Base, Typed, SupervisorTypeOK
<1>6. Fine
  BY <1>1, <1>2, <1>3, <1>4, <1>5, EnvBefore, MovingStep
<1> QED BY <1>1, <1>6, Onward3b

\* Slice 3b: KillB keeps the order of its run.
LEMMA KillB3b ==
  ASSUME Base, Slice3bOrdered, S3!KillB
  PROVE  Fine /\ Slice3bOrdered' /\ program' = program
<1>1. CASE pc = "kill"
  <2>1. /\ UNCHANGED <<program, place, cluster, root, files, finalMembers, faults, log, arm, rec>> /\ SameRun
        /\ pc = "kill" /\ pc' \in {"killed", "finalize"} /\ exc' \in BOOLEAN /\ Inside
        /\ Killed({"b"}) \/ UNCHANGED <<act, stale>>
    BY <1>1, PlainS3 DEF S3!KillB, S3!At, S3!SameRun, S3!OrRaise, S3!Goto, S3!Raise, S3!Killed,
       Killed, Inside, Base, Typed, SupervisorTypeOK
  <2>2. Marked'
    BY <2>1, MarkedSame DEF Base
  <2>3. {"b"} \in SUBSET Conns
    BY DEF Conns
  <2>4. Fine
    BY <2>1, <2>2, <2>3, KillingStep
  <2> QED BY <2>1, <2>4, Onward3b
<1>2. CASE pc = "killed"
  <2>1. PICK ok \in BOOLEAN : (\E o, can : Outcome(o, can)) /\ Put("b", "killed", TRUE) /\ S3!OrRaise(ok, "fencing")
    BY <1>2, PlainS3 DEF S3!KillB, S3!At, S3!WaitPidGone
  <2>2. /\ UNCHANGED <<program, place, arm>> /\ SameIsland /\ SameRun /\ Inside
        /\ pc' \in {"fencing", "finalize"} /\ exc' \in BOOLEAN
    BY <1>2, <2>1 DEF S3!KillB, S3!At, S3!SameIsland, S3!SameRun, S3!OrRaise, S3!Goto, S3!Raise, Inside,
       Base, Typed, SupervisorTypeOK
  <2>3. Marked'
    BY <2>1, <2>2, MutePut DEF Base, Telling, S3!Bad
  <2>4. Fine
    BY <2>1, <2>2, <2>3, OutcomeTyped, TellingStep DEF Base
  <2> QED BY <2>2, <2>4, Onward3b
<1> QED BY <1>1, <1>2 DEF S3!KillB, S3!At

\* Slice 3b: Ungated keeps the order of its run.
LEMMA Ungated3b ==
  ASSUME Base, Slice3bOrdered, S3!Ungated
  PROVE  Fine /\ Slice3bOrdered' /\ program' = program
<1>1. /\ UNCHANGED <<program, place, arm, rec>> /\ SameIsland /\ SameRun /\ Inside
      /\ pc' \in {"actor_a", "root_joined", "replace", "finalize"} /\ exc' \in BOOLEAN
  BY DEF S3!Ungated, S3!At, S3!SameIsland, S3!SameRun, S3!OrRaise, S3!Goto, S3!Raise, Inside,
     Base, Typed, SupervisorTypeOK
<1>2. \E ok, can : Outcome(ok, can)
  BY PlainS3 DEF S3!Ungated, S3!WaitForFile, S3!Health
<1>3. Marked'
  BY <1>1, MarkedSame DEF Base
<1>4. Fine
  BY <1>1, <1>2, <1>3, OutcomeTyped, TellingStep DEF Base
<1> QED BY <1>1, <1>4, Onward3b

\* Slice 3b: the shared steps keep the order of its run.
LEMMA Shared3b ==
  ASSUME Base, Slice3bOrdered,
         \/ LaunchStep \/ AwaitExitStep("finalize") \/ FinalizeStep
         \/ (At("actor_a") /\ ActorStep("a", "start_a"))
         \/ (At("actor_b") /\ ActorStep("b", "start_b"))
         \/ (At("actor_c") /\ ActorStep("b", "start_c"))
  PROVE  Fine /\ Slice3bOrdered' /\ program' = program
<1>1. CASE LaunchStep
  <2>1. Fine /\ program' = program /\ arm' = arm /\ pc' = "ready"
    BY <1>1, LaunchFine DEF LaunchStep
  <2>2. log' = log
    BY <1>1 DEF LaunchStep, NewIsland, Slice3bOrdered, Untouched, RootAlive
  <2> QED BY <2>1, <2>2, Onward3b
<1>2. CASE AwaitExitStep("finalize") \/ FinalizeStep
  <2>1. Fine /\ Onward(SharedKeys)
    BY <1>2, AwaitExitFine, FinalizeFine, SharedOnward
  <2> QED BY <2>1, Onward3b DEF Onward
<1>3. ASSUME NEW k \in Conns, NEW next \in {"start_a", "start_b", "start_c"},
             At("actor_a") \/ At("actor_b") \/ At("actor_c"), ActorStep(k, next)
      PROVE  Fine /\ Slice3bOrdered' /\ program' = program
  <2>1. UNCHANGED <<program, place>> /\ Inside
    BY <1>3 DEF Inside
  <2>2. Fine /\ Onward(SharedKeys)
    BY <1>3, <2>1, ActorFine, ActorOnward
  <2> QED BY <2>2, Onward3b DEF Onward
<1> QED BY <1>1, <1>2, <1>3 DEF Conns

\* Slice 3b: a rollup that passes asked every gate.
LEMMA GatesS3b ==
  ASSUME S3!rollup3b.overall = "pass"
  PROVE  Ok(arm, "root", "verified") /\ Ok(arm, "root", "fencing") /\ Ok(arm, "root", "force")
         /\ Ok(arm, "root", "result")
<1> DEFINE g == S3!eval_gates
<1>1. \A q : S3!FirstFailed(q) = FirstFailed(q)
  BY DEF S3!FirstFailed, FirstFailed, S3!ClassOf, ClassOf, S3!Only, Only, S3!First, First
<1>2. FirstFailed(g) = "pass"
  BY <1>1 DEF S3!rollup3b, S3!failure_class_for
<1>3. DOMAIN g = 1..7 /\ \A i \in DOMAIN g : g[i][1] # "pass"
  BY DEF S3!eval_gates
<1>4. \A i \in DOMAIN g : g[i][2]
  <2> HIDE DEF g
  <2>1. DOMAIN g \subseteq Nat
    BY <1>3
  <2> QED BY <1>2, <1>3, <2>1, AllGates
<1>5. g[2][2] /\ g[4][2] /\ g[5][2] /\ g[7][2]
  <2> HIDE DEF g
  <2> QED BY <1>3, <1>4
<1> QED BY <1>5, PlainS3 DEF S3!eval_gates

\* Slice 3b: the last step writes a verdict that is true.
LEMMA Sweep3b ==
  ASSUME Base, Slice3bOrdered, program = "slice3b", S3!SweepStep(S3!rollup3b)
  PROVE  Base' /\ Slice3bOrdered' /\ program' = program /\ Passed'
<1>1. SweepStep(S3!rollup3b)
  BY SharedS3
<1>2. S3!rollup3b.overall \in {"pass", "fail"}
  BY DEF S3!rollup3b
<1>3. Base'
  BY <1>1, <1>2, SweepBase
<1>4. UNCHANGED <<program, arm, rec, root, act, log>> /\ overall' = S3!rollup3b.overall /\ pc' = "ended"
  BY <1>1 DEF SweepStep, Finish
<1>5. Slice3bOrdered'
  BY <1>4, Onward3b
<1>6. ASSUME overall' = "pass"
      PROVE  Evidence["slice3b"] \subseteq log'
  <2>1. /\ Ok("native", "root", "verified") /\ Ok("native", "root", "fencing")
        /\ Ok("native", "root", "force") /\ Ok("native", "root", "result")
    BY <1>4, <1>6, GatesS3b DEF Slice3bOrdered
  <2>2. /\ <<"native", "root", "verified">> \in log /\ <<"native", "root", "fencing">> \in log
        /\ <<"native", "root", "force">> \in log /\ <<"native", "root", "result">> \in log
    BY <2>1, Told DEF Base, Ok, Holds, S3!Bad
  <2> QED BY <1>4, <2>2 DEF Evidence
<1> QED BY <1>3, <1>4, <1>5, <1>6 DEF Passed, Evidence, Slice3bOrdered

\* Every step of the driver of slice 3b keeps the invariant.
LEMMA Slice3bKeeps ==
  ASSUME IInv, program = "slice3b", S3!run_slice3b
  PROVE  IInv'
<1>1. Base /\ Slice3bOrdered
  BY DEF IInv, Ordered
<1>2. "a" \in Conns /\ "b" \in Conns
  BY DEF Conns
<1>3. ASSUME \/ S3!start_hpx("a", "start_a", "init_a") \/ S3!supervision_init("a", "init_a", {}, "actor_b")
             \/ S3!start_hpx("b", "start_b", "init_b") \/ S3!supervision_init("b", "init_b", {"roles"}, "discover")
             \/ S3!start_hpx("b", "start_c", "init_c") \/ S3!supervision_init("b", "init_c", {"roles_c"}, "result")
      PROVE  Fine /\ Slice3bOrdered' /\ program' = program
  <2>1. S3!start_hpx("a", "start_a", "init_a") => Fine /\ Slice3bOrdered' /\ program' = program
    BY <1>1, <1>2, Start3b
  <2>2. S3!start_hpx("b", "start_b", "init_b") => Fine /\ Slice3bOrdered' /\ program' = program
    BY <1>1, <1>2, Start3b
  <2>3. S3!start_hpx("b", "start_c", "init_c") => Fine /\ Slice3bOrdered' /\ program' = program
    BY <1>1, <1>2, Start3b
  <2>4. S3!supervision_init("a", "init_a", {}, "actor_b") => Fine /\ Slice3bOrdered' /\ program' = program
    <3>1. {} \subseteq {"roles", "roles_c"}
      OBVIOUS
    <3> QED BY <1>1, <3>1, Init3b
  <2>5. S3!supervision_init("b", "init_b", {"roles"}, "discover") => Fine /\ Slice3bOrdered' /\ program' = program
    <3>1. {"roles"} \subseteq {"roles", "roles_c"}
      OBVIOUS
    <3> QED BY <1>1, <3>1, Init3b
  <2>6. S3!supervision_init("b", "init_c", {"roles_c"}, "result") => Fine /\ Slice3bOrdered' /\ program' = program
    <3>1. {"roles_c"} \subseteq {"roles", "roles_c"}
      OBVIOUS
    <3> QED BY <1>1, <3>1, Init3b
  <2> QED BY <1>3, <2>1, <2>2, <2>3, <2>4, <2>5, <2>6
<1>4. ASSUME \/ S3!_require_marker("root_joined", "verified") \/ S3!_require_marker("verified", "kill")
             \/ S3!_require_marker("fencing", "force") \/ S3!_require_marker("force", "effect")
             \/ S3!_require_marker("effect", "probe") \/ S3!_require_marker("replace", "actor_c")
             \/ S3!_require_marker("result", "await_exit")
      PROVE  Fine /\ Slice3bOrdered' /\ program' = program
  BY <1>1, <1>4, Require3b
<1>5. \/ Base' /\ Slice3bOrdered' /\ program' = program /\ Passed'
      \/ Fine /\ Slice3bOrdered' /\ program' = program
  BY <1>1, <1>3, <1>4, Preflight3b, KillB3b, Ungated3b, Shared3b, Sweep3b,
     SharedS3 DEF S3!run_slice3b, S3!At
<1>6. Fine => Base' /\ Passed'
  BY DEF Fine, Passed
<1> QED BY <1>5, <1>6 DEF IInv, Ordered, Repeated

=============================================================================
