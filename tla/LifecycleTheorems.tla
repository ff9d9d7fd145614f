------------------------- MODULE LifecycleTheorems --------------------------
(***************************************************************************)
(* Slice 4 and the repetitions keep the invariant of LifecycleProofs too,  *)
(* so it holds of every behaviour: the orders, the events and the verdicts *)
(* are true of what happened.                                              *)
(***************************************************************************)
EXTENDS LifecycleProofs

USE DEF At, Goto, Raise, OrRaise, SameIsland, SameRun, Same

-----------------------------------------------------------------------------
(* Slice 4.                                                                *)

\* What the instance of Slice4 shares is what the module shares.
LEMMA PlainS4 ==
  /\ S4!Conns = Conns /\ S4!Members = Members /\ S4!Running = Running
  /\ (S4!RootAlive <=> RootAlive) /\ (S4!RootServes <=> RootServes) /\ (S4!NobodyLeft <=> NobodyLeft)
  /\ (S4!Fault <=> Fault) /\ (\A ok, can : S4!Outcome(ok, can) <=> Outcome(ok, can))
  /\ \A f, g : S4!@@(f, g) = f @@ g
  /\ \A x, v : S4!:>(x, v) = (x :> v)
  /\ \A a, w, s, v : S4!Has(a, w, s, v) <=> Has(a, w, s, v)
  /\ \A a, w, s : S4!Ok(a, w, s) <=> Ok(a, w, s)
  /\ \A w, s, v : S4!Put(w, s, v) <=> Put(w, s, v)
<1>1. S4!Conns = Conns
  BY DEF S4!Conns, Conns
<1>2. S4!Members = Members
  BY <1>1 DEF S4!Members, Members, S4!Cardinality, Cardinality
<1>3. S4!Running = Running
  BY <1>1 DEF S4!Running, Running
<1>4. S4!RootAlive <=> RootAlive
  BY DEF S4!RootAlive, RootAlive
<1>5. S4!RootServes <=> RootServes
  BY DEF S4!RootServes, RootServes
<1>6. S4!NobodyLeft <=> NobodyLeft
  BY <1>1, <1>4 DEF S4!NobodyLeft, NobodyLeft
<1>7. S4!Fault <=> Fault
  BY DEF S4!Fault, Fault
<1>8. \A ok, can : S4!Outcome(ok, can) <=> Outcome(ok, can)
  BY <1>7 DEF S4!Outcome, Outcome
<1>9. \A f, g : S4!@@(f, g) = f @@ g
  BY DEF S4!@@, @@, S4!Merge, Merge, S4!Only, Only
<1>10. \A x, v : S4!:>(x, v) = (x :> v)
  BY DEF S4!:>, :>
<1>11. \A a, w, s, v : S4!Has(a, w, s, v) <=> Has(a, w, s, v)
  BY DEF S4!Has, Has
<1>12. \A a, w, s : S4!Ok(a, w, s) <=> Ok(a, w, s)
  BY <1>11 DEF S4!Ok, Ok
<1>13. \A w, s, v : S4!Put(w, s, v) <=> Put(w, s, v)
  BY <1>9, <1>10 DEF S4!Put, Put
<1> QED BY <1>1, <1>2, <1>3, <1>4, <1>5, <1>6, <1>7, <1>8, <1>9, <1>10, <1>11, <1>12, <1>13

\* The shared steps of S4 are this module's.
LEMMA SharedS4 ==
  /\ S4!PreflightStep => PreflightStep
  /\ S4!HeadStep => HeadStep
  /\ S4!WorkerStep => WorkerStep
  /\ S4!LaunchStep => LaunchStep
  /\ S4!ReadyStep => ReadyStep
  /\ (\A k, next : S4!ActorStep(k, next) => ActorStep(k, next))
  /\ (\A k, next : S4!StartStep(k, next) => StartStep(k, next))
  /\ (\A k : S4!Joining(k) => Joining(k))
  /\ S4!JoinHealthStep => JoinHealthStep
  /\ (\A k, last, next : S4!StopStep(k, last, next) => StopStep(k, last, next))
  /\ (\A next : S4!AwaitFinalStep(next) => AwaitFinalStep(next))
  /\ (\A next : S4!AwaitExitStep(next) => AwaitExitStep(next))
  /\ (\A next : S4!DiscardStep(next) => DiscardStep(next))
  /\ S4!FinalizeStep => FinalizeStep
  /\ (\A result : S4!SweepStep(result) => SweepStep(result))
<1>1. S4!PreflightStep => PreflightStep
  BY PlainS4 DEF S4!PreflightStep, S4!Finish, S4!At, S4!Goto, S4!Raise, S4!OrRaise, S4!SameIsland,
     S4!SameRun, PreflightStep, Finish
<1>2. S4!HeadStep => HeadStep
  BY PlainS4 DEF S4!HeadStep, S4!At, S4!Goto, S4!Raise, S4!OrRaise, S4!SameIsland, S4!SameRun, HeadStep
<1>3. S4!WorkerStep => WorkerStep
  BY PlainS4 DEF S4!WorkerStep, S4!At, S4!Goto, S4!Raise, S4!OrRaise, S4!SameIsland, S4!SameRun,
     WorkerStep
<1>4. S4!LaunchStep => LaunchStep
  BY PlainS4 DEF S4!LaunchStep, S4!NewIsland, S4!At, S4!Goto, S4!Raise, S4!OrRaise, S4!SameIsland,
     S4!SameRun, LaunchStep, NewIsland
<1>5. S4!ReadyStep => ReadyStep
  BY PlainS4 DEF S4!ReadyStep, S4!WaitForFile, S4!At, S4!Goto, S4!Raise, S4!OrRaise, S4!SameIsland,
     S4!SameRun, ReadyStep, WaitForFile
<1>6. \A k, next : S4!ActorStep(k, next) => ActorStep(k, next)
  BY PlainS4 DEF S4!ActorStep, S4!At, S4!Goto, S4!Raise, S4!OrRaise, S4!SameIsland, S4!SameRun,
     ActorStep
<1>7. \A k, next : S4!StartStep(k, next) => StartStep(k, next)
  BY PlainS4 DEF S4!StartStep, S4!StartHpx, S4!At, S4!Goto, S4!Raise, S4!OrRaise, S4!SameIsland,
     S4!SameRun, StartStep, StartHpx
<1>8. \A k : S4!Joining(k) => Joining(k)
  BY PlainS4, <1>6, <1>7 DEF S4!Joining, S4!At, S4!Goto, S4!Raise, S4!OrRaise, S4!SameIsland,
     S4!SameRun, Joining
<1>9. S4!JoinHealthStep => JoinHealthStep
  BY PlainS4 DEF S4!JoinHealthStep, S4!At, S4!Goto, S4!Raise, S4!OrRaise, S4!SameIsland, S4!SameRun,
     JoinHealthStep
<1>10. \A k, last, next : S4!StopStep(k, last, next) => StopStep(k, last, next)
  BY PlainS4 DEF S4!StopStep, S4!StopHpx, S4!At, S4!Goto, S4!Raise, S4!OrRaise, S4!SameIsland,
     S4!SameRun, StopStep, StopHpx
<1>11. \A next : S4!AwaitFinalStep(next) => AwaitFinalStep(next)
  BY PlainS4 DEF S4!AwaitFinalStep, S4!WaitForFile, S4!At, S4!Goto, S4!Raise, S4!OrRaise,
     S4!SameIsland, S4!SameRun, AwaitFinalStep, WaitForFile
<1>12. \A next : S4!AwaitExitStep(next) => AwaitExitStep(next)
  BY PlainS4 DEF S4!AwaitExitStep, S4!WaitRoot, S4!ExitPaths, S4!At, S4!Goto, S4!Raise, S4!OrRaise,
     S4!SameIsland, S4!SameRun, AwaitExitStep, WaitRoot, ExitPaths
<1>13. \A next : S4!DiscardStep(next) => DiscardStep(next)
  BY PlainS4 DEF S4!DiscardStep, S4!Killed, S4!At, S4!Goto, S4!Raise, S4!OrRaise, S4!SameIsland,
     S4!SameRun, DiscardStep, Killed
<1>14. S4!FinalizeStep => FinalizeStep
  BY PlainS4 DEF S4!FinalizeStep, S4!Killed, S4!KilledRoot, S4!At, S4!Goto, S4!Raise, S4!OrRaise,
     S4!SameIsland, S4!SameRun, FinalizeStep, Killed, KilledRoot
<1>15. \A result : S4!SweepStep(result) => SweepStep(result)
  BY PlainS4 DEF S4!SweepStep, S4!Finish, S4!At, S4!Goto, S4!Raise, S4!OrRaise, S4!SameIsland,
     S4!SameRun, SweepStep, Finish
<1> QED BY <1>1, <1>2, <1>3, <1>4, <1>5, <1>6, <1>7, <1>8, <1>9, <1>10, <1>11, <1>12, <1>13, <1>14,
           <1>15

\* A step of S4 goes on to its next place, or raises.
LEMMA AdvanceS4 ==
  ASSUME NEW to, NEW l, S4!advance(to, l), exc \in BOOLEAN
  PROVE  exc' \in BOOLEAN /\ pc' \in {l, "finalize"}
  BY DEF S4!advance, S4!Advance, S4!Raise, S4!Goto

\* The steps of an arm that are not observations.
Follows4 ==
  {<<"ready", "actor_a">>, <<"actor_a", "start_a">>, <<"start_a", "actor_b">>, <<"actor_b", "start_b">>,
   <<"start_b", "join">>, <<"join", "gates">>, <<"gates", "work">>, <<"work", "verify">>,
   <<"verify", "publish">>, <<"verify", "precond">>, <<"publish", "duplicate">>,
   <<"duplicate", "wrong_epoch">>, <<"precond", "probe">>, <<"inject", "observe">>,
   <<"classified", "conn_a">>, <<"observed", "stop_a">>, <<"observed", "ask_actors">>,
   <<"stop_a", "stop_b">>, <<"stop_b", "await_final">>, <<"await_final", "await_exit">>,
   <<"await_exit", "discard">>, <<"ask_actors", "discard">>, <<"discard", "gone">>, <<"gone", "arm_done">>}

Observers == {"event", "conn_a", "conn_b"}

\* Slice 4: a step onward within an arm keeps the order of the run.
LEMMA Onward4 ==
  ASSUME Slice4Ordered, arm' = arm,
         pc' \in {"finalize", "sweep", "ended"} \/ <<pc, pc'>> \in Follows4,
         \A e \in log' : e \in log \/ e[3] \notin Alarms,
         root' \in {root, "dead"}, files \subseteq files',
         files' \subseteq files \cup {"completion"} \/ (pc' = "await_final" /\ files' \subseteq files \cup {"done"}),
         pc' = "publish" => arm = "normal",
         pc' = "work" => "ready" \in files,
         pc' = "actor_a" /\ Ok(arm, "root", "ready")' => "ready" \in files,
         pc' \in Joining4 \ {"actor_a"} => Left(<<arm, "root", "ready">>),
         pc' = "observe" => ~RootAlive',
         pc' \in {"discard", "gone", "arm_done"} => ~RootAlive',
         pc' = "arm_done" /\ arm = "normal" => (Ok("normal", "run", "actor_pids_gone")' => Gone'),
         \A x : x[1] \notin {arm, "run"} => Left(x), \A w \in Observers : Left(<<arm, "observer", w>>)
  PROVE  Slice4Ordered'
<1>1. pc' \notin {"preflight", "head", "worker", "launch"}
  BY DEF Follows4
<1>2. Succession("normal", "loss", {"discard", "gone", "arm_done"}, "actor_pids_gone")'
  <2>1. \A e \in log' : e \in log \/ e[3] # "overlap"
    BY DEF Alarms
  <2>2. arm = "loss" => Left(<<"normal", "run", "actor_pids_gone">>)
    OBVIOUS
  <2> QED BY <1>1, <2>1, <2>2, SuccessionOnward DEF Slice4Ordered
<1>3. /\ pc' \in Working => pc \in Working \/ pc' = "work"
      /\ pc' \in Joining4 \ {"actor_a"} => pc \in Joining4
      /\ pc' = "stop_b" => pc = "stop_a"
      /\ pc' = "stop_a" => pc \in Working
      /\ pc' = "work" => pc \in Joining4
      /\ pc' = "actor_a" => pc = "ready"
      /\ pc' \notin {"observing", "ready"}
  BY DEF Follows4, Working, Joining4
<1>4. (pc \in Working \cup Joining4 \cup {"ready", "stop_a", "stop_b"} => "done" \notin files /\ root # "leaving")'
  <2>1. pc' \in Working \cup Joining4 \cup {"ready", "stop_a", "stop_b"} =>
          pc \in Working \cup Joining4 \cup {"ready", "stop_a", "stop_b"} /\ pc' # "await_final"
    BY <1>3 DEF Working, Joining4
  <2> QED BY <2>1 DEF Slice4Ordered
<1>5. (root = "booting" => "ready" \notin files)' /\ (pc' \in Working => "ready" \in files')
  BY <1>3 DEF Slice4Ordered
<1>6. (pc \in Joining4 /\ Ok(arm, "root", "ready") => "ready" \in files)'
  <2>1. pc' \in Joining4 \ {"actor_a"} => (Ok(arm, "root", "ready")' => Ok(arm, "root", "ready"))
    BY HasLeft DEF Ok, Left, Has
  <2> QED BY <1>3, <2>1 DEF Slice4Ordered
<1>7. pc' \in {"publish", "duplicate"} => arm' = "normal"
  <2>1. pc' = "duplicate" => pc = "publish"
    BY <1>1 DEF Follows4
  <2> QED BY <2>1 DEF Slice4Ordered
<1>8. arm' = "loss" /\ pc' \in {"observe", "wrong_epoch", "wrong_root", "classified", "conn_a", "conn_b"} => ~RootAlive'
  <2>1. /\ pc' = "wrong_epoch" => pc = "duplicate"
        /\ pc' = "conn_a" => pc = "classified"
        /\ pc' \notin {"wrong_root", "classified", "conn_b"}
    BY DEF Follows4
  <2>2. RootAlive' => RootAlive
    BY DEF RootAlive
  <2> QED BY <2>1, <2>2 DEF Slice4Ordered
<1>9. \A a, w, v : w \in Observers /\ a \in {"normal", "loss"} =>
          (Has(a, "observer", w, v)' <=> Has(a, "observer", w, v))
  <2>1. \A a, w : w \in Observers /\ a \in {"normal", "loss"} => Left(<<a, "observer", w>>)
    OBVIOUS
  <2> QED BY <2>1, HasLeft
<1>10. \A e \in log' : e[3] = "suspected_alive" => Missed'
  <2>1. \A e \in log' : e[3] = "suspected_alive" => e \in log
    BY DEF Alarms
  <2>2. Missed => Missed'
    BY <1>9 DEF Missed, Observers
  <2> QED BY <2>1, <2>2 DEF Slice4Ordered
<1>11. (EventDue' => EventDue) /\ (ConnADue' => ConnADue) /\ (ConnBDue' => ConnBDue)
  <2>1. EventDue' => EventDue
    BY <1>1, <1>3 DEF EventDue, Follows4, Working, Joining4, Beginning
  <2>2. ConnADue' => ConnADue
    BY <1>3, <2>1 DEF ConnADue, EventDue, Follows4, Working
  <2> QED BY <1>3, <2>1, <2>2 DEF ConnBDue, Follows4
<1>12. \A w \in Observers : <<"normal", "observer", w>> \in DOMAIN rec' <=> <<"normal", "observer", w>> \in DOMAIN rec
  <2>1. arm \in {"normal", "loss"}
    BY DEF Slice4Ordered, Succession
  <2>2. \A w \in Observers : Left(<<"normal", "observer", w>>)
    BY <2>1
  <2> QED BY <2>2 DEF Left
<1>13. /\ EventDue' => <<"normal", "observer", "event">> \notin DOMAIN rec'
       /\ ConnADue' => <<"normal", "observer", "conn_a">> \notin DOMAIN rec'
       /\ ConnBDue' => <<"normal", "observer", "conn_b">> \notin DOMAIN rec'
  BY <1>11, <1>12 DEF Slice4Ordered, Observers
<1> QED BY <1>2, <1>3, <1>4, <1>5, <1>6, <1>7, <1>8, <1>10, <1>13 DEF Slice4Ordered

\* A step on an island that is left as it is, and that only puts markers.
LEMMA Still4 ==
  ASSUME Base, Slice4Ordered, UNCHANGED <<program, place, arm>>, SameIsland, SameRun, Inside, exc' \in BOOLEAN,
         pc' = "finalize" \/ <<pc, pc'>> \in Follows4, Marked',
         UNCHANGED faults \/ \E ok, can : Outcome(ok, can),
         pc' = "publish" => arm = "normal",
         pc' = "work" => "ready" \in files,
         pc' \in Joining4 => Left(<<arm, "root", "ready">>),
         pc' \notin {"observe", "discard", "actor_a"}, pc' \in {"gone", "arm_done"} => ~RootAlive,
         pc' = "arm_done" /\ arm = "normal" => (Ok("normal", "run", "actor_pids_gone")' => Gone),
         \A x : x[1] \notin {arm, "run"} => Left(x), \A w \in Observers : Left(<<arm, "observer", w>>)
  PROVE  Fine /\ Slice4Ordered' /\ program' = program
<1>1. faults' \in 0..MaxFaults[program']
  BY OutcomeTyped, FaultTyped DEF Base
<1>2. Fine
  <2>1. pc' # "ended"
    BY DEF Follows4
  <2> QED BY <1>1, <2>1, TellingStep
<1>3. (RootAlive' <=> RootAlive) /\ (Gone' <=> Gone)
  BY DEF RootAlive, Gone
<1>4. Slice4Ordered'
  BY <1>3, Onward4
<1> QED BY <1>2, <1>4

\* Slice 4: BringUpGates keeps the order of its run.
LEMMA BringUpGates4 ==
  ASSUME Base, Slice4Ordered, S4!BringUpGates
  PROVE  Fine /\ Slice4Ordered' /\ program' = program
<1>1. exc \in BOOLEAN
  BY DEF Base, Typed, SupervisorTypeOK
<1>2. /\ UNCHANGED <<program, place, faults, arm, rec>> /\ SameIsland /\ SameRun /\ Inside
      /\ pc = "gates" /\ pc' \in {"work", "finalize"} /\ exc' \in BOOLEAN
      /\ pc' = "work" => Ok(arm, "root", "ready")
  BY <1>1, AdvanceS4, PlainS4
  DEF S4!BringUpGates, S4!At, S4!SameIsland, S4!SameRun, S4!Raise, Inside, S4!eval_startup
<1>3. Marked' /\ \A x : Left(x)
  BY <1>2, MarkedSame, LeftSame DEF Base
<1>4. pc' = "work" => "ready" \in files
  BY <1>2 DEF Slice4Ordered, Joining4
<1>5. pc' = "finalize" \/ <<pc, pc'>> \in Follows4
  BY <1>2 DEF Follows4
<1> QED BY <1>2, <1>3, <1>4, <1>5, Still4

\* Slice 4: RunWork keeps the order of its run.
LEMMA RunWork4 ==
  ASSUME Base, Slice4Ordered, program = "slice4", S4!RunWork
  PROVE  Fine /\ Slice4Ordered' /\ program' = program
<1> DEFINE v == S4!try_publish_completion(FALSE)
<1>1. PICK ok \in BOOLEAN :
        /\ S4!TopKCase(ok)
        /\ rec' = (<<arm, "run", "work">> :> ok) @@ (<<arm, "contract", "premature">> :> v) @@ rec
        /\ log' = IF ok THEN log \cup {<<arm, "run", "worked">>} ELSE log
        /\ IF ok THEN S4!advance("WORK_VERIFIED", "verify") ELSE S4!Raise
  BY PlainS4 DEF S4!RunWork
<1>2. exc \in BOOLEAN
  BY DEF Base, Typed, SupervisorTypeOK
<1>3. /\ UNCHANGED <<program, place, cluster, root, act, stale, files, finalMembers, arm>> /\ SameRun
      /\ pc = "work" /\ pc' \in {"verify", "finalize"} /\ exc' \in BOOLEAN /\ Inside
  BY <1>1, <1>2, AdvanceS4 DEF S4!RunWork, S4!At, S4!SameRun, S4!Raise, Inside
<1>4. log \subseteq log' /\ \A e \in log' : e \in log \/ e[3] \notin Alarms
  BY <1>1 DEF Alarms
<1>5. Holds(<<arm, "run", "work">>, ok, log') /\ Holds(<<arm, "contract", "premature">>, v, log')
  <2>1. Holds(<<arm, "contract", "premature">>, v, log')
    BY Mute DEF Telling, S3!Bad
  <2> QED BY <1>1, <2>1 DEF Holds, S3!Bad, Slices, Repeated
<1>6. Marked' /\ \A y : y # <<arm, "run", "work">> /\ y # <<arm, "contract", "premature">> => Left(y)
  BY <1>1, <1>3, <1>4, <1>5, PutTwo DEF Base
<1>7. faults' \in 0..MaxFaults[program']
  BY <1>1, <1>3, PlainS4, OutcomeTyped DEF S4!TopKCase, Base
<1>8. /\ overall' = "none" /\ pc' # "ended" /\ \A e \in log' : e \in log \/ e[3] # "suspected_alive"
  BY <1>3, <1>4 DEF Alarms, Inside, Base, Typed, SupervisorTypeOK
<1>9. Fine
  BY <1>3, <1>4, <1>6, <1>7, <1>8, EnvBefore, MovingStep
<1>10. (\A x : x[1] \notin {arm, "run"} => Left(x)) /\ \A w \in Observers : Left(<<arm, "observer", w>>)
  BY <1>6
<1>11. (pc' = "finalize" \/ <<pc, pc'>> \in Follows4) /\ pc' \notin Joining4
  BY <1>3 DEF Follows4, Joining4
<1> QED BY <1>3, <1>4, <1>9, <1>10, <1>11, Onward4

\* Slice 4: VerifyResult keeps the order of its run.
LEMMA Verify4 ==
  ASSUME Base, Slice4Ordered, S4!VerifyResult
  PROVE  Fine /\ Slice4Ordered' /\ program' = program
<1>1. PICK u, v : rec' = (<<arm, "run", "verified_in">> :> u) @@ (<<arm, "observer", "stale">> :> v) @@ rec
  BY PlainS4 DEF S4!VerifyResult
<1>2. exc \in BOOLEAN
  BY DEF Base, Typed, SupervisorTypeOK
<1>3. /\ UNCHANGED <<program, place, arm, faults>> /\ SameIsland /\ SameRun /\ Inside
      /\ pc = "verify" /\ pc' \in {"publish", "precond", "finalize"} /\ (pc' = "publish" => arm = "normal")
      /\ exc' \in BOOLEAN
  BY <1>2, AdvanceS4 DEF S4!VerifyResult, S4!At, S4!SameIsland, S4!SameRun, Inside
<1>4. Holds(<<arm, "run", "verified_in">>, u, log') /\ Holds(<<arm, "observer", "stale">>, v, log')
  BY Mute DEF Telling, S3!Bad
<1>5. Marked' /\ \A y : y # <<arm, "run", "verified_in">> /\ y # <<arm, "observer", "stale">> => Left(y)
  BY <1>1, <1>3, <1>4, PutTwo DEF Base
<1>6. (\A x : x[1] \notin {arm, "run"} => Left(x)) /\ \A w \in Observers : Left(<<arm, "observer", w>>)
  BY <1>5 DEF Observers
<1>7. (pc' = "finalize" \/ <<pc, pc'>> \in Follows4) /\ pc' \notin Joining4
  BY <1>3 DEF Follows4, Joining4
<1> QED BY <1>3, <1>5, <1>6, <1>7, Still4

\* Slice 4: PublishCompletion keeps the order of its run.
LEMMA Publish4 ==
  ASSUME Base, Slice4Ordered, S4!PublishCompletion
  PROVE  Fine /\ Slice4Ordered' /\ program' = program
<1>1. PICK v : Put("contract", "publication", v)
  BY PlainS4 DEF S4!PublishCompletion
<1>2. /\ UNCHANGED <<program, place, cluster, root, act, stale, finalMembers, faults, log, arm>> /\ SameRun
      /\ pc = "publish" /\ pc' \in {"duplicate", "finalize"} /\ exc' \in BOOLEAN /\ Inside
      /\ files' \in {files, files \cup {"completion"}}
  BY DEF S4!PublishCompletion, S4!At, S4!SameRun, S4!OrRaise, S4!Goto, S4!Raise, Inside,
     Base, Typed, SupervisorTypeOK
<1>3. Marked'
  BY <1>1, <1>2, MutePut DEF Base, Telling, S3!Bad
<1>4. faults' \in 0..MaxFaults[program'] /\ overall' = "none" /\ pc' # "ended"
  BY <1>2, FaultTyped DEF Inside, Base, Typed, SupervisorTypeOK
<1>5. files' \subseteq Files /\ files \subseteq files' /\ files' \cap TellingFiles \subseteq files
  BY <1>2, EnvBefore DEF Files, TellingFiles, S3!Bad
<1>6. Fine
  BY <1>2, <1>3, <1>4, <1>5, EnvBefore, MovingStep
<1>7. \A x : x # <<arm, "contract", "publication">> => Left(x)
  BY <1>1, LeftPut
<1>8. (\A x : x[1] \notin {arm, "run"} => Left(x)) /\ \A w \in Observers : Left(<<arm, "observer", w>>)
  BY <1>7
<1>9. (pc' = "finalize" \/ <<pc, pc'>> \in Follows4) /\ pc' \notin Joining4
  BY <1>2 DEF Follows4, Joining4
<1> QED BY <1>2, <1>5, <1>6, <1>8, <1>9, Onward4

\* The remaining steps that put one marker, or none, on an island they leave alone.
LEMMA Plain4 ==
  ASSUME Base, Slice4Ordered,
         S4!PublishDuplicate \/ S4!InjectionPreconditions \/ S4!RecordEvent \/ S4!RecordConnectors
  PROVE  Fine /\ Slice4Ordered' /\ program' = program
<1>1. exc \in BOOLEAN
  BY DEF Base, Typed, SupervisorTypeOK
<1>2. /\ UNCHANGED <<program, place, arm>> /\ SameIsland /\ SameRun /\ Inside
      /\ UNCHANGED faults \/ \E ok, can : Outcome(ok, can)
      /\ pc' \in {"wrong_epoch", "probe", "conn_a", "stop_a", "ask_actors", "finalize"} /\ exc' \in BOOLEAN
      /\ pc' = "finalize" \/ <<pc, pc'>> \in Follows4
  BY <1>1, AdvanceS4, PlainS4
  DEF S4!PublishDuplicate, S4!InjectionPreconditions, S4!RecordEvent, S4!RecordConnectors, S4!At, S4!SameIsland,
      S4!SameRun, S4!OrRaise, S4!Raise, S4!Goto, Inside, Follows4
<1>3. UNCHANGED rec \/ (\E v : Put("contract", "duplicate", v)) \/ \E v : Put("run", "preconditions", v)
  BY PlainS4 DEF S4!PublishDuplicate, S4!InjectionPreconditions, S4!RecordEvent, S4!RecordConnectors
<1>4. Marked'
  BY <1>2, <1>3, MarkedSame, MutePut DEF Base, Telling, S3!Bad
<1>5. \A x : x # <<arm, "contract", "duplicate">> /\ x # <<arm, "run", "preconditions">> => Left(x)
  BY <1>3, LeftSame, LeftPut
<1>6. (\A x : x[1] \notin {arm, "run"} => Left(x)) /\ \A w \in Observers : Left(<<arm, "observer", w>>)
  BY <1>5 DEF Observers
<1>7. pc' \notin Joining4
  BY <1>2 DEF Joining4
<1> QED BY <1>2, <1>4, <1>6, <1>7, Still4

\* Slice 4: InjectRootLoss keeps the order of its run.
LEMMA Inject4 ==
  ASSUME Base, Slice4Ordered, S4!InjectRootLoss
  PROVE  Fine /\ Slice4Ordered' /\ program' = program
<1>1. /\ UNCHANGED <<program, place, cluster, act, stale, files, finalMembers, faults, log, arm, rec>> /\ SameRun
      /\ pc = "inject" /\ exc' \in BOOLEAN /\ Inside
      /\ \/ pc' = "finalize" /\ UNCHANGED root
         \/ pc' = "observe" /\ KilledRoot
  BY PlainS4 DEF S4!InjectRootLoss, S4!At, S4!SameRun, S4!Goto, S4!Raise, S4!KilledRoot, KilledRoot,
     Inside, Base, Typed, SupervisorTypeOK
<1>2. Marked' /\ \A x : Left(x)
  BY <1>1, MarkedSame, LeftSame DEF Base
<1>3. Fine
  <2>1. {} \in SUBSET Conns /\ UNCHANGED <<act, stale>>
    BY <1>1
  <2>2. Inside' => Inside
    BY <1>1
  <2> QED BY <1>1, <1>2, <2>1, <2>2, KillingStep
<1>4. root' \in {root, "dead"} /\ (pc' = "observe" => ~RootAlive')
  BY <1>1 DEF KilledRoot, RootAlive
<1>5. (pc' = "finalize" \/ <<pc, pc'>> \in Follows4) /\ pc' \notin Joining4
  BY <1>1 DEF Follows4, Joining4
<1> QED BY <1>1, <1>2, <1>3, <1>4, <1>5, Onward4

\* Slice 4: AskActors keeps the order of its run.
LEMMA Ask4 ==
  ASSUME Base, Slice4Ordered, S4!AskActors
  PROVE  Fine /\ Slice4Ordered' /\ program' = program
<1>1. PICK t, u, v :
        rec' = [x \in {<<arm, k, "observed">> : k \in Conns} |-> TRUE]
               @@ (<<arm, "run", "post_event_dispatch">> :> t) @@ (<<arm, "root", "files_at_discard">> :> u)
               @@ (<<arm, "root", "process_gone">> :> v) @@ rec
  BY PlainS4 DEF S4!AskActors
<1>2. /\ UNCHANGED <<program, place, cluster, act, stale, files, finalMembers, faults, log, arm, exc>> /\ SameRun
      /\ pc = "ask_actors" /\ pc' = "discard" /\ exc' \in BOOLEAN /\ Inside /\ KilledRoot
  BY PlainS4 DEF S4!AskActors, S4!At, S4!SameRun, S4!Goto, S4!KilledRoot, KilledRoot, Inside,
     Base, Typed, SupervisorTypeOK
<1> DEFINE m1 == [x \in {<<arm, k, "observed">> : k \in Conns} |-> TRUE]
           m2 == m1 @@ (<<arm, "run", "post_event_dispatch">> :> t)
           m3 == m2 @@ (<<arm, "root", "files_at_discard">> :> u)
           m4 == m3 @@ (<<arm, "root", "process_gone">> :> v)
           Keys(m) == \A x \in DOMAIN m : x[1] = arm /\ x[3] \notin Telling /\ x[2] # "observer"
           Fit(m) == MarkedBy(m, log') /\ Keys(m)
<1>3. ASSUME NEW m, Fit(m), NEW w, NEW s, NEW z, w # "observer", s \notin Telling
      PROVE  Fit(m @@ (<<arm, w, s>> :> z))
  <2>1. MarkedBy(<<arm, w, s>> :> z, log')
    BY <1>3, Mute, MarkedSingle
  <2>2. MarkedBy(m @@ (<<arm, w, s>> :> z), log')
    BY <1>3, <2>1, MarkAll
  <2>3. \A x : x \in DOMAIN (m @@ (<<arm, w, s>> :> z)) => x \in DOMAIN m \/ x = <<arm, w, s>>
    BY Merged, Single
  <2> QED BY <1>3, <2>2, <2>3
<1>4. Fit(m1)
  <2>1. \A x \in DOMAIN m1 : \E k \in Conns : x = <<arm, k, "observed">>
    OBVIOUS
  <2>2. MarkedBy(m1, log')
    BY Mute DEF MarkedBy, Telling, S3!Bad
  <2> QED BY <2>1, <2>2 DEF Conns, Telling, S3!Bad
<1>5. Fit(m4)
  <2>1. "post_event_dispatch" \notin Telling /\ "files_at_discard" \notin Telling /\ "process_gone" \notin Telling
    BY DEF Telling, S3!Bad
  <2> HIDE DEF m1, Fit
  <2>2. Fit(m2)
    BY <1>3, <1>4, <2>1
  <2> HIDE DEF m2
  <2>3. Fit(m3)
    BY <1>3, <2>1, <2>2
  <2> HIDE DEF m3
  <2> QED BY <1>3, <2>1, <2>3
<1>6. rec' = m4 @@ rec
  BY <1>1
<1> HIDE DEF m4
<1>7. Marked'
  BY <1>2, <1>5, <1>6, MarkedMerge DEF Base
<1>8. \A x : x[1] # arm \/ x[2] = "observer" => Left(x)
  BY <1>5, <1>6, LeftMerge
<1>9. (\A x : x[1] \notin {arm, "run"} => Left(x)) /\ \A w \in Observers : Left(<<arm, "observer", w>>)
  BY <1>8
<1>10. Fine
  <2>1. {} \in SUBSET Conns /\ UNCHANGED <<act, stale>>
    BY <1>2
  <2>2. Inside' => Inside
    BY <1>2
  <2> QED BY <1>2, <1>7, <2>1, <2>2, KillingStep
<1>11. root' \in {root, "dead"} /\ ~RootAlive'
  BY <1>2 DEF KilledRoot, RootAlive
<1>12. (pc' = "finalize" \/ <<pc, pc'>> \in Follows4) /\ pc' \notin Joining4
  BY <1>2 DEF Follows4, Joining4
<1> QED BY <1>2, <1>9, <1>10, <1>11, <1>12, Onward4

\* Slice 4: ConfirmGone keeps the order of its run.
LEMMA ConfirmGone4 ==
  ASSUME Base, Slice4Ordered, S4!ConfirmGone
  PROVE  Fine /\ Slice4Ordered' /\ program' = program
<1>1. PICK ok \in BOOLEAN :
        /\ ok <=> \A k \in Conns : act[k] \in {"none", "dead"}
        /\ \E o, can : Outcome(o, can)
        /\ Put("run", "actor_pids_gone", ok)
  BY PlainS4 DEF S4!ConfirmGone, S4!WaitPidGone
<1>2. exc \in BOOLEAN
  BY DEF Base, Typed, SupervisorTypeOK
<1>3. /\ UNCHANGED <<program, place, arm>> /\ SameIsland /\ SameRun /\ Inside
      /\ pc = "gone" /\ pc' \in {"arm_done", "finalize"} /\ exc' \in BOOLEAN
  BY <1>2, AdvanceS4 DEF S4!ConfirmGone, S4!At, S4!SameIsland, S4!SameRun, Inside
<1>4. Marked'
  BY <1>1, <1>3, MutePut DEF Base, Telling, S3!Bad
<1>5. \A x : x # <<arm, "run", "actor_pids_gone">> => Left(x)
  BY <1>1, LeftPut
<1>6. arm = "normal" => (Ok("normal", "run", "actor_pids_gone")' => Gone)
  <2>1. rec'[<<arm, "run", "actor_pids_gone">>] = ok
    BY <1>1, Mark DEF Put
  <2> QED BY <1>1, <2>1 DEF Ok, Has, Gone
<1>7. (\A x : x[1] \notin {arm, "run"} => Left(x)) /\ \A w \in Observers : Left(<<arm, "observer", w>>)
  BY <1>5 DEF Observers
<1>8. ~RootAlive
  BY <1>3 DEF Slice4Ordered, Succession
<1>9. (pc' = "finalize" \/ <<pc, pc'>> \in Follows4) /\ pc' \notin Joining4
  BY <1>3 DEF Follows4, Joining4
<1> QED BY <1>1, <1>3, <1>4, <1>6, <1>7, <1>8, <1>9, Still4

\* The start of an observation: which of the six it is, and the state it finds.
LEMMA Asked4 ==
  ASSUME S4!StartObservation
  PROVE  /\ \/ pc = "wrong_epoch" /\ obs'.to = "wrong_epoch" /\ obs'.limit = ShortBound
            \/ pc = "wrong_root" /\ obs'.to = "wrong_root" /\ obs'.limit = ShortBound
            \/ pc = "probe" /\ obs'.to = "probe" /\ obs'.limit = ShortBound
            \/ pc = "observe" /\ obs'.to = "event" /\ obs'.limit = ObserveBound
            \/ pc = "conn_a" /\ obs'.to = "conn_a" /\ obs'.limit = ObserveBound
            \/ pc = "conn_b" /\ obs'.to = "conn_b" /\ obs'.limit = ObserveBound
         /\ pc' = "observing" /\ obs' \in Observations /\ obs'.silence = 0 /\ obs'.elapsed = 0
         /\ UNCHANGED <<program, place, cluster, root, act, stale, files, finalMembers, faults, log, arm, rec, exc>>
         /\ SameRun
<1>1. ShortBound \in Nat /\ ObserveBound \in Nat
  BY BoundsAssumption
<1>2. UNCHANGED <<program, place, cluster, root, act, stale, files, finalMembers, faults, log, arm, rec, exc>> /\ SameRun
  BY DEF S4!StartObservation, S4!At, S4!SameIsland, S4!SameRun
<1>3. CASE pc = "wrong_epoch" /\ S4!Observe("wrong_epoch", FALSE, TRUE, ShortBound)
  BY <1>1, <1>2, <1>3 DEF S4!Observe, S4!Goto, Observations, Short
<1>4. CASE pc = "wrong_root" /\ S4!Observe("wrong_root", TRUE, FALSE, ShortBound)
  BY <1>1, <1>2, <1>4 DEF S4!Observe, S4!Goto, Observations, Short
<1>5. CASE pc = "probe" /\ S4!Observe("probe", TRUE, TRUE, ShortBound)
  BY <1>1, <1>2, <1>5 DEF S4!Observe, S4!Goto, Observations, Short
<1>6. CASE pc = "observe" /\ S4!Observe("event", TRUE, TRUE, ObserveBound)
  BY <1>1, <1>2, <1>6 DEF S4!Observe, S4!Goto, Observations, Short
<1>7. CASE pc = "conn_a" /\ S4!Observe("conn_a", TRUE, TRUE, ObserveBound)
  BY <1>1, <1>2, <1>7 DEF S4!Observe, S4!Goto, Observations, Short
<1>8. CASE pc = "conn_b" /\ S4!Observe("conn_b", TRUE, TRUE, ObserveBound)
  BY <1>1, <1>2, <1>8 DEF S4!Observe, S4!Goto, Observations, Short
<1> QED BY <1>3, <1>4, <1>5, <1>6, <1>7, <1>8 DEF S4!StartObservation, S4!At

\* Slice 4: StartObservation keeps the order of its run.
LEMMA StartObservation4 ==
  ASSUME Base, Slice4Ordered, S4!StartObservation
  PROVE  Fine /\ Slice4Ordered' /\ program' = program
<1> DEFINE asked == \/ pc = "wrong_epoch" /\ obs'.to = "wrong_epoch" /\ obs'.limit = ShortBound
                    \/ pc = "wrong_root" /\ obs'.to = "wrong_root" /\ obs'.limit = ShortBound
                    \/ pc = "probe" /\ obs'.to = "probe" /\ obs'.limit = ShortBound
                    \/ pc = "observe" /\ obs'.to = "event" /\ obs'.limit = ObserveBound
                    \/ pc = "conn_a" /\ obs'.to = "conn_a" /\ obs'.limit = ObserveBound
                    \/ pc = "conn_b" /\ obs'.to = "conn_b" /\ obs'.limit = ObserveBound
<1>1. /\ asked
      /\ pc' = "observing" /\ obs' \in Observations /\ obs'.silence = 0 /\ obs'.elapsed = 0
      /\ UNCHANGED <<program, place, cluster, root, act, stale, files, finalMembers, faults, log, arm, rec, exc>>
      /\ SameRun
  BY Asked4
<1>2. Inside
  BY <1>1 DEF Inside, Base, Typed, SupervisorTypeOK
<1>3. Fine
  <2>1. Marked' /\ exc' \in BOOLEAN
    BY <1>1, MarkedSame DEF Base, Typed, SupervisorTypeOK
  <2>2. faults' \in 0..MaxFaults[program']
    BY <1>1, FaultTyped DEF Base
  <2> QED BY <1>1, <1>2, <2>1, <2>2, TellingStep
<1>4. pc \in Working /\ pc' \in Working
  BY <1>1 DEF Working
<1>5. Succession("normal", "loss", {"discard", "gone", "arm_done"}, "actor_pids_gone")'
  BY <1>1, LeftSame, SuccessionOnward DEF Slice4Ordered
<1>6. /\ (pc \in Working \cup Joining4 \cup {"ready", "stop_a", "stop_b"} => "done" \notin files /\ root # "leaving")'
      /\ (root = "booting" => "ready" \notin files)'
      /\ pc' \in Working => "ready" \in files'
  BY <1>1, <1>4 DEF Slice4Ordered
<1>7. pc' \notin Joining4 /\ pc' \notin {"publish", "duplicate"}
  BY <1>1 DEF Joining4
<1>8. obs'.silence <= obs'.elapsed /\ obs'.elapsed <= obs'.limit /\ (obs'.to \in Short => obs'.limit = ShortBound)
  <2>1. obs'.limit \in Nat
    BY <1>1 DEF Observations
  <2>2. obs'.silence <= obs'.elapsed /\ obs'.elapsed <= obs'.limit
    BY <1>1, <2>1
  <2> QED BY <1>1, <2>2 DEF Short
<1>9. arm' = "loss" /\ obs'.to # "probe" => ~RootAlive'
  BY <1>1 DEF Slice4Ordered, RootAlive
<1>10. (\A e \in log : e[3] = "suspected_alive" => Missed)'
  BY <1>1 DEF Slice4Ordered, Missed, Has
<1>11. (EventDue' => EventDue) /\ (ConnADue' => ConnADue) /\ (ConnBDue' => ConnBDue)
  BY <1>1 DEF EventDue, ConnADue, ConnBDue, Working, Beginning, Joining4, Short
<1>12. /\ EventDue' => <<"normal", "observer", "event">> \notin DOMAIN rec'
       /\ ConnADue' => <<"normal", "observer", "conn_a">> \notin DOMAIN rec'
       /\ ConnBDue' => <<"normal", "observer", "conn_b">> \notin DOMAIN rec'
  BY <1>1, <1>11 DEF Slice4Ordered
<1> HIDE DEF asked
<1> QED BY <1>1, <1>3, <1>5, <1>6, <1>7, <1>8, <1>9, <1>10, <1>12 DEF Slice4Ordered

\* What one poll finds, sil being the silence it has counted.
Polled(err, res, sil) ==
    /\ err \in BOOLEAN /\ sil = (IF root = "serving" THEN 0 ELSE obs.silence)
    /\ Outcome(~err, TRUE)
    /\ res = "pending" => ~(obs.elapsed >= obs.limit)
    /\ res = "suspected_root_loss" => sil >= SuspicionBound

\* One poll of the observer of slice 4.
LEMMA Poll4 ==
  ASSUME S4!observe_root_event
  PROVE  /\ pc = "observing" /\ SameRun
         /\ UNCHANGED <<program, place, cluster, root, act, stale, files, finalMembers, arm, exc>>
         /\ \E err, res, sil :
              /\ Polled(err, res, sil)
              /\ \/ /\ res = "pending" /\ UNCHANGED <<pc, rec, log>>
                    /\ obs' = [obs EXCEPT !.silence = sil + 1, !.elapsed = obs.elapsed + 1]
                 \/ /\ res # "pending" /\ Put("observer", obs.to, res) /\ pc' = S4!AfterObservation[obs.to]
                    /\ log' = IF res # "suspected_root_loss" THEN log
                              ELSE log \cup {<<arm, "root", IF RootAlive THEN "suspected_alive"
                                                            ELSE "suspected_gone">>}
<1>1. PICK err \in {FALSE, obs.elapsed = 0} :
        LET ev == S4!collect_root_evidence(err)
            res == S4!classify_root_event(ev)
        IN  /\ S4!Outcome(~err, TRUE)
            /\ IF res = "pending"
               THEN /\ obs' = [obs EXCEPT !.silence = ev.silence + 1, !.elapsed = @ + 1]
                    /\ UNCHANGED <<pc, rec, log>>
               ELSE /\ obs' = S4!NoObs
                    /\ S4!Put("observer", obs.to, res)
                    /\ S4!Goto(S4!AfterObservation[obs.to])
                    /\ log' = IF res # "suspected_root_loss" THEN log
                              ELSE log \cup {<<arm, "root", IF S4!RootAlive THEN "suspected_alive"
                                                            ELSE "suspected_gone">>}
  BY DEF S4!observe_root_event
<1> DEFINE ev == S4!collect_root_evidence(err)
           res == S4!classify_root_event(ev)
<1>2. /\ ev.silence = (IF root = "serving" THEN 0 ELSE obs.silence)
      /\ ev.bound = SuspicionBound /\ ev.deadline = (obs.elapsed >= obs.limit)
  BY DEF S4!collect_root_evidence
<1>3. /\ res = "pending" => ~ev.deadline
      /\ res = "suspected_root_loss" => ev.silence >= ev.bound
  <2> HIDE DEF ev
  <2> QED BY DEF S4!classify_root_event
<1>4. Polled(err, res, ev.silence)
  BY <1>1, <1>2, <1>3, PlainS4 DEF Polled
<1>5. pc = "observing" /\ SameRun
      /\ UNCHANGED <<program, place, cluster, root, act, stale, files, finalMembers, arm, exc>>
  BY DEF S4!observe_root_event, S4!At, S4!SameRun
<1>6. \/ /\ res = "pending" /\ UNCHANGED <<pc, rec, log>>
         /\ obs' = [obs EXCEPT !.silence = ev.silence + 1, !.elapsed = obs.elapsed + 1]
      \/ /\ res # "pending" /\ Put("observer", obs.to, res) /\ pc' = S4!AfterObservation[obs.to]
         /\ log' = IF res # "suspected_root_loss" THEN log
                   ELSE log \cup {<<arm, "root", IF RootAlive THEN "suspected_alive" ELSE "suspected_gone">>}
  <2> HIDE DEF ev, res
  <2>1. /\ S4!Outcome(~err, TRUE)
        /\ IF res = "pending"
           THEN /\ obs' = [obs EXCEPT !.silence = ev.silence + 1, !.elapsed = @ + 1]
                /\ UNCHANGED <<pc, rec, log>>
           ELSE /\ obs' = S4!NoObs
                /\ S4!Put("observer", obs.to, res)
                /\ S4!Goto(S4!AfterObservation[obs.to])
                /\ log' = IF res # "suspected_root_loss" THEN log
                          ELSE log \cup {<<arm, "root", IF S4!RootAlive THEN "suspected_alive"
                                                        ELSE "suspected_gone">>}
    BY <1>1 DEF ev, res
  <2> QED BY <2>1, PlainS4 DEF S4!Goto
<1> HIDE DEF ev, res
<1> QED BY <1>4, <1>5, <1>6

\* A poll that finds nothing.
LEMMA Pending4 ==
  ASSUME Base, Slice4Ordered, pc = "observing", SameRun,
         UNCHANGED <<program, place, cluster, root, act, stale, files, finalMembers, arm, exc, pc, rec, log>>,
         NEW err, NEW sil, Polled(err, "pending", sil),
         obs' = [obs EXCEPT !.silence = sil + 1, !.elapsed = obs.elapsed + 1]
  PROVE  Fine /\ Slice4Ordered'
<1>1. Inside
  BY DEF Inside, Base, Typed, SupervisorTypeOK
<1>2. Fine
  <2>1. Marked' /\ exc' \in BOOLEAN
    BY MarkedSame DEF Base, Typed, SupervisorTypeOK
  <2>2. faults' \in 0..MaxFaults[program']
    BY OutcomeTyped DEF Base, Polled
  <2> QED BY <1>1, <2>1, <2>2, TellingStep
<1>3. /\ obs \in Observations /\ obs.silence <= obs.elapsed /\ obs.elapsed <= obs.limit
      /\ obs.to \in Short => obs.limit = ShortBound
  BY DEF Slice4Ordered
<1>4. obs.silence \in Nat /\ obs.elapsed \in Nat /\ obs.limit \in Nat
  BY <1>3 DEF Observations
<1>5. sil \in Nat /\ sil <= obs.elapsed /\ obs.elapsed + 1 <= obs.limit
  BY <1>3, <1>4 DEF Polled
<1>6. /\ obs' \in Observations /\ obs'.to = obs.to /\ obs'.limit = obs.limit
      /\ obs'.silence = sil + 1 /\ obs'.elapsed = obs.elapsed + 1
  <2> DEFINE s == sil + 1
             e == obs.elapsed + 1
  <2>1. s \in Nat /\ e \in Nat /\ obs' = [obs EXCEPT !.silence = s, !.elapsed = e]
    BY <1>4, <1>5
  <2> HIDE DEF s, e
  <2>2. obs' \in Observations /\ obs'.to = obs.to /\ obs'.limit = obs.limit /\ obs'.silence = s /\ obs'.elapsed = e
    BY <1>3, <2>1 DEF Observations
  <2> QED BY <2>2 DEF s, e
<1>7. obs'.silence <= obs'.elapsed /\ obs'.elapsed <= obs'.limit /\ (obs'.to \in Short => obs'.limit = ShortBound)
  BY <1>3, <1>4, <1>5, <1>6
<1>8. Succession("normal", "loss", {"discard", "gone", "arm_done"}, "actor_pids_gone")'
  BY LeftSame, SuccessionOnward DEF Slice4Ordered
<1>9. /\ (pc \in Working \cup Joining4 \cup {"ready", "stop_a", "stop_b"} => "done" \notin files /\ root # "leaving")'
      /\ (root = "booting" => "ready" \notin files)'
      /\ pc' \in Working => "ready" \in files'
      /\ pc' \notin Joining4
  BY DEF Slice4Ordered, Joining4
<1>10. arm' = "loss" /\ obs'.to # "probe" => ~RootAlive'
  BY <1>6 DEF Slice4Ordered, RootAlive
<1>11. (\A e \in log : e[3] = "suspected_alive" => Missed)'
  BY DEF Slice4Ordered, Missed, Has
<1>12. (EventDue' => EventDue) /\ (ConnADue' => ConnADue) /\ (ConnBDue' => ConnBDue)
  BY <1>6 DEF EventDue, ConnADue, ConnBDue, Working, Beginning, Joining4, Short
<1>13. /\ EventDue' => <<"normal", "observer", "event">> \notin DOMAIN rec'
       /\ ConnADue' => <<"normal", "observer", "conn_a">> \notin DOMAIN rec'
       /\ ConnBDue' => <<"normal", "observer", "conn_b">> \notin DOMAIN rec'
  BY <1>12 DEF Slice4Ordered
<1> QED BY <1>2, <1>6, <1>7, <1>8, <1>9, <1>10, <1>11, <1>13 DEF Slice4Ordered

\* A poll that finds something: what it means.
LEMMA Meaning4 ==
  ASSUME Base, Slice4Ordered, program = "slice4", pc = "observing",
         NEW err, NEW res, NEW sil, Polled(err, res, sil)
  PROVE  /\ obs.to \in Short \cup {"event", "conn_a", "conn_b"} /\ Inside
         /\ arm = "loss" /\ obs.to # "probe" => ~RootAlive
         /\ res = "suspected_root_loss" /\ RootAlive =>
               arm = "normal" /\ obs.to \notin Short /\ <<arm, "root", "stalled">> \in log
<1>1. /\ obs \in Observations /\ obs.silence <= obs.elapsed /\ obs.elapsed <= obs.limit
      /\ obs.to \in Short => obs.limit = ShortBound
      /\ arm = "loss" /\ obs.to # "probe" => ~RootAlive
      /\ arm \in {"normal", "loss"}
  BY DEF Slice4Ordered, Succession
<1>2. obs.silence \in Nat /\ obs.elapsed \in Nat /\ obs.limit \in Nat
      /\ obs.to \in Short \cup {"event", "conn_a", "conn_b"}
  BY <1>1 DEF Observations
<1>3. Inside
  BY DEF Inside, Base, Typed, SupervisorTypeOK
<1>4. ASSUME res = "suspected_root_loss", RootAlive
      PROVE  arm = "normal" /\ obs.to \notin Short /\ <<arm, "root", "stalled">> \in log
  <2>1. 0 < ShortBound /\ ShortBound < SuspicionBound /\ ShortBound \in Nat /\ SuspicionBound \in Nat
    BY BoundsAssumption
  <2>2. sil >= SuspicionBound
    BY <1>4 DEF Polled
  <2>3. root # "serving" /\ obs.silence >= SuspicionBound
    BY <2>1, <2>2 DEF Polled
  <2>4. obs.to \notin Short
    BY <1>1, <1>2, <2>1, <2>3
  <2>5. arm = "normal"
    BY <1>1, <1>4, <2>4 DEF Short
  <2>6. root # "leaving" /\ root # "booting"
    BY DEF Slice4Ordered, Working
  <2>7. root = "stalled"
    BY <1>4, <2>3, <2>6 DEF RootAlive
  <2>8. <<arm, "root", "stalled">> \in log
    BY <1>3, <2>7 DEF Base, FilesTrue, Saying
  <2> QED BY <2>4, <2>5, <2>8
<1> QED BY <1>1, <1>2, <1>3, <1>4

\* Where an observation of slice 4 goes on.
LEMMA After4 ==
  ASSUME obs.to \in Short \cup {"event", "conn_a", "conn_b"}, pc' = S4!AfterObservation[obs.to]
  PROVE  \/ obs.to = "wrong_epoch" /\ pc' = "wrong_root"
         \/ obs.to = "wrong_root" /\ arm = "normal" /\ pc' = "observe"
         \/ obs.to = "wrong_root" /\ arm # "normal" /\ pc' = "classified"
         \/ obs.to = "probe" /\ pc' = "inject"
         \/ obs.to = "event" /\ arm = "normal" /\ pc' = "classified"
         \/ obs.to = "event" /\ arm # "normal" /\ pc' = "wrong_epoch"
         \/ obs.to = "conn_a" /\ pc' = "conn_b"
         \/ obs.to = "conn_b" /\ pc' = "observed"
  BY DEF S4!AfterObservation, Short

\* What the log gains from a result.
Noticed(res) ==
    IF res # "suspected_root_loss" THEN log
    ELSE log \cup {<<arm, "root", IF RootAlive THEN "suspected_alive" ELSE "suspected_gone">>}

\* A result is recorded truthfully.
LEMMA FoundFine4 ==
  ASSUME Base, Slice4Ordered, program = "slice4", pc = "observing", SameRun,
         UNCHANGED <<program, place, cluster, root, act, stale, files, finalMembers, arm, exc>>,
         NEW err, NEW res, NEW sil, Polled(err, res, sil), Put("observer", obs.to, res), pc' # "ended",
         log' = Noticed(res)
  PROVE  Fine
<1>1. /\ obs.to \in Short \cup {"event", "conn_a", "conn_b"} /\ Inside
      /\ arm = "loss" /\ obs.to # "probe" => ~RootAlive
      /\ res = "suspected_root_loss" /\ RootAlive => <<arm, "root", "stalled">> \in log
  BY Meaning4
<1>2. log \subseteq log' /\ \A e \in log' : e \in log \/ (e[1] = arm /\ RootAlive /\ res = "suspected_root_loss")
                                                     \/ e[3] # "suspected_alive"
  BY DEF Noticed
<1>3. Holds(<<arm, "observer", obs.to>>, res, log')
  <2>1. res = "suspected_root_loss" /\ ~RootAlive => <<arm, "root", "suspected_gone">> \in log'
    BY DEF Noticed
  <2> QED BY <1>1, <2>1 DEF Holds, Short, S3!Bad, Slices, Repeated
<1>4. Marked'
  BY <1>2, <1>3, MarkedPut DEF Put, Base
<1>5. faults' \in 0..MaxFaults[program']
  BY OutcomeTyped DEF Base, Polled
<1>6. Typed'
  BY <1>5 DEF Base, Typed, SupervisorTypeOK, IslandTypeOK, RootStates, ActorStates, Conns, Files,
     Slices, Repeated
<1>7. FilesTrue'
  <2>1. Inside' => Inside
    BY <1>1
  <2> QED BY <1>2, <2>1, FilesKept DEF Base
<1>8. Suspected'
  <2> SUFFICES ASSUME NEW e \in log', e[3] = "suspected_alive"
               PROVE  program = "slice4" /\ <<e[1], "root", "stalled">> \in log'
    BY DEF Suspected
  <2>1. CASE e \in log
    BY <1>2, <2>1 DEF Base, Suspected
  <2>2. CASE e[1] = arm /\ RootAlive /\ res = "suspected_root_loss"
    BY <1>1, <1>2, <2>2
  <2> QED BY <1>2, <2>1, <2>2
<1>9. overall' # "pass"
  BY <1>1 DEF Inside, Base, Typed, SupervisorTypeOK
<1> QED BY <1>4, <1>6, <1>7, <1>8, <1>9 DEF Fine, Base

\* And it keeps the order of the arm.
LEMMA FoundOrder4 ==
  ASSUME Base, Slice4Ordered, program = "slice4", pc = "observing",
         UNCHANGED <<program, place, cluster, root, act, stale, files, finalMembers, arm, exc>>,
         NEW err, NEW res, NEW sil, Polled(err, res, sil), Put("observer", obs.to, res),
         pc' = S4!AfterObservation[obs.to], log' = Noticed(res)
  PROVE  Slice4Ordered'
<1>1. /\ obs.to \in Short \cup {"event", "conn_a", "conn_b"}
      /\ arm = "loss" /\ obs.to # "probe" => ~RootAlive
      /\ res = "suspected_root_loss" /\ RootAlive => arm = "normal" /\ obs.to \notin Short
  BY Meaning4
<1>2. \/ obs.to = "wrong_epoch" /\ pc' = "wrong_root"
      \/ obs.to = "wrong_root" /\ arm = "normal" /\ pc' = "observe"
      \/ obs.to = "wrong_root" /\ arm # "normal" /\ pc' = "classified"
      \/ obs.to = "probe" /\ pc' = "inject"
      \/ obs.to = "event" /\ arm = "normal" /\ pc' = "classified"
      \/ obs.to = "event" /\ arm # "normal" /\ pc' = "wrong_epoch"
      \/ obs.to = "conn_a" /\ pc' = "conn_b"
      \/ obs.to = "conn_b" /\ pc' = "observed"
  BY <1>1, After4
<1>3. pc' \in Working /\ pc \in Working /\ pc' \notin Joining4 /\ pc' \notin {"observing", "publish", "duplicate"}
      /\ pc' \notin {"preflight", "head", "worker", "launch", "discard", "gone", "arm_done"}
  BY <1>2 DEF Working, Joining4
<1>4. \A x : x # <<arm, "observer", obs.to>> => Left(x)
  BY LeftPut
<1>5. Succession("normal", "loss", {"discard", "gone", "arm_done"}, "actor_pids_gone")'
  <2>1. \A e \in log' : e \in log \/ e[3] # "overlap"
    BY DEF Noticed
  <2>2. Left(<<"normal", "run", "actor_pids_gone">>)
    BY <1>4
  <2> QED BY <1>3, <2>1, <2>2, SuccessionOnward DEF Slice4Ordered
<1>6. /\ (pc \in Working \cup Joining4 \cup {"ready", "stop_a", "stop_b"} => "done" \notin files /\ root # "leaving")'
      /\ (root = "booting" => "ready" \notin files)'
      /\ pc' \in Working => "ready" \in files'
  BY <1>3 DEF Slice4Ordered
<1>7. arm' = "loss" /\ pc' \in {"observe", "wrong_epoch", "wrong_root", "classified", "conn_a", "conn_b"} => ~RootAlive'
  <2>1. obs.to = "probe" => pc' = "inject"
    BY <1>2
  <2> QED BY <1>1, <2>1 DEF RootAlive
<1>8. ASSUME NEW e \in log', e[3] = "suspected_alive"
      PROVE  Missed'
  <2>1. CASE e \in log
    <3>1. PICK w \in {"event", "conn_a", "conn_b"} : Has("normal", "observer", w, "suspected_root_loss")
      BY <1>8, <2>1 DEF Slice4Ordered, Missed
    <3>2. ~(arm = "normal" /\ obs.to = w)
      <4>1. arm = "normal" /\ obs.to = "event" => EventDue
        BY DEF EventDue
      <4>2. arm = "normal" /\ obs.to = "conn_a" => ConnADue
        BY DEF ConnADue
      <4>3. arm = "normal" /\ obs.to = "conn_b" => ConnBDue
        BY DEF ConnBDue
      <4> QED BY <3>1, <4>1, <4>2, <4>3 DEF Slice4Ordered, Has
    <3>3. Left(<<"normal", "observer", w>>)
      BY <1>4, <3>2
    <3>4. Has("normal", "observer", w, "suspected_root_loss")'
      BY <3>1, <3>3, HasLeft
    <3> QED BY <3>4 DEF Missed
  <2>2. CASE e \notin log
    <3>1. res = "suspected_root_loss" /\ RootAlive
      BY <1>8, <2>2 DEF Noticed
    <3>2. arm = "normal" /\ obs.to \in {"event", "conn_a", "conn_b"}
      BY <1>1, <3>1
    <3>3. <<arm, "observer", obs.to>> \in DOMAIN rec' /\ rec'[<<arm, "observer", obs.to>>] = res
      BY Mark DEF Put
    <3> DEFINE w == obs.to
    <3>5. w \in {"event", "conn_a", "conn_b"} /\ <<"normal", "observer", w>> \in DOMAIN rec'
          /\ rec'[<<"normal", "observer", w>>] = "suspected_root_loss"
      BY <3>1, <3>2, <3>3
    <3> HIDE DEF w
    <3> QED BY <3>5 DEF Missed, Has
  <2> QED BY <2>1, <2>2
<1>9. EventDue' => (arm = "normal" /\ obs.to \in Short /\ EventDue)
  BY <1>2, <1>3 DEF EventDue, Working, Joining4, Beginning, Short
<1>10. ConnADue' => (arm = "normal" /\ obs.to \in Short \cup {"event"} /\ EventDue)
  BY <1>2, <1>3, <1>9 DEF ConnADue, EventDue, Short
<1>11. ConnBDue' => (arm = "normal" /\ obs.to \in Short \cup {"event", "conn_a"} /\ ConnBDue)
  BY <1>2, <1>3, <1>10 DEF ConnBDue, ConnADue, Short
<1>12. /\ EventDue' => <<"normal", "observer", "event">> \notin DOMAIN rec'
       /\ ConnADue' => <<"normal", "observer", "conn_a">> \notin DOMAIN rec'
       /\ ConnBDue' => <<"normal", "observer", "conn_b">> \notin DOMAIN rec'
  <2>1. EventDue' => Left(<<"normal", "observer", "event">>) /\ EventDue
    BY <1>4, <1>9 DEF Short
  <2>2. ConnADue' => Left(<<"normal", "observer", "conn_a">>) /\ ConnADue
    BY <1>4, <1>10 DEF Short, ConnADue
  <2>3. ConnBDue' => Left(<<"normal", "observer", "conn_b">>) /\ ConnBDue
    BY <1>4, <1>11 DEF Short
  <2> QED BY <2>1, <2>2, <2>3 DEF Slice4Ordered, Left
<1> QED BY <1>3, <1>5, <1>6, <1>7, <1>8, <1>12 DEF Slice4Ordered

\* Slice 4: observe_root_event keeps the order of its run.
LEMMA Observe4 ==
  ASSUME Base, Slice4Ordered, program = "slice4", S4!observe_root_event
  PROVE  Fine /\ Slice4Ordered' /\ program' = program
<1>1. /\ pc = "observing" /\ SameRun
      /\ UNCHANGED <<program, place, cluster, root, act, stale, files, finalMembers, arm, exc>>
  BY Poll4
<1>2. PICK err, res, sil :
         /\ Polled(err, res, sil)
         /\ \/ /\ res = "pending" /\ UNCHANGED <<pc, rec, log>>
               /\ obs' = [obs EXCEPT !.silence = sil + 1, !.elapsed = obs.elapsed + 1]
            \/ /\ res # "pending" /\ Put("observer", obs.to, res) /\ pc' = S4!AfterObservation[obs.to]
               /\ log' = Noticed(res)
  BY Poll4 DEF Noticed
<1>3. CASE res = "pending"
  <2>1. Polled(err, "pending", sil) /\ UNCHANGED <<pc, rec, log>>
        /\ obs' = [obs EXCEPT !.silence = sil + 1, !.elapsed = obs.elapsed + 1]
    BY <1>2, <1>3
  <2> QED BY <1>1, <2>1, Pending4
<1>4. CASE res # "pending"
  <2>1. Polled(err, res, sil) /\ Put("observer", obs.to, res) /\ pc' = S4!AfterObservation[obs.to]
        /\ log' = Noticed(res)
    BY <1>2, <1>4
  <2>2. Slice4Ordered'
    BY <1>1, <2>1, FoundOrder4
  <2>3. pc' # "ended"
    BY <1>1, <2>1, After4, Meaning4
  <2>4. Fine
    BY <1>1, <2>1, <2>3, FoundFine4
  <2> QED BY <1>1, <2>2, <2>4
<1> QED BY <1>3, <1>4

\* What was missed stays missed, and an alarm that is not new was missed already.
LEMMA MissedKept ==
  ASSUME Slice4Ordered, \A e \in log' : e \in log \/ e[3] # "suspected_alive",
         \A w \in Observers : Left(<<"normal", "observer", w>>)
  PROVE  \A e \in log' : e[3] = "suspected_alive" => Missed'
<1>1. \A w \in Observers : \A v : Has("normal", "observer", w, v)' <=> Has("normal", "observer", w, v)
  BY HasLeft
<1>2. Missed => Missed'
  BY <1>1 DEF Missed, Observers
<1> QED BY <1>2 DEF Slice4Ordered

\* The arm with the loss begins when the root of the normal arm is gone.
LEMMA NextArm4 ==
  ASSUME Base, Slice4Ordered, program = "slice4", S4!FinishArm, arm = "normal"
  PROVE  Fine /\ Slice4Ordered' /\ program' = program
<1> DEFINE x == <<"normal", "run", "finalized">>
<1>1. PICK v : rec' = (x :> v) @@ rec @@ rec
  BY PlainS4 DEF S4!FinishArm
<1>2. /\ UNCHANGED <<program, place, faults, exc>> /\ SameIsland /\ SameRun
      /\ pc = "arm_done" /\ pc' = "launch" /\ arm' = "loss" /\ exc' \in BOOLEAN /\ ~Inside'
  BY DEF S4!FinishArm, S4!At, S4!SameIsland, S4!SameRun, S4!Goto, Inside, Base, Typed, SupervisorTypeOK
<1>3. ~RootAlive /\ (\A e \in log : e[3] # "overlap") /\ (Ok("normal", "run", "actor_pids_gone") => Gone)
  BY <1>2 DEF Slice4Ordered, Succession
<1>4. Holds(x, v, log')
  BY Mute DEF Telling, S3!Bad
<1> DEFINE m == (x :> v) @@ rec
<1>5. MarkedBy(m, log') /\ (\A k : k # x => (k \in DOMAIN m <=> k \in DOMAIN rec))
      /\ \A k : k # x /\ k \in DOMAIN rec => m[k] = rec[k]
  BY <1>2, <1>4, MarkOne, Mark DEF Base, Marked
<1>6. rec' = m @@ rec
  BY <1>1
<1> HIDE DEF m
<1>7. Marked'
  BY <1>2, <1>5, <1>6, MarkedMerge DEF Base
<1>8. \A k : k # x => Left(k)
  BY <1>5, <1>6, Merged DEF Left
<1>9. Fine
  BY <1>2, <1>7, FaultTyped, ArmStep DEF Slices, Base
<1>10. Ok("normal", "run", "actor_pids_gone")' => Gone'
  <2>1. Ok("normal", "run", "actor_pids_gone")' => Ok("normal", "run", "actor_pids_gone")
    BY <1>8, HasLeft DEF Ok
  <2> QED BY <1>2, <1>3, <2>1 DEF Gone
<1>11. ~RootAlive' /\ log' = log
  BY <1>2, <1>3 DEF RootAlive
<1>12. Succession("normal", "loss", {"discard", "gone", "arm_done"}, "actor_pids_gone")'
  BY <1>2, <1>3, <1>10, <1>11 DEF Succession, Beginning
<1>13. \A e \in log' : e[3] = "suspected_alive" => Missed'
  <2>1. \A w \in Observers : Left(<<"normal", "observer", w>>)
    BY <1>8
  <2> QED BY <1>11, <2>1, MissedKept
<1>14. (root = "booting" => "ready" \notin files)'
  BY <1>2 DEF Slice4Ordered
<1>15. ~EventDue' /\ ~ConnADue' /\ ~ConnBDue'
  BY <1>2 DEF EventDue, ConnADue, ConnBDue
<1> QED BY <1>2, <1>9, <1>12, <1>13, <1>14, <1>15 DEF Slice4Ordered, Working, Joining4

\* Slice 4: FinishArm keeps the order of its run.
LEMMA FinishArm4 ==
  ASSUME Base, Slice4Ordered, program = "slice4", S4!FinishArm
  PROVE  Fine /\ Slice4Ordered' /\ program' = program
<1>1. CASE arm # "normal"
  <2>1. exc \in BOOLEAN /\ arm = "loss"
    BY <1>1 DEF Base, Typed, SupervisorTypeOK, Slice4Ordered, Succession
  <2>2. PICK v : rec' = (<<arm, "run", "finalized">> :> v) @@ (<<arm, "run", "endpoints">> :> TRUE) @@ rec
    BY <2>1, PlainS4 DEF S4!FinishArm
  <2>3. /\ UNCHANGED <<program, place, arm, faults>> /\ SameIsland /\ SameRun /\ Inside
        /\ pc' = "finalize" /\ exc' \in BOOLEAN
    BY <1>1, <2>1, AdvanceS4 DEF S4!FinishArm, S4!At, S4!SameIsland, S4!SameRun, Inside
  <2>4. Holds(<<arm, "run", "finalized">>, v, log') /\ Holds(<<arm, "run", "endpoints">>, TRUE, log')
    BY Mute DEF Telling, S3!Bad
  <2>5. Marked' /\ \A y : y # <<arm, "run", "finalized">> /\ y # <<arm, "run", "endpoints">> => Left(y)
    BY <2>2, <2>3, <2>4, PutTwo DEF Base
  <2>6. (\A x : x[1] \notin {arm, "run"} => Left(x)) /\ \A w \in Observers : Left(<<arm, "observer", w>>)
    BY <2>5
  <2> QED BY <2>3, <2>5, <2>6, Still4 DEF Joining4
<1> QED BY <1>1, NextArm4

\* The steps before the first island, and the launch of each.
LEMMA Begin4 ==
  ASSUME Base, Slice4Ordered, program = "slice4", PreflightStep \/ HeadStep \/ WorkerStep
  PROVE  Fine /\ Slice4Ordered' /\ program' = program
<1>1. Fine
  BY PreflightFine, HeadFine, WorkerFine
<1>2. /\ UNCHANGED <<program, arm, root, files, act, log>> /\ arm = "normal"
      /\ Beginning /\ pc' \in {"head", "worker", "launch", "ended", "finalize"}
  BY DEF PreflightStep, HeadStep, WorkerStep, Finish, Slice4Ordered, Succession, Beginning
<1>3. Succession("normal", "loss", {"discard", "gone", "arm_done"}, "actor_pids_gone")'
  BY SuccessionBegins DEF Slice4Ordered, Overs, Reaps
<1>4. \A w \in Observers : Left(<<"normal", "observer", w>>)
  <2>1. rec' = rec \/ \E v : Put("run", "attested", v)
    BY DEF PreflightStep, HeadStep, WorkerStep
  <2> QED BY <2>1, LeftSame, LeftPut
<1>5. \A e \in log' : e[3] = "suspected_alive" => Missed'
  BY <1>2, <1>4, MissedKept
<1>6. EventDue /\ ConnADue /\ ConnBDue
  BY <1>2 DEF EventDue, ConnADue, ConnBDue
<1>7. /\ <<"normal", "observer", "event">> \notin DOMAIN rec'
      /\ <<"normal", "observer", "conn_a">> \notin DOMAIN rec'
      /\ <<"normal", "observer", "conn_b">> \notin DOMAIN rec'
  BY <1>4, <1>6 DEF Slice4Ordered, Left, Observers
<1>8. (root = "booting" => "ready" \notin files)'
  BY <1>2 DEF Slice4Ordered
<1>9. pc' \notin Working \cup Joining4 \cup {"ready", "stop_a", "stop_b"}
  BY <1>2 DEF Working, Joining4
<1> QED BY <1>1, <1>2, <1>3, <1>5, <1>7, <1>8, <1>9 DEF Slice4Ordered

\* Slice 4: LaunchStep keeps the order of its run.
LEMMA Launch4 ==
  ASSUME Base, Slice4Ordered, program = "slice4", LaunchStep
  PROVE  Fine /\ Slice4Ordered' /\ program' = program
<1>1. Fine
  BY LaunchFine
<1>2. /\ UNCHANGED <<program, arm, rec>> /\ pc = "launch" /\ pc' = "ready" /\ root' = "booting" /\ files' = {}
      /\ \A e \in log' : e \in log \/ e[3] = "overlap"
  BY DEF LaunchStep, NewIsland
<1>3. Succession("normal", "loss", {"discard", "gone", "arm_done"}, "actor_pids_gone")'
  BY SuccessionLaunch DEF Slice4Ordered, Overs, Reaps
<1>4. \A w \in Observers : Left(<<"normal", "observer", w>>)
  BY <1>2, LeftSame
<1>5. \A e \in log' : e[3] = "suspected_alive" => Missed'
  BY <1>2, <1>4, MissedKept
<1>6. (EventDue' => EventDue) /\ (ConnADue' => ConnADue) /\ (ConnBDue' => ConnBDue)
  BY <1>2 DEF EventDue, ConnADue, ConnBDue
<1>7. /\ EventDue' => <<"normal", "observer", "event">> \notin DOMAIN rec'
      /\ ConnADue' => <<"normal", "observer", "conn_a">> \notin DOMAIN rec'
      /\ ConnBDue' => <<"normal", "observer", "conn_b">> \notin DOMAIN rec'
  BY <1>2, <1>6 DEF Slice4Ordered
<1>8. pc' \notin Working \cup Joining4
  BY <1>2 DEF Working, Joining4
<1> QED BY <1>1, <1>2, <1>3, <1>5, <1>7, <1>8 DEF Slice4Ordered

\* Slice 4: the shared steps keep the order of its run.
LEMMA Shared4 ==
  ASSUME Base, Slice4Ordered, program = "slice4",
         \/ S4!Preflight \/ S4!ClusterHead \/ S4!ClusterWorker \/ S4!LaunchRoot \/ S4!AwaitReady \/ S4!JoinActor
         \/ S4!JoinHealth \/ S4!StopConnectors \/ S4!AwaitFinal \/ S4!AwaitExit \/ S4!DiscardActors \/ S4!Finalize
  PROVE  Fine /\ Slice4Ordered' /\ program' = program
<1>0. ASSUME Onward(SharedKeys), pc' \in {"finalize", "sweep", "ended"} \/ <<pc, pc'>> \in Follows4,
             root' \in {root, "dead"}, files \subseteq files',
             files' = files \/ (pc' = "await_final" /\ files' = files \cup {"done"}),
             pc' \notin {"publish", "work", "observe", "arm_done"},
             pc' = "actor_a" /\ Ok(arm, "root", "ready")' => "ready" \in files,
             pc' \in Joining4 \ {"actor_a"} => Left(<<arm, "root", "ready">>),
             pc' \in {"discard", "gone"} => ~RootAlive'
      PROVE  Slice4Ordered' /\ program' = program
  <2>1. (\A x : x[1] \notin {arm, "run"} => Left(x)) /\ \A w \in Observers : Left(<<arm, "observer", w>>)
    BY <1>0 DEF Onward, SharedKeys, Observers
  <2>2. arm' = arm /\ program' = program /\ \A e \in log' : e \in log \/ e[3] \notin Alarms
    BY <1>0 DEF Onward
  <2> QED BY <1>0, <2>1, <2>2, Onward4
<1>3. CASE ReadyStep
  <2>1. Fine /\ Onward(SharedKeys)
    BY <1>3, ReadyFine, SharedOnward
  <2>2. UNCHANGED <<root, files>> /\ pc = "ready" /\ pc' = "actor_a"
    BY <1>3 DEF ReadyStep
  <2>3. Ok(arm, "root", "ready")' => "ready" \in files
    <3>1. PICK ok \in BOOLEAN : (ok <=> "ready" \in files) /\ Put("root", "ready", ok)
      BY <1>3 DEF ReadyStep, WaitForFile
    <3>2. rec'[<<arm, "root", "ready">>] = ok
      BY <3>1, Mark DEF Put
    <3> QED BY <1>3, <3>1, <3>2 DEF Ok, Has, ReadyStep
  <2>4. <<pc, pc'>> \in Follows4
    BY <2>2 DEF Follows4
  <2> QED BY <1>0, <2>1, <2>2, <2>3, <2>4
<1>4. CASE \E k \in Conns : Joining(k)
  <2>1. PICK k \in Conns : Joining(k)
    BY <1>4
  <2>2. Fine /\ Onward(SharedKeys)
    BY <1>4, JoiningFine, SharedOnward
  <2>3. UNCHANGED <<root, files>> /\ <<pc, pc'>> \in Follows4 /\ pc' \in {"start_a", "actor_b", "start_b", "join"}
    <3>1. k \in {"a", "b"}
      BY DEF Conns
    <3> QED BY <2>1, <3>1 DEF Joining, ActorStep, StartStep, Follows4
  <2>4. Left(<<arm, "root", "ready">>)
    <3>1. \E v : Put(k, "identity", v) \/ Put(k, "start", v)
      BY <2>1 DEF Joining, ActorStep, StartStep
    <3> QED BY <3>1, LeftPut
  <2> QED BY <1>0, <2>2, <2>3, <2>4
<1>5. CASE JoinHealthStep
  <2>1. Fine /\ Onward(SharedKeys)
    BY <1>5, JoinHealthFine, SharedOnward
  <2>2. UNCHANGED <<root, files>> /\ pc = "join" /\ pc' = "gates"
    BY <1>5 DEF JoinHealthStep
  <2>3. <<pc, pc'>> \in Follows4
    BY <2>2 DEF Follows4
  <2>4. Left(<<arm, "root", "ready">>)
    <3>1. PICK S : rec' = [x \in {<<arm, k, "join">> : k \in S} |-> Members] @@ rec
      BY <1>5 DEF JoinHealthStep
    <3> DEFINE m == [x \in {<<arm, k, "join">> : k \in S} |-> Members]
    <3>2. <<arm, "root", "ready">> \notin DOMAIN m
      OBVIOUS
    <3>3. rec' = m @@ rec
      BY <3>1
    <3> HIDE DEF m
    <3> QED BY <3>2, <3>3, LeftMerge
  <2> QED BY <1>0, <2>1, <2>2, <2>3, <2>4
<1>6. CASE At("stop_a") /\ StopStep("a", FALSE, "stop_b")
  <2>1. Inside /\ pc' = "stop_b"
    BY <1>6 DEF Inside, StopStep
  <2>2. Fine
    BY <1>6, <2>1, StopFine DEF Conns
  <2>3. Onward(SharedKeys)
    BY <1>6, <2>1, StopOnward
  <2>4. UNCHANGED <<root, files>> /\ <<pc, pc'>> \in Follows4
    BY <1>6 DEF StopStep, Follows4
  <2> QED BY <1>0, <2>1, <2>2, <2>3, <2>4 DEF Joining4
<1>7. CASE At("stop_b") /\ StopStep("b", TRUE, "await_final")
  <2>1. Inside /\ pc' = "await_final"
    BY <1>7 DEF Inside, StopStep
  <2>2. Fine
    BY <1>7, <2>1, StopFine DEF Conns
  <2>3. Onward(SharedKeys)
    BY <1>7, <2>1, StopOnward
  <2>4. root' = root /\ files' = files \cup {"done"} /\ <<pc, pc'>> \in Follows4
    BY <1>7 DEF StopStep, Follows4
  <2> QED BY <1>0, <2>1, <2>2, <2>3, <2>4 DEF Joining4
<1>8. CASE AwaitFinalStep("await_exit")
  <2>1. Fine /\ Onward(SharedKeys) /\ pc' = "await_exit" /\ UNCHANGED <<root, files>>
    BY <1>8, AwaitFinalFine, SharedOnward DEF AwaitFinalStep
  <2>2. <<pc, pc'>> \in Follows4
    BY <1>8 DEF AwaitFinalStep, Follows4
  <2> QED BY <1>0, <2>1, <2>2 DEF Joining4
<1>9. CASE AwaitExitStep("discard")
  <2>1. Fine /\ Onward(SharedKeys) /\ pc' = "discard" /\ files' = files
    BY <1>9, AwaitExitFine, SharedOnward DEF AwaitExitStep
  <2>2. ~RootAlive' /\ root' \in {root, "dead"}
    BY <1>9 DEF AwaitExitStep, WaitRoot, RootAlive
  <2>3. <<pc, pc'>> \in Follows4
    BY <1>9 DEF AwaitExitStep, Follows4
  <2> QED BY <1>0, <2>1, <2>2, <2>3 DEF Joining4
<1>10. CASE DiscardStep("gone")
  <2>1. Fine /\ Onward(SharedKeys)
    BY <1>10, DiscardFine, SharedOnward
  <2>2. pc = "discard" /\ pc' = "gone" /\ UNCHANGED <<root, files>>
    BY <1>10 DEF DiscardStep
  <2>3. ~RootAlive'
    BY <2>2 DEF Slice4Ordered, Succession, RootAlive
  <2>4. <<pc, pc'>> \in Follows4
    BY <2>2 DEF Follows4
  <2> QED BY <1>0, <2>1, <2>2, <2>3, <2>4 DEF Joining4
<1>11. CASE FinalizeStep
  <2>1. Fine /\ Onward(SharedKeys)
    BY <1>11, FinalizeFine, SharedOnward
  <2>2. pc' = "sweep" /\ UNCHANGED files /\ root' \in {root, "dead"}
    BY <1>11 DEF FinalizeStep, KilledRoot
  <2> QED BY <1>0, <2>1, <2>2 DEF Joining4
<1> QED BY <1>3, <1>4, <1>5, <1>6, <1>7, <1>8, <1>9, <1>10, <1>11, Begin4, Launch4, SharedS4, PlainS4
       DEF S4!Preflight, S4!ClusterHead, S4!ClusterWorker, S4!LaunchRoot, S4!AwaitReady, S4!JoinActor,
           S4!JoinHealth, S4!StopConnectors, S4!AwaitFinal, S4!AwaitExit, S4!DiscardActors, S4!Finalize, S4!At

\* Slice 4: a rollup that passes asked every gate.
LEMMA GatesS4 ==
  ASSUME S4!rollup.overall = "pass"
  PROVE  /\ \A r \in {"normal", "loss"} : S4!eval_work(r) /\ S4!eval_root_event(r) /\ S4!eval_connector_observation(r)
         /\ S4!eval_disposal("normal") /\ S4!eval_final
<1> DEFINE p == << <<"crossnode_placement_failed", S4!eval_placement>> >>
           g == S4!ArmGates("normal")
           h == S4!ArmGates("loss")
           q == << <<"arm_isolation_violated", S4!eval_arm_isolation>>,
                   <<"root_event_misclassified", S4!eval_classifier_equivalence>>,
                   <<"cleanup_incomplete", S4!eval_final>> >>
           T == {p[1]} \cup {g[i] : i \in 1..14} \cup {h[i] : i \in 1..14} \cup {q[i] : i \in 1..3}
<1>1. \A z : S4!FirstFailed(z) = FirstFailed(z)
  BY DEF S4!FirstFailed, FirstFailed, S4!ClassOf, ClassOf, S4!Only, Only, S4!First, First
<1>2. FirstFailed(p \o g \o h \o q) = "pass"
  BY <1>1 DEF S4!rollup, S4!Gates
<1>3. /\ p \in Seq(T) /\ g \in Seq(T) /\ h \in Seq(T) /\ q \in Seq(T)
      /\ DOMAIN g = 1..14 /\ DOMAIN h = 1..14 /\ DOMAIN q = 1..3
  <2>1. g = [i \in 1..14 |-> g[i]]
    BY DEF S4!ArmGates
  <2>2. h = [i \in 1..14 |-> h[i]]
    BY DEF S4!ArmGates
  <2>3. q = [i \in 1..3 |-> q[i]] /\ p = [i \in 1..1 |-> p[i]]
    OBVIOUS
  <2> HIDE DEF p, g, h, q
  <2>4. g \in [1..14 -> T] /\ h \in [1..14 -> T] /\ q \in [1..3 -> T] /\ p \in [1..1 -> T]
    BY <2>1, <2>2, <2>3
  <2> HIDE DEF T
  <2> QED BY <2>4, TupleOf
<1>4. (\A i \in DOMAIN p : p[i][1] # "pass") /\ (\A i \in DOMAIN q : q[i][1] # "pass")
  OBVIOUS
<1>5. (\A i \in DOMAIN g : g[i][1] # "pass") /\ (\A i \in DOMAIN h : h[i][1] # "pass")
  BY DEF S4!ArmGates
<1>6. (\A i \in DOMAIN g : g[i][2]) /\ (\A i \in DOMAIN h : h[i][2]) /\ (\A i \in DOMAIN q : q[i][2])
  <2> HIDE DEF p, g, h, q, T
  <2>1. \A i \in DOMAIN p : p[i][1] # "pass"
    BY <1>4
  <2> QED BY <1>2, <1>3, <1>4, <1>5, <2>1, FourGates, ZenonT(60)
<1>7. g[3][2] /\ g[7][2] /\ g[10][2] /\ g[13][2] /\ h[3][2] /\ h[7][2] /\ h[10][2] /\ q[3][2]
  <2> HIDE DEF p, g, h, q, T
  <2> QED BY <1>3, <1>6
<1> QED BY <1>7 DEF S4!ArmGates

\* Slice 4: what a pass rests on did happen.
LEMMA Verdict4 ==
  ASSUME Base, Slice4Ordered, program = "slice4", S4!rollup.overall = "pass"
  PROVE  Evidence["slice4"] \subseteq log /\ NobodyLeft /\ NoAlarm
<1>1. /\ Ok("normal", "run", "work") /\ Ok("loss", "run", "work")
      /\ Ok("normal", "a", "stopped") /\ Ok("normal", "b", "stopped") /\ Ok("normal", "run", "actor_pids_gone")
      /\ Has("normal", "root", "exit_path", "finalized_clean") /\ Has("normal", "root", "final_membership", 1)
      /\ \A w \in Observers : Has("normal", "observer", w, "explicit_completion")
      /\ Has("loss", "observer", "event", "suspected_root_loss")
      /\ NobodyLeft
  BY GatesS4, PlainS4 DEF S4!eval_work, S4!eval_root_event, S4!eval_connector_observation,
     S4!eval_disposal, S4!eval_final, S4!Event, S4!Expected, Observers, Conns
<1>2. <<"normal", "run", "worked">> \in log /\ <<"loss", "run", "worked">> \in log
  BY <1>1, Told DEF Base, Ok, Holds, Slices
<1>3. <<"normal", "a", "left">> \in log /\ <<"normal", "b", "left">> \in log
  BY <1>1, Told DEF Base, Ok, Holds
<1>4. <<"normal", "root", "alone">> \in log /\ <<"normal", "root", "clean">> \in log
  BY <1>1, Told DEF Base, Holds
<1>5. <<"loss", "root", "suspected_gone">> \in log
  BY <1>1, Told DEF Base, Holds
<1>6. ~Missed
  BY <1>1 DEF Missed, Has, Observers
<1>7. NoAlarm
  BY <1>1, <1>6 DEF Slice4Ordered, Succession, NoAlarm, Alarms
<1> QED BY <1>1, <1>2, <1>3, <1>4, <1>5, <1>7 DEF Evidence

\* Slice 4: the last step writes a verdict that is true.
LEMMA Sweep4 ==
  ASSUME Base, Slice4Ordered, program = "slice4", S4!Sweep
  PROVE  Base' /\ Slice4Ordered' /\ program' = program /\ Passed'
<1>1. SweepStep(S4!rollup)
  BY SharedS4 DEF S4!Sweep
<1>2. S4!rollup.overall \in {"pass", "fail"}
  BY DEF S4!rollup
<1>3. Base'
  BY <1>1, <1>2, SweepBase
<1>4. UNCHANGED <<program, arm, rec, root, act, files, log>> /\ overall' = S4!rollup.overall
      /\ pc' = "ended"
  BY <1>1 DEF SweepStep, Finish
<1>5. Slice4Ordered'
  BY <1>4, LeftSame, Onward4 DEF Joining4
<1>6. ASSUME overall' = "pass"
      PROVE  Evidence["slice4"] \subseteq log' /\ NobodyLeft' /\ NoAlarm'
  BY <1>4, <1>6, Verdict4 DEF NobodyLeft, RootAlive, NoAlarm
<1> QED BY <1>3, <1>4, <1>5, <1>6 DEF Passed, Evidence

\* Every step of the driver of slice 4 keeps the invariant.
LEMMA Slice4Keeps ==
  ASSUME IInv, program = "slice4", S4!Driver
  PROVE  IInv'
<1>1. Base /\ Slice4Ordered
  BY DEF IInv, Ordered
<1>2. \/ Base' /\ Slice4Ordered' /\ program' = program /\ Passed'
      \/ Fine /\ Slice4Ordered' /\ program' = program
  BY <1>1, Shared4, Sweep4, BringUpGates4, RunWork4, Verify4, Publish4, Plain4, StartObservation4,
     Observe4, Inject4, Ask4, ConfirmGone4, FinishArm4
  DEF S4!Driver, S4!live_local_run, S4!crossnode_live_run, S4!_run_arm
<1>3. Fine => Base' /\ Passed'
  BY DEF Fine, Passed
<1> QED BY <1>2, <1>3 DEF IInv, Ordered, Repeated

-----------------------------------------------------------------------------
(* Experiments 66 to 69.                                                   *)

\* What a step of theirs keeps.
Kept == Base' /\ RepOrdered' /\ program' = program

Between == {"preflight", "head", "worker", "launch", "verdict"}

\* Outside the steps between two repetitions the order asks nothing.
LEMMA Elsewhere ==
  ASSUME Fine, UNCHANGED program, pc' \notin Between
  PROVE  Kept
  BY DEF Kept, Fine, RepOrdered, Between, Beginning

\* Between two repetitions nothing is started.
LEMMA NothingStarts ==
  ASSUME Base', UNCHANGED <<program, root, act>>, RepOrdered, pc \in Between
  PROVE  Kept
<1>1. ~RootAlive /\ Running = {}
  BY DEF RepOrdered, Between, Beginning
<1>2. ~RootAlive' /\ Running' = {}
  BY <1>1 DEF RootAlive, Running
<1> QED BY <1>2 DEF Kept, RepOrdered

\* A repetition begins with its record empty.
LEMMA RepBegins ==
  ASSUME Base, RepOrdered, PreflightStep \/ HeadStep \/ WorkerStep
  PROVE  Kept
<1>1. Base'
  BY PreflightFine, HeadFine, WorkerFine DEF Fine
<1>2. UNCHANGED <<program, root, act>> /\ pc \in Between
  BY DEF PreflightStep, HeadStep, WorkerStep, Between
<1> QED BY <1>1, <1>2, NothingStarts

\* A run ends with the class of its last repetition.
LEMMA RepEnds ==
  ASSUME Base, RepOrdered, LocalEnd \/ CrossEnd
  PROVE  Kept
<1>1. Base' /\ program' = program /\ pc' = "ended"
  BY LocalEndBase, CrossEndBase DEF LocalEnd, CrossEnd, Finish
<1> QED BY <1>1 DEF Kept, RepOrdered, Beginning

\* The finally clause leaves nothing running.
LEMMA FinallyKills ==
  ASSUME Base, program \in Repeated \ {"exp65"}, RepFinally
  PROVE  Kept
<1>1. Base' /\ program' = program
  BY RepFinallyFine DEF Fine, RepFinally
<1>2. ~RootAlive'
  BY DEF RepFinally, KilledRoot, RootAlive
<1>3. Running' = {}
  <2>1. \A k \in Conns : act'[k] = (IF k \in Running THEN "dying" ELSE act[k])
    BY DEF RepFinally, Killed
  <2> QED BY <2>1 DEF Running
<1> QED BY <1>1, <1>2, <1>3 DEF Kept, RepOrdered

\* A repetition whose class is "pass" happened as its evidence says.
LEMMA RepPasses ==
  ASSUME Base, RepOrdered, program \in Repeated, NEW c, c = "pass" => RepEvidence(arm) \subseteq log, RepVerdict(c)
  PROVE  Kept
<1>1. Base'
  BY RepVerdictFine DEF Fine
<1>2. UNCHANGED <<program, root, act>> /\ pc \in Between
  BY DEF RepVerdict, Between
<1> QED BY <1>1, <1>2, NothingStarts

\* The steps within a repetition.
LEMMA RepWithin ==
  ASSUME Base, program \in Repeated \ {"exp65"},
         \/ RepLaunch \/ ReadyStep \/ RepJoin(ActorMethod) \/ RepHealths(ActorMethod) \/ RepStops(ActorMethod)
         \/ DiscardStep("destroyed") \/ AwaitFinalStep("await_exit") \/ AwaitExitStep("retire")
         \/ RepRecreate \/ (\E local \in BOOLEAN : RepDestroyed(local) \/ RepRetire(local))
  PROVE  Kept
<1>1. Fine
  BY RepLaunchFine, ReadyFine, RepJoinFine, RepHealthsFine, RepStopsFine, DiscardFine, AwaitFinalFine,
     AwaitExitFine, RepRecreateFine, RepDestroyedFine, RepRetireFine
<1>2. UNCHANGED program
  BY DEF RepLaunch, ReadyStep, RepJoin, RepHealths, RepStops, DiscardStep, AwaitFinalStep,
     AwaitExitStep, RepRecreate, RepDestroyed, RepRetire
<1>3. pc' \notin Between
  BY DEF RepLaunch, ReadyStep, RepJoin, RepHealths, RepStops, DiscardStep, AwaitFinalStep,
     AwaitExitStep, RepRecreate, RepDestroyed, RepRetire, RepActor, RepStart, RepChild, RepHealth, RepStop, Between
<1> QED BY <1>1, <1>2, <1>3, Elsewhere

\* The work of a repetition is logged when its result says it was done.
LEMMA RepWorks ==
  ASSUME Base, program \in Repeated, NEW Results, program = "exp67" => Results \subseteq R67!Dispatches,
         program = "exp68" => Results \subseteq R68!CaseResults, RepWork(Results)
  PROVE  Kept
<1>1. Fine
  BY RepWorkFine
<1> QED BY <1>1, Elsewhere DEF RepWork, Between

\* The saturation phase asks nothing of the order.
LEMMA RepSaturates ==
  ASSUME Base, At("saturate"), Goto("stop_a"), SameIsland, UNCHANGED exc, Same,
         \/ UNCHANGED <<rec, faults>>
         \/ \E v, ok, can : Outcome(ok, can) /\ Put("run", "saturation", v)
  PROVE  Kept
<1>1. Fine
  BY SaturateFine
<1> QED BY <1>1, Elsewhere DEF Between

\* What must have happened in a repetition with two connectors.
LEMMA TwoConnectors ==
  ASSUME Marked, program # "exp65", program \in Repeated,
         \A k \in Conns : Ok(arm, k, "stopped"), Has(arm, "root", "exit_path", "finalized_clean"),
         Has(arm, "root", "final_membership", 1), <<arm, "run", "worked">> \in log
  PROVE  RepEvidence(arm) \subseteq log
<1>1. <<arm, "a", "left">> \in log /\ <<arm, "b", "left">> \in log
  <2>1. Ok(arm, "a", "stopped") /\ Ok(arm, "b", "stopped")
    BY DEF Conns
  <2> QED BY <2>1, Told DEF Ok, Holds
<1>2. <<arm, "root", "alone">> \in log /\ <<arm, "root", "clean">> \in log
  BY Told DEF Holds
<1> QED BY <1>1, <1>2 DEF RepEvidence

-----------------------------------------------------------------------------
(* Experiment 67.                                                          *)

\* What the instance of Rep67 shares is what the module shares.
LEMMA PlainR67 ==
  /\ R67!Conns = Conns /\ R67!Members = Members /\ R67!Running = Running
  /\ (R67!RootAlive <=> RootAlive) /\ (R67!RootServes <=> RootServes) /\ (R67!NobodyLeft <=> NobodyLeft)
  /\ (R67!Fault <=> Fault) /\ (\A ok, can : R67!Outcome(ok, can) <=> Outcome(ok, can))
  /\ \A f, g : R67!@@(f, g) = f @@ g
  /\ \A x, v : R67!:>(x, v) = (x :> v)
  /\ \A a, w, s, v : R67!Has(a, w, s, v) <=> Has(a, w, s, v)
  /\ \A a, w, s : R67!Ok(a, w, s) <=> Ok(a, w, s)
  /\ \A w, s, v : R67!Put(w, s, v) <=> Put(w, s, v)
<1>1. R67!Conns = Conns
  BY DEF R67!Conns, Conns
<1>2. R67!Members = Members
  BY <1>1 DEF R67!Members, Members, R67!Cardinality, Cardinality
<1>3. R67!Running = Running
  BY <1>1 DEF R67!Running, Running
<1>4. R67!RootAlive <=> RootAlive
  BY DEF R67!RootAlive, RootAlive
<1>5. R67!RootServes <=> RootServes
  BY DEF R67!RootServes, RootServes
<1>6. R67!NobodyLeft <=> NobodyLeft
  BY <1>1, <1>4 DEF R67!NobodyLeft, NobodyLeft
<1>7. R67!Fault <=> Fault
  BY DEF R67!Fault, Fault
<1>8. \A ok, can : R67!Outcome(ok, can) <=> Outcome(ok, can)
  BY <1>7 DEF R67!Outcome, Outcome
<1>9. \A f, g : R67!@@(f, g) = f @@ g
  BY DEF R67!@@, @@, R67!Merge, Merge, R67!Only, Only
<1>10. \A x, v : R67!:>(x, v) = (x :> v)
  BY DEF R67!:>, :>
<1>11. \A a, w, s, v : R67!Has(a, w, s, v) <=> Has(a, w, s, v)
  BY DEF R67!Has, Has
<1>12. \A a, w, s : R67!Ok(a, w, s) <=> Ok(a, w, s)
  BY <1>11 DEF R67!Ok, Ok
<1>13. \A w, s, v : R67!Put(w, s, v) <=> Put(w, s, v)
  BY <1>9, <1>10 DEF R67!Put, Put
<1> QED BY <1>1, <1>2, <1>3, <1>4, <1>5, <1>6, <1>7, <1>8, <1>9, <1>10, <1>11, <1>12, <1>13

\* The shared steps of R67 are this module's.
LEMMA SharedR67 ==
  /\ R67!PreflightStep => PreflightStep
  /\ R67!HeadStep => HeadStep
  /\ R67!WorkerStep => WorkerStep
  /\ R67!ReadyStep => ReadyStep
  /\ (\A next : R67!AwaitFinalStep(next) => AwaitFinalStep(next))
  /\ (\A next : R67!AwaitExitStep(next) => AwaitExitStep(next))
  /\ (\A next : R67!DiscardStep(next) => DiscardStep(next))
  /\ R67!RepLaunch => RepLaunch
  /\ (\A k, next : R67!RepActor(k, next) => RepActor(k, next))
  /\ (\A local : R67!RepDestroyed(local) => RepDestroyed(local))
  /\ R67!RepRecreate => RepRecreate
  /\ (\A local : R67!RepRetire(local) => RepRetire(local))
  /\ R67!RepFinally => RepFinally
  /\ (\A c : R67!RepVerdict(c) => RepVerdict(c))
  /\ R67!LocalEnd => LocalEnd
  /\ R67!CrossEnd => CrossEnd
  /\ (\A Results : R67!RepWork(Results) => RepWork(Results))
<1>1. R67!PreflightStep => PreflightStep
  BY PlainR67 DEF R67!PreflightStep, R67!Finish, R67!At, R67!Goto, R67!Raise, R67!OrRaise,
     R67!SameIsland, R67!SameRun, PreflightStep, Finish
<1>2. R67!HeadStep => HeadStep
  BY PlainR67 DEF R67!HeadStep, R67!At, R67!Goto, R67!Raise, R67!OrRaise, R67!SameIsland,
     R67!SameRun, HeadStep
<1>3. R67!WorkerStep => WorkerStep
  BY PlainR67 DEF R67!WorkerStep, R67!At, R67!Goto, R67!Raise, R67!OrRaise, R67!SameIsland,
     R67!SameRun, WorkerStep
<1>4. R67!ReadyStep => ReadyStep
  BY PlainR67 DEF R67!ReadyStep, R67!WaitForFile, R67!At, R67!Goto, R67!Raise, R67!OrRaise,
     R67!SameIsland, R67!SameRun, ReadyStep, WaitForFile
<1>5. \A next : R67!AwaitFinalStep(next) => AwaitFinalStep(next)
  BY PlainR67 DEF R67!AwaitFinalStep, R67!WaitForFile, R67!At, R67!Goto, R67!Raise, R67!OrRaise,
     R67!SameIsland, R67!SameRun, AwaitFinalStep, WaitForFile
<1>6. \A next : R67!AwaitExitStep(next) => AwaitExitStep(next)
  BY PlainR67 DEF R67!AwaitExitStep, R67!WaitRoot, R67!ExitPaths, R67!At, R67!Goto, R67!Raise,
     R67!OrRaise, R67!SameIsland, R67!SameRun, AwaitExitStep, WaitRoot, ExitPaths
<1>7. \A next : R67!DiscardStep(next) => DiscardStep(next)
  BY PlainR67 DEF R67!DiscardStep, R67!Killed, R67!At, R67!Goto, R67!Raise, R67!OrRaise,
     R67!SameIsland, R67!SameRun, DiscardStep, Killed
<1>8. R67!RepLaunch => RepLaunch
  BY PlainR67 DEF R67!RepLaunch, R67!NewIsland, R67!Same, R67!At, R67!Goto, R67!Raise, R67!OrRaise,
     R67!SameIsland, R67!SameRun, RepLaunch, NewIsland
<1>9. \A k, next : R67!RepActor(k, next) => RepActor(k, next)
  BY PlainR67 DEF R67!RepActor, R67!Same, R67!At, R67!Goto, R67!Raise, R67!OrRaise, R67!SameIsland,
     R67!SameRun, RepActor
<1>10. \A local : R67!RepDestroyed(local) => RepDestroyed(local)
  BY PlainR67 DEF R67!RepDestroyed, R67!WaitPidGone, R67!Same, R67!At, R67!Goto, R67!Raise,
     R67!OrRaise, R67!SameIsland, R67!SameRun, RepDestroyed, WaitPidGone
<1>11. R67!RepRecreate => RepRecreate
  BY PlainR67 DEF R67!RepRecreate, R67!Same, R67!At, R67!Goto, R67!Raise, R67!OrRaise,
     R67!SameIsland, R67!SameRun, RepRecreate
<1>12. \A local : R67!RepRetire(local) => RepRetire(local)
  BY PlainR67 DEF R67!RepRetire, R67!WaitPidGone, R67!Killed, R67!Same, R67!At, R67!Goto, R67!Raise,
     R67!OrRaise, R67!SameIsland, R67!SameRun, RepRetire, WaitPidGone, Killed
<1>13. R67!RepFinally => RepFinally
  BY PlainR67 DEF R67!RepFinally, R67!Killed, R67!KilledRoot, R67!Same, R67!At, R67!Goto, R67!Raise,
     R67!OrRaise, R67!SameIsland, R67!SameRun, RepFinally, Killed, KilledRoot
<1>14. \A c : R67!RepVerdict(c) => RepVerdict(c)
  BY PlainR67 DEF R67!RepVerdict, R67!Reps, R67!At, R67!Goto, R67!Raise, R67!OrRaise,
     R67!SameIsland, R67!SameRun, RepVerdict, Reps
<1>15. R67!LocalEnd => LocalEnd
  BY PlainR67 DEF R67!LocalEnd, R67!Finish, R67!AllPassed, R67!Reps, R67!At, R67!Goto, R67!Raise,
     R67!OrRaise, R67!SameIsland, R67!SameRun, LocalEnd, Finish, AllPassed, Reps
<1>16. R67!CrossEnd => CrossEnd
  BY PlainR67 DEF R67!CrossEnd, R67!Finish, R67!AllPassed, R67!Reps, R67!At, R67!Goto, R67!Raise,
     R67!OrRaise, R67!SameIsland, R67!SameRun, CrossEnd, Finish, AllPassed, Reps
<1>17. \A Results : R67!RepWork(Results) => RepWork(Results)
  BY PlainR67 DEF R67!RepWork, R67!Started, R67!Joined, R67!Same, R67!At, R67!Goto, R67!Raise,
     R67!OrRaise, R67!SameIsland, R67!SameRun, RepWork, Started, Joined
<1> QED BY <1>1, <1>2, <1>3, <1>4, <1>5, <1>6, <1>7, <1>8, <1>9, <1>10, <1>11, <1>12, <1>13, <1>14,
           <1>15, <1>16, <1>17

\* The methods of the actor class, and the steps that call them.
LEMMA CalledR67 ==
  /\ \A k, m, ok : R67!HpxActor(k, m, ok) <=> ActorMethod(k, m, ok)
  /\ \A k, next : R67!RepStart(k, R67!HpxActor, next) => RepStart(k, ActorMethod, next)
  /\ \A k, next : R67!RepChild(k, R67!HpxActor, next) => RepChild(k, ActorMethod, next)
  /\ \A k, next : R67!RepHealth(k, R67!HpxActor, next) => RepHealth(k, ActorMethod, next)
  /\ \A k, next : R67!RepStop(k, R67!HpxActor, next) => RepStop(k, ActorMethod, next)
<1>1. \A k, m, ok : R67!HpxActor(k, m, ok) <=> ActorMethod(k, m, ok)
  BY PlainR67 DEF R67!HpxActor, R67!ActorMethod, ActorMethod, R67!StartHpx, StartHpx, R67!StopHpx,
     StopHpx, R67!Health, Health, R67!RayGet, RayGet
<1>2. \A k, next : R67!RepStart(k, R67!HpxActor, next) => RepStart(k, ActorMethod, next)
  BY <1>1, PlainR67 DEF R67!RepStart, RepStart, R67!Cardinality, Cardinality, R67!At, R67!Goto,
     R67!Raise, R67!OrRaise, R67!SameIsland, R67!SameRun, R67!Same
<1>3. \A k, next : R67!RepChild(k, R67!HpxActor, next) => RepChild(k, ActorMethod, next)
  BY <1>1, PlainR67 DEF R67!RepChild, RepChild, R67!At, R67!Goto, R67!Raise, R67!OrRaise,
     R67!SameIsland, R67!SameRun, R67!Same
<1>4. \A k, next : R67!RepHealth(k, R67!HpxActor, next) => RepHealth(k, ActorMethod, next)
  BY <1>1, PlainR67 DEF R67!RepHealth, RepHealth, R67!At, R67!Goto, R67!Raise, R67!OrRaise,
     R67!SameIsland, R67!SameRun, R67!Same
<1>5. \A k, next : R67!RepStop(k, R67!HpxActor, next) => RepStop(k, ActorMethod, next)
  BY <1>1, PlainR67 DEF R67!RepStop, RepStop, R67!At, R67!Goto, R67!Raise, R67!OrRaise,
     R67!SameIsland, R67!SameRun, R67!Same
<1> QED BY <1>1, <1>2, <1>3, <1>4, <1>5

\* Experiment 67 hosts its connectors in actors, as the shared steps do.
LEMMA Joins67 ==
  /\ R67!RepJoin(R67!HpxActor) => RepJoin(ActorMethod)
  /\ R67!RepHealths(R67!HpxActor) => RepHealths(ActorMethod)
  /\ R67!RepStops(R67!HpxActor) => RepStops(ActorMethod)
  BY CalledR67, SharedR67 DEF R67!RepJoin, R67!RepHealths, R67!RepStops, RepJoin, RepHealths,
     RepStops, R67!At

\* Experiment 67: a local repetition that passes asked these gates.
LEMMA LocalGates67 ==
  ASSUME R67!failure_class = "pass"
  PROVE  R67!eval_slice_c /\ R67!eval_slice_d.graceful_leave /\ R67!eval_slice_d.root_finalized_clean
<1> DEFINE ga == R67!eval_slice_a
           gb == R67!eval_slice_b
           gd == R67!eval_slice_d
           g == << <<"invalid_instrumentation", ga.evidence_complete>>,
                   <<"actor_a_hpx_start_failed", ga.started["a"]>>,
                   <<"actor_b_hpx_start_failed", ga.started["b"]>>,
                   <<"hpx_child_process_detected", ga.no_hpx_child>>,
                   <<"shared_island_join_failed", ga.shared_island_membership>>,
                   <<"locality_identity_invalid", ga.distinct>>,
                   <<"actor_to_actor_dispatch_failed", gb.ab_ready /\ gb.ba_ready>>,
                   <<"destination_witness_failed", gb.witness>>,
                   <<"oracle_failed", gb.oracle>>,
                   <<"idle_progress_failed", R67!eval_slice_c>>,
                   <<"graceful_leave_failed", gd.graceful_leave>>,
                   <<"root_finalize_failed", gd.root_finalized_clean>>,
                   <<"actor_recreation_failed", gd.recreation>>,
                   <<"orphan_detected", gd.no_orphans>> >>
<1> HIDE DEF ga, gb, gd
<1>1. \A z : R67!FirstFailed(z) = FirstFailed(z)
  BY DEF R67!FirstFailed, FirstFailed, R67!ClassOf, ClassOf, R67!Only, Only, R67!First, First
<1>2. FirstFailed(g) = "pass"
  BY <1>1 DEF R67!failure_class, ga, gb, gd
<1>3. DOMAIN g = 1..14 /\ \A i \in DOMAIN g : g[i][1] # "pass"
  OBVIOUS
<1>4. \A i \in DOMAIN g : g[i][2]
  <2> HIDE DEF g
  <2>1. DOMAIN g \subseteq Nat
    BY <1>3
  <2> QED BY <1>2, <1>3, <2>1, AllGates
<1>5. g[10][2] /\ g[11][2] /\ g[12][2]
  <2> HIDE DEF g
  <2> QED BY <1>3, <1>4
<1> QED BY <1>5 DEF gd

\* Experiment 67: a cross-node repetition that passes asked these gates.
LEMMA CrossGates67 ==
  ASSUME R67!failure_class_crossnode = "pass"
  PROVE  R67!eval_slice_c /\ R67!eval_slice_d.graceful_leave /\ R67!eval_slice_d.root_finalized_clean
<1> DEFINE gx == R67!eval_crossnode_slice_a
           ga == gx.local
           gb == R67!eval_crossnode_slice_b
           gd == R67!eval_crossnode_slice_d
           g == << <<"invalid_instrumentation", ga.evidence_complete>>,
                   <<"actor_a_placement_invalid", gx.placed["a"]>>,
                   <<"actor_b_placement_invalid", gx.placed["b"]>>,
                   <<"actor_a_hpx_start_failed", ga.started["a"]>>,
                   <<"actor_b_hpx_start_failed", ga.started["b"]>>,
                   <<"hpx_child_process_detected", ga.no_hpx_child>>,
                   <<"shared_island_join_failed", ga.shared_island_membership>>,
                   <<"a_to_b_dispatch_failed", gb.ab_ready>>,
                   <<"b_to_a_dispatch_failed", gb.ba_ready>>,
                   <<"destination_witness_failed", gb.witness>>,
                   <<"oracle_failed", gb.oracle>>,
                   <<"idle_progress_failed", R67!eval_slice_c>>,
                   <<"graceful_leave_failed", gd.graceful_leave>>,
                   <<"root_finalize_failed", gd.root_finalized_clean>>,
                   <<"actor_recreation_failed", gd.recreation>>,
                   <<"orphan_detected", gd.no_orphans>>,
                   <<"invalid_instrumentation", gx.remote_orphan_check_ran>> >>
<1> HIDE DEF gx, ga, gb, gd
<1>1. \A z : R67!FirstFailed(z) = FirstFailed(z)
  BY DEF R67!FirstFailed, FirstFailed, R67!ClassOf, ClassOf, R67!Only, Only, R67!First, First
<1>2. FirstFailed(g) = "pass"
  BY <1>1 DEF R67!failure_class_crossnode, gx, ga, gb, gd
<1>3. DOMAIN g = 1..17 /\ \A i \in DOMAIN g : g[i][1] # "pass"
  OBVIOUS
<1>4. \A i \in DOMAIN g : g[i][2]
  <2> HIDE DEF g
  <2>1. DOMAIN g \subseteq Nat
    BY <1>3
  <2> QED BY <1>2, <1>3, <2>1, AllGates
<1>5. g[12][2] /\ g[13][2] /\ g[14][2]
  <2> HIDE DEF g
  <2> QED BY <1>3, <1>4
<1> QED BY <1>5 DEF gd, R67!eval_crossnode_slice_d

\* A dispatching repetition that is counted as passed did what it says.
LEMMA Verdict67 ==
  ASSUME Marked, program = "exp67", R67!failure_class = "pass" \/ R67!failure_class_crossnode = "pass"
  PROVE  RepEvidence(arm) \subseteq log
<1>1. R67!eval_slice_c /\ R67!eval_slice_d.graceful_leave /\ R67!eval_slice_d.root_finalized_clean
  BY LocalGates67, CrossGates67
<1>2. /\ \A k \in Conns : Ok(arm, k, "stopped")
      /\ Has(arm, "root", "exit_path", "finalized_clean") /\ Has(arm, "root", "final_membership", 1)
  BY <1>1, PlainR67 DEF R67!eval_slice_d
<1>3. <<arm, "run", "worked">> \in log
  <2>1. /\ <<arm, "run", "work">> \in DOMAIN rec
        /\ rec[<<arm, "run", "work">>] \notin {"ab", "ba", "witness", "oracle"}
    BY <1>1 DEF R67!eval_slice_c, R67!Worked
  <2>2. Holds(<<arm, "run", "work">>, rec[<<arm, "run", "work">>], log)
    BY <2>1 DEF Marked, MarkedBy
  <2> QED BY <2>1, <2>2 DEF Holds, R67!Dispatches, Repeated
<1> QED BY <1>2, <1>3, TwoConnectors DEF Repeated

\* Every step of the driver of experiment 67 keeps the invariant.
LEMMA Exp67Keeps ==
  ASSUME IInv, program = "exp67", R67!Driver
  PROVE  IInv'
<1>1. Base /\ RepOrdered /\ Marked /\ program \in Repeated \ {"exp65"}
  BY DEF IInv, Ordered, Repeated, Base
<1> SUFFICES Kept
  BY <1>1 DEF Kept, IInv, Ordered, Passed, Slices, Repeated
<1>2. CASE PreflightStep \/ HeadStep \/ WorkerStep
  BY <1>1, <1>2, RepBegins
<1>3. CASE LocalEnd \/ CrossEnd
  BY <1>1, <1>3, RepEnds
<1>4. CASE R67!RepSaturate(R67!Started, R67!classify_saturation)
  BY <1>1, <1>4, RepSaturates, PlainR67
     DEF R67!RepSaturate, R67!At, R67!Goto, R67!SameIsland, R67!SameRun, R67!Same
<1>5. CASE RepWork(R67!Dispatches)
  BY <1>1, <1>5, RepWorks
<1>6. CASE RepFinally
  BY <1>1, <1>6, FinallyKills
<1>7. CASE RepVerdict(R67!failure_class) \/ RepVerdict(R67!failure_class_crossnode)
  BY <1>1, <1>7, Verdict67, RepPasses
<1>8. CASE \/ RepLaunch \/ ReadyStep \/ RepJoin(ActorMethod) \/ RepHealths(ActorMethod) \/ RepStops(ActorMethod)
           \/ DiscardStep("destroyed") \/ AwaitFinalStep("await_exit") \/ AwaitExitStep("retire")
           \/ RepRecreate \/ (\E local \in BOOLEAN : RepDestroyed(local) \/ RepRetire(local))
  BY <1>1, <1>8, RepWithin
<1> QED
  BY <1>2, <1>3, <1>4, <1>5, <1>6, <1>7, <1>8, SharedR67, Joins67
  DEF R67!Driver, R67!run_rep, R67!run_local_phase, R67!run_crossnode_rep_work, R67!run_crossnode_rep_end,
      R67!crossnode_cluster, R67!crossnode_end

-----------------------------------------------------------------------------
(* Experiment 68.                                                          *)

\* What the instance of Rep68 shares is what the module shares.
LEMMA PlainR68 ==
  /\ R68!Conns = Conns /\ R68!Members = Members /\ R68!Running = Running
  /\ (R68!RootAlive <=> RootAlive) /\ (R68!RootServes <=> RootServes) /\ (R68!NobodyLeft <=> NobodyLeft)
  /\ (R68!Fault <=> Fault) /\ (\A ok, can : R68!Outcome(ok, can) <=> Outcome(ok, can))
  /\ \A f, g : R68!@@(f, g) = f @@ g
  /\ \A x, v : R68!:>(x, v) = (x :> v)
  /\ \A a, w, s, v : R68!Has(a, w, s, v) <=> Has(a, w, s, v)
  /\ \A a, w, s : R68!Ok(a, w, s) <=> Ok(a, w, s)
  /\ \A w, s, v : R68!Put(w, s, v) <=> Put(w, s, v)
<1>1. R68!Conns = Conns
  BY DEF R68!Conns, Conns
<1>2. R68!Members = Members
  BY <1>1 DEF R68!Members, Members, R68!Cardinality, Cardinality
<1>3. R68!Running = Running
  BY <1>1 DEF R68!Running, Running
<1>4. R68!RootAlive <=> RootAlive
  BY DEF R68!RootAlive, RootAlive
<1>5. R68!RootServes <=> RootServes
  BY DEF R68!RootServes, RootServes
<1>6. R68!NobodyLeft <=> NobodyLeft
  BY <1>1, <1>4 DEF R68!NobodyLeft, NobodyLeft
<1>7. R68!Fault <=> Fault
  BY DEF R68!Fault, Fault
<1>8. \A ok, can : R68!Outcome(ok, can) <=> Outcome(ok, can)
  BY <1>7 DEF R68!Outcome, Outcome
<1>9. \A f, g : R68!@@(f, g) = f @@ g
  BY DEF R68!@@, @@, R68!Merge, Merge, R68!Only, Only
<1>10. \A x, v : R68!:>(x, v) = (x :> v)
  BY DEF R68!:>, :>
<1>11. \A a, w, s, v : R68!Has(a, w, s, v) <=> Has(a, w, s, v)
  BY DEF R68!Has, Has
<1>12. \A a, w, s : R68!Ok(a, w, s) <=> Ok(a, w, s)
  BY <1>11 DEF R68!Ok, Ok
<1>13. \A w, s, v : R68!Put(w, s, v) <=> Put(w, s, v)
  BY <1>9, <1>10 DEF R68!Put, Put
<1> QED BY <1>1, <1>2, <1>3, <1>4, <1>5, <1>6, <1>7, <1>8, <1>9, <1>10, <1>11, <1>12, <1>13

\* The shared steps of R68 are this module's.
LEMMA SharedR68 ==
  /\ R68!PreflightStep => PreflightStep
  /\ R68!HeadStep => HeadStep
  /\ R68!WorkerStep => WorkerStep
  /\ R68!ReadyStep => ReadyStep
  /\ (\A next : R68!AwaitFinalStep(next) => AwaitFinalStep(next))
  /\ (\A next : R68!AwaitExitStep(next) => AwaitExitStep(next))
  /\ (\A next : R68!DiscardStep(next) => DiscardStep(next))
  /\ R68!RepLaunch => RepLaunch
  /\ (\A k, next : R68!RepActor(k, next) => RepActor(k, next))
  /\ (\A local : R68!RepDestroyed(local) => RepDestroyed(local))
  /\ R68!RepRecreate => RepRecreate
  /\ (\A local : R68!RepRetire(local) => RepRetire(local))
  /\ R68!RepFinally => RepFinally
  /\ (\A c : R68!RepVerdict(c) => RepVerdict(c))
  /\ R68!LocalEnd => LocalEnd
  /\ R68!CrossEnd => CrossEnd
  /\ (\A Results : R68!RepWork(Results) => RepWork(Results))
<1>1. R68!PreflightStep => PreflightStep
  BY PlainR68 DEF R68!PreflightStep, R68!Finish, R68!At, R68!Goto, R68!Raise, R68!OrRaise,
     R68!SameIsland, R68!SameRun, PreflightStep, Finish
<1>2. R68!HeadStep => HeadStep
  BY PlainR68 DEF R68!HeadStep, R68!At, R68!Goto, R68!Raise, R68!OrRaise, R68!SameIsland,
     R68!SameRun, HeadStep
<1>3. R68!WorkerStep => WorkerStep
  BY PlainR68 DEF R68!WorkerStep, R68!At, R68!Goto, R68!Raise, R68!OrRaise, R68!SameIsland,
     R68!SameRun, WorkerStep
<1>4. R68!ReadyStep => ReadyStep
  BY PlainR68 DEF R68!ReadyStep, R68!WaitForFile, R68!At, R68!Goto, R68!Raise, R68!OrRaise,
     R68!SameIsland, R68!SameRun, ReadyStep, WaitForFile
<1>5. \A next : R68!AwaitFinalStep(next) => AwaitFinalStep(next)
  BY PlainR68 DEF R68!AwaitFinalStep, R68!WaitForFile, R68!At, R68!Goto, R68!Raise, R68!OrRaise,
     R68!SameIsland, R68!SameRun, AwaitFinalStep, WaitForFile
<1>6. \A next : R68!AwaitExitStep(next) => AwaitExitStep(next)
  BY PlainR68 DEF R68!AwaitExitStep, R68!WaitRoot, R68!ExitPaths, R68!At, R68!Goto, R68!Raise,
     R68!OrRaise, R68!SameIsland, R68!SameRun, AwaitExitStep, WaitRoot, ExitPaths
<1>7. \A next : R68!DiscardStep(next) => DiscardStep(next)
  BY PlainR68 DEF R68!DiscardStep, R68!Killed, R68!At, R68!Goto, R68!Raise, R68!OrRaise,
     R68!SameIsland, R68!SameRun, DiscardStep, Killed
<1>8. R68!RepLaunch => RepLaunch
  BY PlainR68 DEF R68!RepLaunch, R68!NewIsland, R68!Same, R68!At, R68!Goto, R68!Raise, R68!OrRaise,
     R68!SameIsland, R68!SameRun, RepLaunch, NewIsland
<1>9. \A k, next : R68!RepActor(k, next) => RepActor(k, next)
  BY PlainR68 DEF R68!RepActor, R68!Same, R68!At, R68!Goto, R68!Raise, R68!OrRaise, R68!SameIsland,
     R68!SameRun, RepActor
<1>10. \A local : R68!RepDestroyed(local) => RepDestroyed(local)
  BY PlainR68 DEF R68!RepDestroyed, R68!WaitPidGone, R68!Same, R68!At, R68!Goto, R68!Raise,
     R68!OrRaise, R68!SameIsland, R68!SameRun, RepDestroyed, WaitPidGone
<1>11. R68!RepRecreate => RepRecreate
  BY PlainR68 DEF R68!RepRecreate, R68!Same, R68!At, R68!Goto, R68!Raise, R68!OrRaise,
     R68!SameIsland, R68!SameRun, RepRecreate
<1>12. \A local : R68!RepRetire(local) => RepRetire(local)
  BY PlainR68 DEF R68!RepRetire, R68!WaitPidGone, R68!Killed, R68!Same, R68!At, R68!Goto, R68!Raise,
     R68!OrRaise, R68!SameIsland, R68!SameRun, RepRetire, WaitPidGone, Killed
<1>13. R68!RepFinally => RepFinally
  BY PlainR68 DEF R68!RepFinally, R68!Killed, R68!KilledRoot, R68!Same, R68!At, R68!Goto, R68!Raise,
     R68!OrRaise, R68!SameIsland, R68!SameRun, RepFinally, Killed, KilledRoot
<1>14. \A c : R68!RepVerdict(c) => RepVerdict(c)
  BY PlainR68 DEF R68!RepVerdict, R68!Reps, R68!At, R68!Goto, R68!Raise, R68!OrRaise,
     R68!SameIsland, R68!SameRun, RepVerdict, Reps
<1>15. R68!LocalEnd => LocalEnd
  BY PlainR68 DEF R68!LocalEnd, R68!Finish, R68!AllPassed, R68!Reps, R68!At, R68!Goto, R68!Raise,
     R68!OrRaise, R68!SameIsland, R68!SameRun, LocalEnd, Finish, AllPassed, Reps
<1>16. R68!CrossEnd => CrossEnd
  BY PlainR68 DEF R68!CrossEnd, R68!Finish, R68!AllPassed, R68!Reps, R68!At, R68!Goto, R68!Raise,
     R68!OrRaise, R68!SameIsland, R68!SameRun, CrossEnd, Finish, AllPassed, Reps
<1>17. \A Results : R68!RepWork(Results) => RepWork(Results)
  BY PlainR68 DEF R68!RepWork, R68!Started, R68!Joined, R68!Same, R68!At, R68!Goto, R68!Raise,
     R68!OrRaise, R68!SameIsland, R68!SameRun, RepWork, Started, Joined
<1> QED BY <1>1, <1>2, <1>3, <1>4, <1>5, <1>6, <1>7, <1>8, <1>9, <1>10, <1>11, <1>12, <1>13, <1>14,
           <1>15, <1>16, <1>17

\* The methods of the actor class, and the steps that call them.
LEMMA CalledR68 ==
  /\ \A k, m, ok : R68!HpxActor(k, m, ok) <=> ActorMethod(k, m, ok)
  /\ \A k, next : R68!RepStart(k, R68!HpxActor, next) => RepStart(k, ActorMethod, next)
  /\ \A k, next : R68!RepChild(k, R68!HpxActor, next) => RepChild(k, ActorMethod, next)
  /\ \A k, next : R68!RepHealth(k, R68!HpxActor, next) => RepHealth(k, ActorMethod, next)
  /\ \A k, next : R68!RepStop(k, R68!HpxActor, next) => RepStop(k, ActorMethod, next)
<1>1. \A k, m, ok : R68!HpxActor(k, m, ok) <=> ActorMethod(k, m, ok)
  BY PlainR68 DEF R68!HpxActor, R68!ActorMethod, ActorMethod, R68!StartHpx, StartHpx, R68!StopHpx,
     StopHpx, R68!Health, Health, R68!RayGet, RayGet
<1>2. \A k, next : R68!RepStart(k, R68!HpxActor, next) => RepStart(k, ActorMethod, next)
  BY <1>1, PlainR68 DEF R68!RepStart, RepStart, R68!Cardinality, Cardinality, R68!At, R68!Goto,
     R68!Raise, R68!OrRaise, R68!SameIsland, R68!SameRun, R68!Same
<1>3. \A k, next : R68!RepChild(k, R68!HpxActor, next) => RepChild(k, ActorMethod, next)
  BY <1>1, PlainR68 DEF R68!RepChild, RepChild, R68!At, R68!Goto, R68!Raise, R68!OrRaise,
     R68!SameIsland, R68!SameRun, R68!Same
<1>4. \A k, next : R68!RepHealth(k, R68!HpxActor, next) => RepHealth(k, ActorMethod, next)
  BY <1>1, PlainR68 DEF R68!RepHealth, RepHealth, R68!At, R68!Goto, R68!Raise, R68!OrRaise,
     R68!SameIsland, R68!SameRun, R68!Same
<1>5. \A k, next : R68!RepStop(k, R68!HpxActor, next) => RepStop(k, ActorMethod, next)
  BY <1>1, PlainR68 DEF R68!RepStop, RepStop, R68!At, R68!Goto, R68!Raise, R68!OrRaise,
     R68!SameIsland, R68!SameRun, R68!Same
<1> QED BY <1>1, <1>2, <1>3, <1>4, <1>5

\* Experiment 68 hosts its connectors in actors, as the shared steps do.
LEMMA Joins68 ==
  /\ R68!RepJoin(R68!HpxActor) => RepJoin(ActorMethod)
  /\ R68!RepHealths(R68!HpxActor) => RepHealths(ActorMethod)
  /\ R68!RepStops(R68!HpxActor) => RepStops(ActorMethod)
  BY CalledR68, SharedR68 DEF R68!RepJoin, R68!RepHealths, R68!RepStops, RepJoin, RepHealths,
     RepStops, R68!At

\* The gates of a case and of the lifecycle, as lists.
LEMMA Lists68 ==
  ASSUME NEW c, NEW bits, NEW gf, bits # "pass", NEW T,
         \A i \in 1..5 : R68!CaseGates(c, bits)[i] \in T, \A i \in 1..3 : R68!LifecycleGates(gf)[i] \in T
  PROVE  /\ R68!CaseGates(c, bits) \in Seq(T) /\ DOMAIN R68!CaseGates(c, bits) = 1..5
         /\ \A i \in DOMAIN R68!CaseGates(c, bits) : R68!CaseGates(c, bits)[i][1] # "pass"
         /\ R68!LifecycleGates(gf) \in Seq(T) /\ DOMAIN R68!LifecycleGates(gf) = 1..3
         /\ \A i \in DOMAIN R68!LifecycleGates(gf) : R68!LifecycleGates(gf)[i][1] # "pass"
<1> DEFINE g == R68!CaseGates(c, bits)
           h == R68!LifecycleGates(gf)
<1>1. g = [i \in 1..5 |-> g[i]] /\ \A i \in 1..5 : g[i][1] # "pass"
  BY DEF R68!CaseGates
<1>2. h = [i \in 1..3 |-> h[i]] /\ \A i \in 1..3 : h[i][1] # "pass"
  BY DEF R68!LifecycleGates
<1> HIDE DEF g, h
<1>3. (\A i \in 1..5 : g[i] \in T) /\ (\A i \in 1..3 : h[i] \in T)
  BY DEF g, h
<1>4. g \in [1..5 -> T] /\ h \in [1..3 -> T]
  BY <1>1, <1>2, <1>3
<1>5. g \in Seq(T) /\ DOMAIN g = 1..5 /\ h \in Seq(T) /\ DOMAIN h = 1..3
  BY <1>4, TupleOf
<1> QED BY <1>1, <1>2, <1>5 DEF g, h

\* What the gates of a passed repetition say.
Asked68 ==
    /\ R68!eval_slice_a.evidence_complete
    /\ \A k \in Conns : R68!eval_case.local_topk[k] /\ R68!eval_case.fetch[k]
    /\ R68!eval_case.float32_bits_exact
    /\ R68!eval_slice_f.graceful_leave /\ R68!eval_slice_f.root_finalized_clean

\* What the gates of experiment 68 ask of a case.
LEMMA Gates68 ==
  ASSUME NEW c, NEW bits, NEW gf, c = R68!eval_case, gf = R68!eval_slice_f,
         R68!eval_slice_a.evidence_complete,
         \A i \in 1..5 : R68!CaseGates(c, bits)[i][2], R68!LifecycleGates(gf)[3][2]
  PROVE  Asked68
<1>1. /\ c.local_topk["a"] /\ c.local_topk["b"] /\ c.fetch["a"] /\ c.fetch["b"] /\ c.float32_bits_exact
      /\ gf.graceful_leave /\ gf.root_finalized_clean
  <2> DEFINE g == R68!CaseGates(c, bits)
  <2>1. g[1][2] = c.local_topk["a"] /\ g[2][2] = c.local_topk["b"] /\ g[3][2] = c.fetch["a"]
        /\ g[4][2] = c.fetch["b"] /\ g[5][2] = c.float32_bits_exact
    BY DEF R68!CaseGates
  <2>2. R68!LifecycleGates(gf)[3][2] <=> gf.graceful_leave /\ gf.root_finalized_clean
    BY DEF R68!LifecycleGates
  <2>3. \A i \in 1..5 : g[i][2]
    OBVIOUS
  <2> HIDE DEF g
  <2>4. g[1][2] /\ g[2][2] /\ g[3][2] /\ g[4][2] /\ g[5][2]
    BY <2>3
  <2> QED BY <2>1, <2>2, <2>4
<1> QED BY <1>1 DEF Asked68, Conns

\* Experiment 68: a local repetition that passes asked these gates.
LEMMA LocalGates68 ==
  ASSUME R68!failure_class = "pass"
  PROVE  Asked68
<1> DEFINE ga == R68!eval_slice_a
           c == R68!eval_case
           gf == R68!eval_slice_f
           p == << <<"invalid_instrumentation", ga.evidence_complete>>,
                   <<"lifecycle_failed", ga.started /\ ga.no_hpx_child>>,
                   <<"invalid_instrumentation", ga.identity /\ ga.shared_island_membership>> >>
           g == R68!CaseGates(c, "float32_bit_mismatch")
           h == R68!LifecycleGates(gf)
           T == {p[i] : i \in 1..3} \cup {g[i] : i \in 1..5} \cup {h[i] : i \in 1..3}
<1> HIDE DEF ga, c, gf
<1>1. \A z : R68!FirstFailed(z) = FirstFailed(z)
  BY DEF R68!FirstFailed, FirstFailed, R68!ClassOf, ClassOf, R68!Only, Only, R68!First, First
<1>2. FirstFailed(p \o g \o h) = "pass"
  BY <1>1 DEF R68!failure_class, ga, c, gf
<1>3. p \in Seq(T) /\ DOMAIN p = 1..3 /\ \A i \in DOMAIN p : p[i][1] # "pass"
  <2>1. p = [i \in 1..3 |-> p[i]] /\ \A i \in 1..3 : p[i][1] # "pass"
    OBVIOUS
  <2> HIDE DEF p, g, h
  <2>2. p \in [1..3 -> T]
    BY <2>1
  <2> HIDE DEF T
  <2> QED BY <2>1, <2>2, TupleOf
<1>4. /\ g \in Seq(T) /\ DOMAIN g = 1..5 /\ \A i \in DOMAIN g : g[i][1] # "pass"
      /\ h \in Seq(T) /\ DOMAIN h = 1..3 /\ \A i \in DOMAIN h : h[i][1] # "pass"
  <2>1. (\A i \in 1..5 : R68!CaseGates(c, "float32_bit_mismatch")[i] \in T)
        /\ (\A i \in 1..3 : R68!LifecycleGates(gf)[i] \in T)
    <3> HIDE DEF p
    <3> QED OBVIOUS
  <2> HIDE DEF T
  <2> QED BY <2>1, Lists68
<1> DEFINE q == p \o g
<1>5. q \in Seq(T) /\ (\A i \in DOMAIN q : q[i][1] # "pass")
      /\ ((\A i \in DOMAIN q : q[i][2]) => (\A i \in DOMAIN p : p[i][2]) /\ (\A i \in DOMAIN g : g[i][2]))
  <2> HIDE DEF p, g, h, T
  <2> QED BY <1>3, <1>4, GatesJoined
<1>6. FirstFailed(q \o h) = "pass"
  BY <1>2
<1>7. (\A i \in DOMAIN q : q[i][2]) /\ (\A i \in DOMAIN h : h[i][2])
  <2> HIDE DEF p, g, h, T, q
  <2> QED BY <1>4, <1>5, <1>6, BothGates
<1>8. p[1][2] /\ (\A i \in 1..5 : g[i][2]) /\ h[3][2]
  <2> HIDE DEF p, g, h, T, q
  <2> QED BY <1>3, <1>4, <1>5, <1>7
<1>9. ga.evidence_complete
  BY <1>8
<1> QED BY <1>8, <1>9, Gates68 DEF ga, c, gf

\* Experiment 68: a cross-node repetition that passes asked these gates.
LEMMA CrossGates68 ==
  ASSUME R68!failure_class_crossnode = "pass"
  PROVE  Asked68
<1> DEFINE gx == R68!eval_crossnode_slice_a
           ga == R68!eval_slice_a
           c == R68!eval_case
           gf == R68!eval_slice_f
           p == << <<"invalid_instrumentation", ga.evidence_complete>>,
                   <<"actor_placement_invalid", gx.placed>>,
                   <<"lifecycle_failed", ga.started /\ ga.no_hpx_child>>,
                   <<"shared_island_join_failed", ga.shared_island_membership>>,
                   <<"invalid_instrumentation", ga.identity>> >>
           g == R68!CaseGates(c, "cross_node_float32_bit_mismatch")
           h == R68!LifecycleGates(gf)
           q == << <<"invalid_instrumentation", gx.remote_orphan_check_ran>> >>
           T == {p[i] : i \in 1..5} \cup {g[i] : i \in 1..5} \cup {h[i] : i \in 1..3} \cup {q[1]}
<1>0. gx.local = ga
  BY DEF R68!eval_crossnode_slice_a
<1> HIDE DEF ga, c, gf, gx
<1>1. \A z : R68!FirstFailed(z) = FirstFailed(z)
  BY DEF R68!FirstFailed, FirstFailed, R68!ClassOf, ClassOf, R68!Only, Only, R68!First, First
<1>2. FirstFailed(p \o g \o h \o q) = "pass"
  <2>1. R68!FirstFailed(p \o g \o h \o q) = "pass"
    <3>1. R68!eval_crossnode_slice_a = gx /\ R68!eval_case_crossnode = c /\ R68!eval_crossnode_slice_f = gf
      BY DEF gx, c, gf, R68!eval_case_crossnode, R68!eval_crossnode_slice_f
    <3> QED BY <1>0, <3>1 DEF R68!failure_class_crossnode
  <2> QED BY <1>1, <2>1
<1>3. /\ p \in Seq(T) /\ DOMAIN p = 1..5 /\ \A i \in DOMAIN p : p[i][1] # "pass"
      /\ q \in Seq(T) /\ DOMAIN q = 1..1 /\ \A i \in DOMAIN q : q[i][1] # "pass"
  <2>1. /\ p = [i \in 1..5 |-> p[i]] /\ \A i \in 1..5 : p[i][1] # "pass"
        /\ q = [i \in 1..1 |-> q[i]] /\ \A i \in 1..1 : q[i][1] # "pass"
    OBVIOUS
  <2> HIDE DEF p, g, h, q
  <2>2. p \in [1..5 -> T] /\ q \in [1..1 -> T]
    BY <2>1
  <2> HIDE DEF T
  <2>3. p \in Seq(T) /\ DOMAIN p = 1..5
    BY <2>2, TupleOf
  <2>4. q \in Seq(T) /\ DOMAIN q = 1..1
    BY <2>2, TupleOf
  <2> QED BY <2>1, <2>3, <2>4
<1>4. /\ g \in Seq(T) /\ DOMAIN g = 1..5 /\ \A i \in DOMAIN g : g[i][1] # "pass"
      /\ h \in Seq(T) /\ DOMAIN h = 1..3 /\ \A i \in DOMAIN h : h[i][1] # "pass"
  <2>1. (\A i \in 1..5 : R68!CaseGates(c, "cross_node_float32_bit_mismatch")[i] \in T)
        /\ (\A i \in 1..3 : R68!LifecycleGates(gf)[i] \in T)
    <3> HIDE DEF p, q
    <3> QED OBVIOUS
  <2> HIDE DEF T
  <2> QED BY <2>1, Lists68
<1> DEFINE pg == p \o g
           pgh == pg \o h
<1>8. pg \in Seq(T) /\ (\A i \in DOMAIN pg : pg[i][1] # "pass")
      /\ ((\A i \in DOMAIN pg : pg[i][2]) => (\A i \in DOMAIN p : p[i][2]) /\ (\A i \in DOMAIN g : g[i][2]))
  <2> HIDE DEF p, g, h, q, T
  <2> QED BY <1>3, <1>4, GatesJoined
<1>9. FirstFailed(pgh \o q) = "pass"
  BY <1>2
<1>10. pgh \in Seq(T) /\ (\A i \in DOMAIN pgh : pgh[i][1] # "pass")
      /\ ((\A i \in DOMAIN pgh : pgh[i][2]) => (\A i \in DOMAIN pg : pg[i][2]) /\ (\A i \in DOMAIN h : h[i][2]))
  <2> HIDE DEF p, g, h, q, T, pg
  <2> QED BY <1>4, <1>8, GatesJoined
<1>11. (\A i \in DOMAIN pgh : pgh[i][2]) /\ (\A i \in DOMAIN q : q[i][2])
  <2> HIDE DEF p, g, h, q, T, pg, pgh
  <2> QED BY <1>3, <1>9, <1>10, BothGates
<1>5. /\ \A i \in DOMAIN p : p[i][2]
      /\ \A i \in DOMAIN g : g[i][2]
      /\ \A i \in DOMAIN h : h[i][2]
  <2> HIDE DEF p, g, h, q, T, pg, pgh
  <2> QED BY <1>8, <1>10, <1>11
<1>6. p[1][2] /\ (\A i \in 1..5 : g[i][2]) /\ h[3][2]
  <2> HIDE DEF p, g, h, q, T
  <2> QED BY <1>3, <1>4, <1>5
<1>7. ga.evidence_complete
  BY <1>6
<1> QED BY <1>6, <1>7, Gates68 DEF ga, c, gf

\* A top-k repetition that is counted as passed did what it says.
LEMMA Verdict68 ==
  ASSUME Marked, program = "exp68", R68!failure_class = "pass" \/ R68!failure_class_crossnode = "pass"
  PROVE  RepEvidence(arm) \subseteq log
<1>1. Asked68
  BY LocalGates68, CrossGates68
<1>2. /\ \A k \in Conns : Ok(arm, k, "stopped")
      /\ Has(arm, "root", "exit_path", "finalized_clean") /\ Has(arm, "root", "final_membership", 1)
  BY <1>1, PlainR68 DEF Asked68, R68!eval_slice_f
<1>3. <<arm, "run", "worked">> \in log
  <2>1. <<arm, "run", "work">> \in DOMAIN rec
    BY <1>1 DEF Asked68, R68!eval_slice_a
  <2>2. rec[<<arm, "run", "work">>] \notin {"a_local", "b_local", "a_coord", "b_coord", "bits"}
    <3>1. \A k \in {"a", "b"} : R68!eval_case.local_topk[k] /\ R68!eval_case.fetch[k]
      BY <1>1 DEF Asked68, Conns
    <3>2. R68!Case({"a_local"}) /\ R68!Case({"b_local"}) /\ R68!Case({"a_coord"}) /\ R68!Case({"b_coord"})
      BY <3>1, PlainR68 DEF R68!eval_case, Conns
    <3>3. R68!Case({"bits"})
      BY <1>1 DEF Asked68, R68!eval_case
    <3> QED BY <2>1, <3>2, <3>3 DEF R68!Case
  <2>3. Holds(<<arm, "run", "work">>, rec[<<arm, "run", "work">>], log)
    BY <2>1 DEF Marked, MarkedBy
  <2> QED BY <2>1, <2>2, <2>3 DEF Holds, R68!CaseResults, Repeated
<1> QED BY <1>2, <1>3, TwoConnectors DEF Repeated

\* Experiment 68 keeps the invariant.
LEMMA Exp68Keeps ==
  ASSUME IInv, program = "exp68", R68!Driver
  PROVE  IInv'
<1>1. Base /\ RepOrdered /\ Marked /\ program \in Repeated \ {"exp65"}
  BY DEF IInv, Ordered, Repeated, Base
<1> SUFFICES Kept
  BY <1>1 DEF Kept, IInv, Ordered, Passed, Slices, Repeated
<1>2. CASE PreflightStep \/ HeadStep \/ WorkerStep
  BY <1>1, <1>2, RepBegins
<1>3. CASE LocalEnd \/ CrossEnd
  BY <1>1, <1>3, RepEnds
<1>4. CASE R68!RepSaturate(R68!Started, R68!saturation)
  BY <1>1, <1>4, RepSaturates, PlainR68
     DEF R68!RepSaturate, R68!At, R68!Goto, R68!SameIsland, R68!SameRun, R68!Same
<1>5. CASE RepWork(R68!CaseResults)
  BY <1>1, <1>5, RepWorks
<1>6. CASE RepFinally
  BY <1>1, <1>6, FinallyKills
<1>7. CASE RepVerdict(R68!failure_class) \/ RepVerdict(R68!failure_class_crossnode)
  BY <1>1, <1>7, Verdict68, RepPasses
<1>8. CASE \/ RepLaunch \/ ReadyStep \/ RepJoin(ActorMethod) \/ RepHealths(ActorMethod) \/ RepStops(ActorMethod)
           \/ DiscardStep("destroyed") \/ AwaitFinalStep("await_exit") \/ AwaitExitStep("retire")
           \/ RepRecreate \/ (\E local \in BOOLEAN : RepDestroyed(local) \/ RepRetire(local))
  BY <1>1, <1>8, RepWithin
<1> QED
  BY <1>2, <1>3, <1>4, <1>5, <1>6, <1>7, <1>8, SharedR68, Joins68
  DEF R68!Driver, R68!run_rep, R68!run_local_phase, R68!run_crossnode_rep_work, R68!run_crossnode_rep_end,
      R68!crossnode_cluster, R68!crossnode_end

-----------------------------------------------------------------------------
(* Experiment 69.                                                          *)

\* What the instance of Rep69 shares is what the module shares.
LEMMA PlainR69 ==
  /\ R69!Conns = Conns /\ R69!Members = Members /\ R69!Running = Running
  /\ (R69!RootAlive <=> RootAlive) /\ (R69!RootServes <=> RootServes) /\ (R69!NobodyLeft <=> NobodyLeft)
  /\ (R69!Fault <=> Fault) /\ (\A ok, can : R69!Outcome(ok, can) <=> Outcome(ok, can))
  /\ \A f, g : R69!@@(f, g) = f @@ g
  /\ \A x, v : R69!:>(x, v) = (x :> v)
  /\ \A a, w, s, v : R69!Has(a, w, s, v) <=> Has(a, w, s, v)
  /\ \A a, w, s : R69!Ok(a, w, s) <=> Ok(a, w, s)
  /\ \A w, s, v : R69!Put(w, s, v) <=> Put(w, s, v)
<1>1. R69!Conns = Conns
  BY DEF R69!Conns, Conns
<1>2. R69!Members = Members
  BY <1>1 DEF R69!Members, Members, R69!Cardinality, Cardinality
<1>3. R69!Running = Running
  BY <1>1 DEF R69!Running, Running
<1>4. R69!RootAlive <=> RootAlive
  BY DEF R69!RootAlive, RootAlive
<1>5. R69!RootServes <=> RootServes
  BY DEF R69!RootServes, RootServes
<1>6. R69!NobodyLeft <=> NobodyLeft
  BY <1>1, <1>4 DEF R69!NobodyLeft, NobodyLeft
<1>7. R69!Fault <=> Fault
  BY DEF R69!Fault, Fault
<1>8. \A ok, can : R69!Outcome(ok, can) <=> Outcome(ok, can)
  BY <1>7 DEF R69!Outcome, Outcome
<1>9. \A f, g : R69!@@(f, g) = f @@ g
  BY DEF R69!@@, @@, R69!Merge, Merge, R69!Only, Only
<1>10. \A x, v : R69!:>(x, v) = (x :> v)
  BY DEF R69!:>, :>
<1>11. \A a, w, s, v : R69!Has(a, w, s, v) <=> Has(a, w, s, v)
  BY DEF R69!Has, Has
<1>12. \A a, w, s : R69!Ok(a, w, s) <=> Ok(a, w, s)
  BY <1>11 DEF R69!Ok, Ok
<1>13. \A w, s, v : R69!Put(w, s, v) <=> Put(w, s, v)
  BY <1>9, <1>10 DEF R69!Put, Put
<1> QED BY <1>1, <1>2, <1>3, <1>4, <1>5, <1>6, <1>7, <1>8, <1>9, <1>10, <1>11, <1>12, <1>13

\* The shared steps of R69 are this module's.
LEMMA SharedR69 ==
  /\ R69!PreflightStep => PreflightStep
  /\ R69!HeadStep => HeadStep
  /\ R69!WorkerStep => WorkerStep
  /\ R69!ReadyStep => ReadyStep
  /\ (\A next : R69!AwaitFinalStep(next) => AwaitFinalStep(next))
  /\ (\A next : R69!AwaitExitStep(next) => AwaitExitStep(next))
  /\ (\A next : R69!DiscardStep(next) => DiscardStep(next))
  /\ R69!RepLaunch => RepLaunch
  /\ (\A k, next : R69!RepActor(k, next) => RepActor(k, next))
  /\ (\A local : R69!RepDestroyed(local) => RepDestroyed(local))
  /\ R69!RepRecreate => RepRecreate
  /\ (\A local : R69!RepRetire(local) => RepRetire(local))
  /\ R69!RepFinally => RepFinally
  /\ (\A c : R69!RepVerdict(c) => RepVerdict(c))
  /\ R69!LocalEnd => LocalEnd
  /\ R69!CrossEnd => CrossEnd
<1>1. R69!PreflightStep => PreflightStep
  BY PlainR69 DEF R69!PreflightStep, R69!Finish, R69!At, R69!Goto, R69!Raise, R69!OrRaise,
     R69!SameIsland, R69!SameRun, PreflightStep, Finish
<1>2. R69!HeadStep => HeadStep
  BY PlainR69 DEF R69!HeadStep, R69!At, R69!Goto, R69!Raise, R69!OrRaise, R69!SameIsland,
     R69!SameRun, HeadStep
<1>3. R69!WorkerStep => WorkerStep
  BY PlainR69 DEF R69!WorkerStep, R69!At, R69!Goto, R69!Raise, R69!OrRaise, R69!SameIsland,
     R69!SameRun, WorkerStep
<1>4. R69!ReadyStep => ReadyStep
  BY PlainR69 DEF R69!ReadyStep, R69!WaitForFile, R69!At, R69!Goto, R69!Raise, R69!OrRaise,
     R69!SameIsland, R69!SameRun, ReadyStep, WaitForFile
<1>5. \A next : R69!AwaitFinalStep(next) => AwaitFinalStep(next)
  BY PlainR69 DEF R69!AwaitFinalStep, R69!WaitForFile, R69!At, R69!Goto, R69!Raise, R69!OrRaise,
     R69!SameIsland, R69!SameRun, AwaitFinalStep, WaitForFile
<1>6. \A next : R69!AwaitExitStep(next) => AwaitExitStep(next)
  BY PlainR69 DEF R69!AwaitExitStep, R69!WaitRoot, R69!ExitPaths, R69!At, R69!Goto, R69!Raise,
     R69!OrRaise, R69!SameIsland, R69!SameRun, AwaitExitStep, WaitRoot, ExitPaths
<1>7. \A next : R69!DiscardStep(next) => DiscardStep(next)
  BY PlainR69 DEF R69!DiscardStep, R69!Killed, R69!At, R69!Goto, R69!Raise, R69!OrRaise,
     R69!SameIsland, R69!SameRun, DiscardStep, Killed
<1>8. R69!RepLaunch => RepLaunch
  BY PlainR69 DEF R69!RepLaunch, R69!NewIsland, R69!Same, R69!At, R69!Goto, R69!Raise, R69!OrRaise,
     R69!SameIsland, R69!SameRun, RepLaunch, NewIsland
<1>9. \A k, next : R69!RepActor(k, next) => RepActor(k, next)
  BY PlainR69 DEF R69!RepActor, R69!Same, R69!At, R69!Goto, R69!Raise, R69!OrRaise, R69!SameIsland,
     R69!SameRun, RepActor
<1>10. \A local : R69!RepDestroyed(local) => RepDestroyed(local)
  BY PlainR69 DEF R69!RepDestroyed, R69!WaitPidGone, R69!Same, R69!At, R69!Goto, R69!Raise,
     R69!OrRaise, R69!SameIsland, R69!SameRun, RepDestroyed, WaitPidGone
<1>11. R69!RepRecreate => RepRecreate
  BY PlainR69 DEF R69!RepRecreate, R69!Same, R69!At, R69!Goto, R69!Raise, R69!OrRaise,
     R69!SameIsland, R69!SameRun, RepRecreate
<1>12. \A local : R69!RepRetire(local) => RepRetire(local)
  BY PlainR69 DEF R69!RepRetire, R69!WaitPidGone, R69!Killed, R69!Same, R69!At, R69!Goto, R69!Raise,
     R69!OrRaise, R69!SameIsland, R69!SameRun, RepRetire, WaitPidGone, Killed
<1>13. R69!RepFinally => RepFinally
  BY PlainR69 DEF R69!RepFinally, R69!Killed, R69!KilledRoot, R69!Same, R69!At, R69!Goto, R69!Raise,
     R69!OrRaise, R69!SameIsland, R69!SameRun, RepFinally, Killed, KilledRoot
<1>14. \A c : R69!RepVerdict(c) => RepVerdict(c)
  BY PlainR69 DEF R69!RepVerdict, R69!Reps, R69!At, R69!Goto, R69!Raise, R69!OrRaise,
     R69!SameIsland, R69!SameRun, RepVerdict, Reps
<1>15. R69!LocalEnd => LocalEnd
  BY PlainR69 DEF R69!LocalEnd, R69!Finish, R69!AllPassed, R69!Reps, R69!At, R69!Goto, R69!Raise,
     R69!OrRaise, R69!SameIsland, R69!SameRun, LocalEnd, Finish, AllPassed, Reps
<1>16. R69!CrossEnd => CrossEnd
  BY PlainR69 DEF R69!CrossEnd, R69!Finish, R69!AllPassed, R69!Reps, R69!At, R69!Goto, R69!Raise,
     R69!OrRaise, R69!SameIsland, R69!SameRun, CrossEnd, Finish, AllPassed, Reps
<1> QED BY <1>1, <1>2, <1>3, <1>4, <1>5, <1>6, <1>7, <1>8, <1>9, <1>10, <1>11, <1>12, <1>13, <1>14,
           <1>15, <1>16

\* The methods of the actor class, and the steps that call them.
LEMMA CalledR69 ==
  /\ \A k, m, ok : R69!HpxActor(k, m, ok) <=> ActorMethod(k, m, ok)
  /\ \A k, next : R69!RepStart(k, R69!HpxActor, next) => RepStart(k, ActorMethod, next)
  /\ \A k, next : R69!RepChild(k, R69!HpxActor, next) => RepChild(k, ActorMethod, next)
  /\ \A k, next : R69!RepHealth(k, R69!HpxActor, next) => RepHealth(k, ActorMethod, next)
  /\ \A k, next : R69!RepStop(k, R69!HpxActor, next) => RepStop(k, ActorMethod, next)
<1>1. \A k, m, ok : R69!HpxActor(k, m, ok) <=> ActorMethod(k, m, ok)
  BY PlainR69 DEF R69!HpxActor, R69!ActorMethod, ActorMethod, R69!StartHpx, StartHpx, R69!StopHpx,
     StopHpx, R69!Health, Health, R69!RayGet, RayGet
<1>2. \A k, next : R69!RepStart(k, R69!HpxActor, next) => RepStart(k, ActorMethod, next)
  BY <1>1, PlainR69 DEF R69!RepStart, RepStart, R69!Cardinality, Cardinality, R69!At, R69!Goto,
     R69!Raise, R69!OrRaise, R69!SameIsland, R69!SameRun, R69!Same
<1>3. \A k, next : R69!RepChild(k, R69!HpxActor, next) => RepChild(k, ActorMethod, next)
  BY <1>1, PlainR69 DEF R69!RepChild, RepChild, R69!At, R69!Goto, R69!Raise, R69!OrRaise,
     R69!SameIsland, R69!SameRun, R69!Same
<1>4. \A k, next : R69!RepHealth(k, R69!HpxActor, next) => RepHealth(k, ActorMethod, next)
  BY <1>1, PlainR69 DEF R69!RepHealth, RepHealth, R69!At, R69!Goto, R69!Raise, R69!OrRaise,
     R69!SameIsland, R69!SameRun, R69!Same
<1>5. \A k, next : R69!RepStop(k, R69!HpxActor, next) => RepStop(k, ActorMethod, next)
  BY <1>1, PlainR69 DEF R69!RepStop, RepStop, R69!At, R69!Goto, R69!Raise, R69!OrRaise,
     R69!SameIsland, R69!SameRun, R69!Same
<1> QED BY <1>1, <1>2, <1>3, <1>4, <1>5

\* Experiment 69 hosts its connectors in actors, as the shared steps do.
LEMMA Joins69 ==
  /\ R69!RepJoin(R69!HpxActor) => RepJoin(ActorMethod)
  /\ R69!RepStops(R69!HpxActor) => RepStops(ActorMethod)
  BY CalledR69, SharedR69 DEF R69!RepJoin, R69!RepStops, RepJoin, RepStops, R69!At

\* The end of a repetition of experiment 69.
LEMMA Ends69 ==
  ASSUME Base, program \in Repeated \ {"exp65"}, NEW local \in BOOLEAN, R69!RepEnd(local)
  PROVE  Kept
<1>1. \/ RepFinally
      \/ RepStops(ActorMethod) \/ DiscardStep("destroyed") \/ AwaitFinalStep("await_exit")
      \/ AwaitExitStep("retire") \/ RepRecreate \/ RepDestroyed(local) \/ RepRetire(local)
  BY SharedR69, Joins69 DEF R69!RepEnd
<1> QED BY <1>1, FinallyKills, RepWithin

\* The tables of the pieces: where a result leads, and what it can be.
PieceTable(here, key, next) ==
    /\ here \in {"work", "pregate", "timed_a", "timed_b", "soak", "batches"}
    /\ key \in {"warm", "pregate", "timed_a", "timed_b", "soak", "batches"}
    /\ "pass" \notin DOMAIN next
    /\ key \in {"timed_b", "batches"} => next["ok"] = "stop_a"
    /\ \A r \in DOMAIN next : next[r] \in {"pregate", "timed_a", "timed_b", "soak", "batches", "stop_a"}

\* A piece of the work.
LEMMA PieceKept ==
  ASSUME Base, program \in {"exp69", "exp69_tput", "exp69_s3"},
         NEW here, NEW key, NEW next, NEW raises, PieceTable(here, key, next),
         R69!Piece(here, key, next, raises)
  PROVE  Kept
<1>0. /\ here \in {"work", "pregate", "timed_a", "timed_b", "soak", "batches"}
      /\ key \in {"warm", "pregate", "timed_a", "timed_b", "soak", "batches"}
      /\ "pass" \notin DOMAIN next
      /\ key \in {"timed_b", "batches"} => next["ok"] = "stop_a"
      /\ \A r \in DOMAIN next : next[r] \in {"pregate", "timed_a", "timed_b", "soak", "batches", "stop_a"}
  BY DEF PieceTable
<1>1. UNCHANGED <<program, place, cluster, root, act, stale, files, finalMembers, arm, sm, obs, overall, class>>
      /\ pc = here
  BY DEF R69!Piece, R69!Same, R69!SameRun, R69!At
<1>2. Inside /\ overall' = "none"
  BY <1>0, <1>1 DEF Inside, Base, Typed, SupervisorTypeOK
<1>3. CASE \E r \in DOMAIN next :
            /\ R69!Outcome(r = "ok", R69!Joined)
            /\ R69!Put("run", key, r)
            /\ pc' = next[r] /\ exc' = exc
            /\ log' = IF r = "ok" /\ next[r] = "stop_a" THEN log \cup {<<arm, "run", "worked">>} ELSE log
  <2>1. PICK r \in DOMAIN next :
            /\ Outcome(r = "ok", R69!Joined)
            /\ Put("run", key, r)
            /\ pc' = next[r] /\ exc' = exc
            /\ log' = IF r = "ok" /\ next[r] = "stop_a" THEN log \cup {<<arm, "run", "worked">>} ELSE log
    BY <1>3, PlainR69
  <2>2. Holds(<<arm, "run", key>>, r, log')
    BY <1>0, <2>1 DEF Holds, S3!Bad
  <2>3. log \subseteq log' /\ \A e \in log' : e \in log \/ e[3] # "suspected_alive"
    BY <2>1
  <2>4. Marked'
    BY <1>1, <2>1, <2>2, <2>3, MarkedPut DEF Put, Base
  <2>5. faults' \in 0..MaxFaults[program']
    BY <1>1, <2>1, OutcomeTyped DEF Base
  <2>6. /\ root \in RootStates /\ stale \subseteq Conns /\ files \subseteq Files /\ act \in [Conns -> ActorStates]
        /\ cluster \in {"none", "head", "both", "down"} /\ exc \in BOOLEAN
    BY DEF Base, Typed, SupervisorTypeOK, IslandTypeOK
  <2>7. pc' \notin Between /\ pc' # "ended"
    BY <1>0, <2>1 DEF Between
  <2>8. Fine
    BY <1>1, <1>2, <2>1, <2>3, <2>4, <2>5, <2>6, <2>7, MovingStep
  <2> QED BY <1>1, <2>7, <2>8, Elsewhere
<1>4. CASE raises /\ R69!Outcome(FALSE, R69!Joined) /\ R69!Raise /\ UNCHANGED <<rec, log>>
  <2>1. Outcome(FALSE, R69!Joined) /\ pc' = "finalize" /\ exc' = TRUE /\ UNCHANGED <<rec, log>>
    BY <1>4, PlainR69 DEF R69!Raise, R69!Goto
  <2>2. faults' \in 0..MaxFaults[program']
    BY <1>1, <2>1, OutcomeTyped DEF Base
  <2>3. Marked'
    BY <1>1, <2>1, MarkedSame DEF Base
  <2>4. Fine
    BY <1>1, <1>2, <2>1, <2>2, <2>3, TellingStep
  <2> QED BY <1>1, <2>1, <2>4, Elsewhere DEF Between
<1> QED BY <1>3, <1>4 DEF R69!Piece, R69!Goto

\* The pieces of the three programs.
LEMMA Works69 ==
  ASSUME Base, program \in {"exp69", "exp69_tput", "exp69_s3"},
         \/ R69!Prepare \/ R69!run_pregate("timed_a") \/ R69!run_pregate("soak")
         \/ R69!Timed \/ R69!Soaks \/ R69!Batches
  PROVE  Kept
<1>1. CASE R69!Prepare
  <2> DEFINE f == [r \in {"ok", "failed"} |-> "pregate"]
  <2>1. CASE R69!Piece("work", "warm", f, FALSE)
    <3>1. PieceTable("work", "warm", f)
      BY DEF PieceTable
    <3> QED BY <2>1, <3>1, PieceKept
  <2>2. CASE /\ R69!At("work") /\ ~(R69!Known /\ program = "exp69")
             /\ R69!Goto(IF R69!Known THEN "pregate" ELSE "stop_a")
             /\ R69!SameIsland /\ UNCHANGED <<faults, rec, exc>> /\ R69!Same
    <3>1. /\ pc = "work" /\ pc' \in {"pregate", "stop_a"} /\ SameIsland
          /\ UNCHANGED <<faults, rec, exc>> /\ Same
      BY <2>2 DEF R69!At, R69!Goto, R69!SameIsland, R69!Same, R69!SameRun
    <3>0. UNCHANGED <<program, place, arm, log>>
      BY <2>2 DEF R69!At, R69!SameIsland, R69!Same, R69!SameRun
    <3>2. Marked'
      BY <3>0, <3>1, MarkedSame DEF Base
    <3>3. Inside /\ exc' \in BOOLEAN /\ pc' # "ended"
      BY <3>1 DEF Base, Inside, Typed, SupervisorTypeOK
    <3>4. faults' \in 0..MaxFaults[program']
      BY <3>0, <3>1, FaultTyped DEF Base
    <3>5. Fine
      BY <3>0, <3>1, <3>2, <3>3, <3>4, TellingStep
    <3>6. pc' \notin Between
      BY <3>1 DEF Between
    <3> QED BY <3>0, <3>5, <3>6, Elsewhere
  <2> QED BY <1>1, <2>1, <2>2 DEF R69!Prepare
<1>2. ASSUME NEW next \in {"timed_a", "soak"}, R69!run_pregate(next)
      PROVE  Kept
  <2> DEFINE f == [r \in {"ok", "failed"} |->
                     IF r = "ok" /\ (program = "exp69" => R69!Has(arm, "run", "warm", "ok")) THEN next ELSE "stop_a"]
  <2>1. R69!Piece("pregate", "pregate", f, TRUE)
    BY <1>2 DEF R69!run_pregate
  <2>2. PieceTable("pregate", "pregate", f)
    BY DEF PieceTable
  <2> HIDE DEF f
  <2> QED BY <2>1, <2>2, PieceKept
<1>3. CASE R69!Timed
  <2> DEFINE f(n) == [r \in {"ok"} \cup R69!Flags |-> IF r = "ok" THEN n ELSE "stop_a"]
             fa == f("timed_b")
             fb == f("stop_a")
  <2>1. R69!Piece("timed_a", "timed_a", fa, TRUE) \/ R69!Piece("timed_b", "timed_b", fb, TRUE)
    BY <1>3 DEF R69!Timed, R69!run_timed_case
  <2>2. PieceTable("timed_a", "timed_a", fa)
    BY DEF PieceTable, R69!Flags
  <2>3. PieceTable("timed_b", "timed_b", fb)
    BY DEF PieceTable, R69!Flags
  <2> HIDE DEF fa, fb
  <2>4. CASE R69!Piece("timed_a", "timed_a", fa, TRUE)
    BY <2>2, <2>4, PieceKept
  <2>5. CASE R69!Piece("timed_b", "timed_b", fb, TRUE)
    BY <2>3, <2>5, PieceKept
  <2> QED BY <2>1, <2>4, <2>5
<1>4. CASE R69!Soaks
  <2> DEFINE D == R69!SoakResults
                  \cup (IF R69!Capable(arm) THEN {"hpx_peer_concurrency_capability_not_proven"} ELSE {})
             f == [r \in D |-> IF r = "ok" THEN "batches" ELSE "stop_a"]
  <2>1. R69!Piece("soak", "soak", f, FALSE)
    BY <1>4 DEF R69!Soaks
  <2>2. PieceTable("soak", "soak", f)
    BY DEF PieceTable, R69!SoakResults
  <2> HIDE DEF f
  <2> QED BY <2>1, <2>2, PieceKept
<1>5. CASE R69!Batches
  <2> DEFINE f == [r \in R69!BatchResults |-> "stop_a"]
  <2>1. R69!Piece("batches", "batches", f, FALSE)
    BY <1>5 DEF R69!Batches
  <2>2. PieceTable("batches", "batches", f)
    BY DEF PieceTable, R69!BatchResults
  <2> HIDE DEF f
  <2> QED BY <2>1, <2>2, PieceKept
<1> QED BY <1>1, <1>2, <1>3, <1>4, <1>5

\* A repetition of timed pairs is classified pass only when every gate held.
LEMMA PassGates69 ==
  ASSUME NEW g, NEW flags, R69!classify_rep(g, flags) = "pass"
  PROVE  \A f \in DOMAIN g : g[f]
<1> SUFFICES ASSUME ~(\A f \in DOMAIN g : g[f]) PROVE FALSE
  OBVIOUS
<1> DEFINE hit == {i \in DOMAIN R69!CLASS_PRIORITY : R69!CLASS_PRIORITY[i] \in flags}
<1>1. (IF hit = {} THEN "invalid_instrumentation" ELSE R69!CLASS_PRIORITY[R69!First(hit)]) = "pass"
  BY DEF R69!classify_rep
<1>2. hit # {} /\ R69!CLASS_PRIORITY[First(hit)] = "pass"
  BY <1>1 DEF R69!First, First
<1>3. DOMAIN R69!CLASS_PRIORITY = 1..11
  BY DEF R69!CLASS_PRIORITY
<1>4. hit \subseteq Nat /\ hit \subseteq 1..11
  BY <1>3
<1>5. First(hit) \in 1..11
  <2> HIDE DEF hit
  <2> QED BY <1>2, <1>4, FirstIs
<1>6. \A i \in 1..11 : R69!CLASS_PRIORITY[i] # "pass"
  BY DEF R69!CLASS_PRIORITY
<1> QED BY <1>2, <1>5, <1>6

\* What the gates of a timed repetition say.
Timed69 ==
    LET g == R69!eval_rep_gates
    IN  g.timed_blocks_complete /\ g.all_timed_samples_valid /\ g.graceful_leave_clean_stop /\ g.root_finalized_clean

\* Experiment 69: a local repetition that passes asked these gates.
LEMMA LocalGates69 ==
  ASSUME R69!RepClass = "pass"
  PROVE  Timed69
<1> DEFINE g == R69!eval_rep_gates
<1>1. \A f \in DOMAIN g : g[f]
  <2>1. R69!classify_rep(g, R69!collect_rep_flags(g)) = "pass"
    BY DEF R69!RepClass
  <2> QED BY <2>1, PassGates69
<1>2. {"timed_blocks_complete", "all_timed_samples_valid", "graceful_leave_clean_stop", "root_finalized_clean"}
        \subseteq DOMAIN g
  BY DEF R69!eval_rep_gates
<1> HIDE DEF g
<1>3. g["timed_blocks_complete"] /\ g["all_timed_samples_valid"] /\ g["graceful_leave_clean_stop"]
      /\ g["root_finalized_clean"]
  BY <1>1, <1>2
<1> QED BY <1>3 DEF Timed69, g

\* Experiment 69: a cross-node repetition that passes asked these gates.
LEMMA CrossGates69 ==
  ASSUME R69!RepClassCrossnode = "pass"
  PROVE  Timed69
<1> DEFINE g == R69!eval_rep_gates
           m == [remote_orphan_check_ran |-> R69!Ok(arm, "run", "swept")]
           gx == R69!eval_rep_gates_crossnode
<1>1. \A f \in DOMAIN gx : gx[f]
  <2>1. R69!classify_rep(gx, R69!collect_rep_flags_crossnode(gx)) = "pass"
    BY DEF R69!RepClassCrossnode
  <2> QED BY <2>1, PassGates69
<1>2. {"timed_blocks_complete", "all_timed_samples_valid", "graceful_leave_clean_stop", "root_finalized_clean"}
        \subseteq DOMAIN g
  BY DEF R69!eval_rep_gates
<1>3. gx = g @@ m
  BY PlainR69 DEF R69!eval_rep_gates_crossnode
<1> HIDE DEF g, m, gx
<1>4. \A f \in DOMAIN g : f \in DOMAIN gx /\ gx[f] = g[f]
  BY <1>3, Merged
<1>5. g["timed_blocks_complete"] /\ g["all_timed_samples_valid"] /\ g["graceful_leave_clean_stop"]
      /\ g["root_finalized_clean"]
  BY <1>1, <1>2, <1>4
<1> QED BY <1>5 DEF Timed69, g

\* A timed repetition that is counted as passed did what it says.
LEMMA Verdict69 ==
  ASSUME Marked, program = "exp69", R69!RepClass = "pass" \/ R69!RepClassCrossnode = "pass"
  PROVE  RepEvidence(arm) \subseteq log
<1>1. Timed69
  BY LocalGates69, CrossGates69
<1>2. /\ \A k \in Conns : Ok(arm, k, "stopped")
      /\ Has(arm, "root", "exit_path", "finalized_clean") /\ Has(arm, "root", "final_membership", 1)
  BY <1>1, PlainR69 DEF Timed69, R69!eval_rep_gates
<1>3. Has(arm, "run", "timed_b", "ok")
  <2>1. /\ \A key \in R69!TimedKeys : R69!TimedRan(key)
        /\ \A key \in R69!TimedKeys : R69!TimedRan(key) => R69!Has(arm, "run", key, "ok")
    BY <1>1 DEF Timed69, R69!eval_rep_gates
  <2> QED BY <2>1, PlainR69 DEF R69!TimedKeys
<1>4. <<arm, "run", "worked">> \in log
  BY <1>3, Told DEF Holds
<1> QED BY <1>2, <1>4, TwoConnectors DEF Repeated

\* What the gates of a batch repetition say.
LEMMA Batches69 ==
  ASSUME Marked, program \in {"exp69_tput", "exp69_s3"}, NEW g,
         {"all_batches_passed", "graceful_leave_clean_stop", "root_finalized_clean"} \subseteq DOMAIN g,
         \A f \in DOMAIN g : g[f],
         \A f \in DOMAIN g : f \in DOMAIN R69!eval_throughput_island_gates
                             /\ g[f] = R69!eval_throughput_island_gates[f]
  PROVE  RepEvidence(arm) \subseteq log
<1> DEFINE e == R69!eval_throughput_island_gates
<1>1. e["all_batches_passed"] /\ e["graceful_leave_clean_stop"] /\ e["root_finalized_clean"]
  <2> HIDE DEF e
  <2>1. \A f \in DOMAIN g : g[f] = e[f]
    BY DEF e
  <2> QED BY <2>1
<1>2. R69!BatchesOk /\ (\A k \in R69!Conns : R69!Ok(arm, k, "stopped"))
      /\ R69!Has(arm, "root", "exit_path", "finalized_clean") /\ R69!Has(arm, "root", "final_membership", 1)
  BY <1>1 DEF R69!eval_throughput_island_gates
<1>3. /\ \A k \in Conns : Ok(arm, k, "stopped")
      /\ Has(arm, "root", "exit_path", "finalized_clean") /\ Has(arm, "root", "final_membership", 1)
      /\ Has(arm, "run", "batches", "ok")
  BY <1>2, PlainR69 DEF R69!BatchesOk
<1>4. <<arm, "run", "worked">> \in log
  BY <1>3, Told DEF Holds
<1> QED BY <1>3, <1>4, TwoConnectors DEF Repeated

\* The class of a throughput island is pass only when every gate held: the
\* last gate of the list never does.
LEMMA Island69 ==
  ASSUME Marked, NEW g, R69!IslandClass(g) = "pass"
  PROVE  \A f \in DOMAIN g : g[f]
<1> SUFFICES ASSUME ~(\A f \in DOMAIN g : g[f]) PROVE FALSE
  OBVIOUS
<1> DEFINE s == << <<"hpx_identity_mismatch", g.fixed_hpx_commit>>,
                   <<"actor_placement_invalid", g.hard_placed>>,
                   <<"orphan_detected", g.no_orphans>>,
                   <<"invalid_instrumentation", FALSE>> >>
<1>1. \A key \in {"soak", "batches"} : R69!TimedRan(key) => rec[<<arm, "run", key>>] # "pass"
  <2> SUFFICES ASSUME NEW key \in {"soak", "batches"}, R69!TimedRan(key) PROVE rec[<<arm, "run", key>>] # "pass"
    OBVIOUS
  <2>1. Holds(<<arm, "run", key>>, rec[<<arm, "run", key>>], log)
    BY DEF R69!TimedRan, Marked, MarkedBy
  <2> QED BY <2>1 DEF Holds
<1>2. R69!FirstFailed(s) = "pass"
  BY <1>1 DEF R69!IslandClass
<1>3. FirstFailed(s) = "pass"
  BY <1>2 DEF R69!FirstFailed, FirstFailed, R69!ClassOf, ClassOf, R69!Only, Only, R69!First, First
<1>4. DOMAIN s = 1..4 /\ (\A i \in DOMAIN s : s[i][1] # "pass") /\ s[4][2] = FALSE
  OBVIOUS
<1> HIDE DEF s
<1>5. DOMAIN s \subseteq Nat
  BY <1>4
<1>6. \A i \in DOMAIN s : s[i][2]
  BY <1>3, <1>4, <1>5, AllGates
<1> QED BY <1>4, <1>6

\* A batch repetition that is counted as passed did what it says.
LEMMA Verdict69b ==
  ASSUME Marked, program \in {"exp69_tput", "exp69_s3"},
         \/ program = "exp69_tput" /\ R69!IslandClass(R69!eval_throughput_island_gates) = "pass"
         \/ R69!Slice3Class(R69!eval_slice3_local_gates) = "pass"
         \/ R69!Slice3Class(R69!eval_throughput_island_gates) = "pass"
  PROVE  RepEvidence(arm) \subseteq log
<1> DEFINE e == R69!eval_throughput_island_gates
           d == R69!eval_slice3_local_gates
<1>1. {"all_batches_passed", "graceful_leave_clean_stop", "root_finalized_clean"} \subseteq DOMAIN e
  BY DEF R69!eval_throughput_island_gates
<1>2. CASE \A f \in DOMAIN e : e[f]
  BY <1>1, <1>2, Batches69
<1>3. CASE R69!Slice3Class(d) = "pass"
  <2>1. \A f \in DOMAIN d : d[f]
    BY <1>3 DEF R69!Slice3Class
  <2>2. DOMAIN d = DOMAIN e \ {"hard_placed", "remote_orphan_check_ran"} /\ \A f \in DOMAIN d : d[f] = e[f]
    BY DEF R69!eval_slice3_local_gates
  <2>3. {"all_batches_passed", "graceful_leave_clean_stop", "root_finalized_clean"} \subseteq DOMAIN d
    BY <1>1, <2>2
  <2>4. \A f \in DOMAIN d : f \in DOMAIN e /\ d[f] = e[f]
    BY <2>2
  <2> HIDE DEF d
  <2> QED BY <2>1, <2>3, <2>4, Batches69
<1>4. CASE R69!IslandClass(e) = "pass"
  BY <1>2, <1>4, Island69
<1>5. CASE R69!Slice3Class(e) = "pass"
  BY <1>2, <1>5 DEF R69!Slice3Class
<1> QED BY <1>3, <1>4, <1>5

\* The end of a throughput run.
LEMMA TputEnds ==
  ASSUME Base, RepOrdered, R69!throughput_end
  PROVE  Kept
<1>1. CASE R69!CrossEnd
  BY <1>1, SharedR69, RepEnds
<1>2. CASE ~R69!CrossEnd
  <2>1. PICK clean \in BOOLEAN :
          /\ Outcome(clean, TRUE)
          /\ IF R69!apply_capability_linkage.crash THEN R69!Finish("crash", "none")
             ELSE R69!Finish("fail", IF exc THEN "exception"
                                   ELSE IF R69!AllPassed THEN "peer_concurrency_capability_not_available"
                                   ELSE "none")
    BY <1>2, PlainR69 DEF R69!throughput_end
  <2>2. \E v \in {"pass", "fail", "crash"} : \E c : Finish(v, c)
    BY <2>1 DEF R69!Finish, Finish
  <2>3. /\ UNCHANGED <<program, place, root, act, stale, files, finalMembers, log, arm, rec, exc>>
        /\ cluster' \in {"none", "head", "both", "down"}
    BY <1>2 DEF R69!throughput_end, R69!At, Base, Typed, SupervisorTypeOK, IslandTypeOK
  <2>4. faults' \in 0..MaxFaults[program']
    BY <2>1, <2>3, OutcomeTyped DEF Base
  <2>5. Base' /\ pc' = "ended"
    BY <2>2, <2>3, <2>4, EndBase DEF Finish
  <2> QED BY <2>3, <2>5 DEF Kept, RepOrdered, Beginning
<1> QED BY <1>1, <1>2

\* The steps of experiment 69, for its three programs.
LEMMA Latency69 ==
  ASSUME Base, RepOrdered, R69!Latency
  PROVE  Kept
<1>1. Marked /\ program = "exp69" /\ program \in Repeated \ {"exp65"}
  BY DEF Base, R69!Latency, Repeated
<1>2. CASE PreflightStep \/ HeadStep \/ WorkerStep
  BY <1>2, RepBegins
<1>3. CASE LocalEnd \/ CrossEnd
  BY <1>3, RepEnds
<1>4. CASE R69!Prepare \/ R69!run_pregate("timed_a") \/ R69!Timed
  BY <1>1, <1>4, Works69
<1>5. CASE \E local \in BOOLEAN : R69!RepEnd(local)
  BY <1>1, <1>5, Ends69
<1>6. CASE RepVerdict(R69!RepClass) \/ RepVerdict(R69!RepClassCrossnode)
  BY <1>1, <1>6, Verdict69, RepPasses
<1>7. CASE RepLaunch \/ ReadyStep \/ RepJoin(ActorMethod)
  BY <1>1, <1>7, RepWithin
<1>8. \/ R69!run_rep_work \/ R69!run_rep_end \/ R69!run_phase
      \/ R69!run_crossnode_rep_work \/ R69!run_crossnode_rep_end \/ R69!crossnode_cluster \/ R69!crossnode_end
  BY DEF R69!Latency
<1> QED
  BY <1>2, <1>3, <1>4, <1>5, <1>6, <1>7, <1>8, SharedR69, Joins69
  DEF R69!run_rep_work, R69!run_rep_end, R69!run_phase, R69!run_crossnode_rep_work, R69!run_crossnode_rep_end,
      R69!crossnode_cluster, R69!crossnode_end

\* The work of a batch repetition.
LEMMA BatchWork69 ==
  ASSUME Base, program \in {"exp69_tput", "exp69_s3"}, R69!BatchWork
  PROVE  Kept
<1>1. program \in Repeated \ {"exp65"} /\ program \in {"exp69", "exp69_tput", "exp69_s3"}
  BY DEF Repeated
<1>2. CASE R69!Prepare \/ R69!run_pregate("soak") \/ R69!Soaks \/ R69!Batches
  BY <1>1, <1>2, Works69
<1>3. CASE RepLaunch \/ ReadyStep \/ RepJoin(ActorMethod)
  BY <1>1, <1>3, RepWithin
<1> QED BY <1>2, <1>3, SharedR69, Joins69 DEF R69!BatchWork

\* A throughput batch keeps the order of its run.
LEMMA Throughput69 ==
  ASSUME Base, RepOrdered, R69!Throughput
  PROVE  Kept
<1>1. Marked /\ program = "exp69_tput" /\ program \in Repeated \ {"exp65"}
  BY DEF Base, R69!Throughput, Repeated
<1>2. CASE PreflightStep \/ HeadStep \/ WorkerStep
  BY <1>2, RepBegins
<1>3. CASE R69!throughput_end
  BY <1>3, TputEnds
<1>4. CASE R69!BatchWork
  BY <1>1, <1>4, BatchWork69
<1>5. CASE R69!RepEnd(FALSE)
  BY <1>1, <1>5, Ends69
<1>6. CASE RepVerdict(R69!IslandClass(R69!eval_throughput_island_gates))
  BY <1>1, <1>6, Verdict69b, RepPasses
<1>7. \/ R69!run_throughput_rep_work \/ R69!run_throughput_rep_end \/ R69!throughput_cluster \/ R69!throughput_end
  BY DEF R69!Throughput
<1> QED
  BY <1>2, <1>3, <1>4, <1>5, <1>6, <1>7, SharedR69
  DEF R69!run_throughput_rep_work, R69!run_throughput_rep_end, R69!throughput_cluster

\* So does a band of experiment 69.
LEMMA Bands69 ==
  ASSUME Base, RepOrdered, R69!Slice3
  PROVE  Kept
<1>1. Marked /\ program = "exp69_s3" /\ program \in Repeated \ {"exp65"}
  BY DEF Base, R69!Slice3, Repeated
<1>2. CASE PreflightStep \/ HeadStep \/ WorkerStep
  BY <1>2, RepBegins
<1>3. CASE LocalEnd \/ CrossEnd
  BY <1>3, RepEnds
<1>4. CASE R69!BatchWork
  BY <1>1, <1>4, BatchWork69
<1>5. CASE \E local \in BOOLEAN : R69!RepEnd(local)
  BY <1>1, <1>5, Ends69
<1>6. CASE \/ RepVerdict(R69!Slice3Class(R69!eval_slice3_local_gates))
           \/ RepVerdict(R69!Slice3Class(R69!eval_throughput_island_gates))
  BY <1>1, <1>6, Verdict69b, RepPasses
<1>7. \/ R69!run_slice3_local_rep \/ R69!run_slice3_local_phase
      \/ R69!run_slice3_crossnode_rep_work \/ R69!run_slice3_crossnode_rep_end
      \/ R69!slice3_crossnode_cluster \/ R69!slice3_crossnode_end
  BY DEF R69!Slice3
<1> QED
  BY <1>2, <1>3, <1>4, <1>5, <1>6, <1>7, SharedR69
  DEF R69!run_slice3_local_rep, R69!run_slice3_local_phase, R69!run_slice3_crossnode_rep_work,
      R69!run_slice3_crossnode_rep_end, R69!slice3_crossnode_cluster, R69!slice3_crossnode_end

\* Experiment 69 keeps the invariant.
LEMMA Exp69Keeps ==
  ASSUME IInv, R69!Driver
  PROVE  IInv'
<1>1. program \in {"exp69", "exp69_tput", "exp69_s3"}
  BY DEF R69!Driver, R69!Latency, R69!Throughput, R69!Slice3
<1>2. Base /\ RepOrdered
  BY <1>1 DEF IInv, Ordered, Repeated
<1>3. Kept
  BY <1>2, Latency69, Throughput69, Bands69 DEF R69!Driver
<1> QED BY <1>1, <1>3 DEF Kept, IInv, Ordered, Passed, Slices, Repeated

-----------------------------------------------------------------------------
(* Experiment 66.                                                          *)

\* What the instance of Rep66 shares is what the module shares.
LEMMA PlainR66 ==
  /\ R66!Conns = Conns /\ R66!Members = Members /\ R66!Running = Running
  /\ (R66!RootAlive <=> RootAlive) /\ (R66!RootServes <=> RootServes) /\ (R66!NobodyLeft <=> NobodyLeft)
  /\ (R66!Fault <=> Fault) /\ (\A ok, can : R66!Outcome(ok, can) <=> Outcome(ok, can))
  /\ \A f, g : R66!@@(f, g) = f @@ g
  /\ \A x, v : R66!:>(x, v) = (x :> v)
  /\ \A a, w, s, v : R66!Has(a, w, s, v) <=> Has(a, w, s, v)
  /\ \A a, w, s : R66!Ok(a, w, s) <=> Ok(a, w, s)
  /\ \A w, s, v : R66!Put(w, s, v) <=> Put(w, s, v)
<1>1. R66!Conns = Conns
  BY DEF R66!Conns, Conns
<1>2. R66!Members = Members
  BY <1>1 DEF R66!Members, Members, R66!Cardinality, Cardinality
<1>3. R66!Running = Running
  BY <1>1 DEF R66!Running, Running
<1>4. R66!RootAlive <=> RootAlive
  BY DEF R66!RootAlive, RootAlive
<1>5. R66!RootServes <=> RootServes
  BY DEF R66!RootServes, RootServes
<1>6. R66!NobodyLeft <=> NobodyLeft
  BY <1>1, <1>4 DEF R66!NobodyLeft, NobodyLeft
<1>7. R66!Fault <=> Fault
  BY DEF R66!Fault, Fault
<1>8. \A ok, can : R66!Outcome(ok, can) <=> Outcome(ok, can)
  BY <1>7 DEF R66!Outcome, Outcome
<1>9. \A f, g : R66!@@(f, g) = f @@ g
  BY DEF R66!@@, @@, R66!Merge, Merge, R66!Only, Only
<1>10. \A x, v : R66!:>(x, v) = (x :> v)
  BY DEF R66!:>, :>
<1>11. \A a, w, s, v : R66!Has(a, w, s, v) <=> Has(a, w, s, v)
  BY DEF R66!Has, Has
<1>12. \A a, w, s : R66!Ok(a, w, s) <=> Ok(a, w, s)
  BY <1>11 DEF R66!Ok, Ok
<1>13. \A w, s, v : R66!Put(w, s, v) <=> Put(w, s, v)
  BY <1>9, <1>10 DEF R66!Put, Put
<1> QED BY <1>1, <1>2, <1>3, <1>4, <1>5, <1>6, <1>7, <1>8, <1>9, <1>10, <1>11, <1>12, <1>13

\* The shared steps of R66 are this module's.
LEMMA SharedR66 ==
  /\ R66!PreflightStep => PreflightStep
  /\ R66!HeadStep => HeadStep
  /\ R66!WorkerStep => WorkerStep
  /\ R66!ReadyStep => ReadyStep
  /\ (\A next : R66!AwaitFinalStep(next) => AwaitFinalStep(next))
  /\ (\A next : R66!AwaitExitStep(next) => AwaitExitStep(next))
  /\ R66!RepLaunch => RepLaunch
  /\ (\A k, next : R66!RepActor(k, next) => RepActor(k, next))
  /\ R66!RepFinally => RepFinally
  /\ (\A c : R66!RepVerdict(c) => RepVerdict(c))
  /\ R66!LocalEnd => LocalEnd
  /\ R66!CrossEnd => CrossEnd
<1>1. R66!PreflightStep => PreflightStep
  BY PlainR66 DEF R66!PreflightStep, R66!Finish, R66!At, R66!Goto, R66!Raise, R66!OrRaise,
     R66!SameIsland, R66!SameRun, PreflightStep, Finish
<1>2. R66!HeadStep => HeadStep
  BY PlainR66 DEF R66!HeadStep, R66!At, R66!Goto, R66!Raise, R66!OrRaise, R66!SameIsland,
     R66!SameRun, HeadStep
<1>3. R66!WorkerStep => WorkerStep
  BY PlainR66 DEF R66!WorkerStep, R66!At, R66!Goto, R66!Raise, R66!OrRaise, R66!SameIsland,
     R66!SameRun, WorkerStep
<1>4. R66!ReadyStep => ReadyStep
  BY PlainR66 DEF R66!ReadyStep, R66!WaitForFile, R66!At, R66!Goto, R66!Raise, R66!OrRaise,
     R66!SameIsland, R66!SameRun, ReadyStep, WaitForFile
<1>5. \A next : R66!AwaitFinalStep(next) => AwaitFinalStep(next)
  BY PlainR66 DEF R66!AwaitFinalStep, R66!WaitForFile, R66!At, R66!Goto, R66!Raise, R66!OrRaise,
     R66!SameIsland, R66!SameRun, AwaitFinalStep, WaitForFile
<1>6. \A next : R66!AwaitExitStep(next) => AwaitExitStep(next)
  BY PlainR66 DEF R66!AwaitExitStep, R66!WaitRoot, R66!ExitPaths, R66!At, R66!Goto, R66!Raise,
     R66!OrRaise, R66!SameIsland, R66!SameRun, AwaitExitStep, WaitRoot, ExitPaths
<1>7. R66!RepLaunch => RepLaunch
  BY PlainR66 DEF R66!RepLaunch, R66!NewIsland, R66!Same, R66!At, R66!Goto, R66!Raise, R66!OrRaise,
     R66!SameIsland, R66!SameRun, RepLaunch, NewIsland
<1>8. \A k, next : R66!RepActor(k, next) => RepActor(k, next)
  BY PlainR66 DEF R66!RepActor, R66!Same, R66!At, R66!Goto, R66!Raise, R66!OrRaise, R66!SameIsland,
     R66!SameRun, RepActor
<1>9. R66!RepFinally => RepFinally
  BY PlainR66 DEF R66!RepFinally, R66!Killed, R66!KilledRoot, R66!Same, R66!At, R66!Goto, R66!Raise,
     R66!OrRaise, R66!SameIsland, R66!SameRun, RepFinally, Killed, KilledRoot
<1>10. \A c : R66!RepVerdict(c) => RepVerdict(c)
  BY PlainR66 DEF R66!RepVerdict, R66!Reps, R66!At, R66!Goto, R66!Raise, R66!OrRaise,
     R66!SameIsland, R66!SameRun, RepVerdict, Reps
<1>11. R66!LocalEnd => LocalEnd
  BY PlainR66 DEF R66!LocalEnd, R66!Finish, R66!AllPassed, R66!Reps, R66!At, R66!Goto, R66!Raise,
     R66!OrRaise, R66!SameIsland, R66!SameRun, LocalEnd, Finish, AllPassed, Reps
<1>12. R66!CrossEnd => CrossEnd
  BY PlainR66 DEF R66!CrossEnd, R66!Finish, R66!AllPassed, R66!Reps, R66!At, R66!Goto, R66!Raise,
     R66!OrRaise, R66!SameIsland, R66!SameRun, CrossEnd, Finish, AllPassed, Reps
<1> QED BY <1>1, <1>2, <1>3, <1>4, <1>5, <1>6, <1>7, <1>8, <1>9, <1>10, <1>11, <1>12

\* The methods of the actor class, and the steps that call them.
LEMMA CalledR66 ==
  /\ \A k, m, ok : R66!HpxActor(k, m, ok) <=> ActorMethod(k, m, ok)
  /\ \A k, next : R66!RepStart(k, R66!HpxActor, next) => RepStart(k, ActorMethod, next)
  /\ \A k, next : R66!RepChild(k, R66!HpxActor, next) => RepChild(k, ActorMethod, next)
  /\ \A k, next : R66!RepHealth(k, R66!HpxActor, next) => RepHealth(k, ActorMethod, next)
  /\ \A k, next : R66!RepStop(k, R66!HpxActor, next) => RepStop(k, ActorMethod, next)
<1>1. \A k, m, ok : R66!HpxActor(k, m, ok) <=> ActorMethod(k, m, ok)
  BY PlainR66 DEF R66!HpxActor, R66!ActorMethod, ActorMethod, R66!StartHpx, StartHpx, R66!StopHpx,
     StopHpx, R66!Health, Health, R66!RayGet, RayGet
<1>2. \A k, next : R66!RepStart(k, R66!HpxActor, next) => RepStart(k, ActorMethod, next)
  BY <1>1, PlainR66 DEF R66!RepStart, RepStart, R66!Cardinality, Cardinality, R66!At, R66!Goto,
     R66!Raise, R66!OrRaise, R66!SameIsland, R66!SameRun, R66!Same
<1>3. \A k, next : R66!RepChild(k, R66!HpxActor, next) => RepChild(k, ActorMethod, next)
  BY <1>1, PlainR66 DEF R66!RepChild, RepChild, R66!At, R66!Goto, R66!Raise, R66!OrRaise,
     R66!SameIsland, R66!SameRun, R66!Same
<1>4. \A k, next : R66!RepHealth(k, R66!HpxActor, next) => RepHealth(k, ActorMethod, next)
  BY <1>1, PlainR66 DEF R66!RepHealth, RepHealth, R66!At, R66!Goto, R66!Raise, R66!OrRaise,
     R66!SameIsland, R66!SameRun, R66!Same
<1>5. \A k, next : R66!RepStop(k, R66!HpxActor, next) => RepStop(k, ActorMethod, next)
  BY <1>1, PlainR66 DEF R66!RepStop, RepStop, R66!At, R66!Goto, R66!Raise, R66!OrRaise,
     R66!SameIsland, R66!SameRun, R66!Same
<1> QED BY <1>1, <1>2, <1>3, <1>4, <1>5

\* The actor of experiment 66, and its methods.
LEMMA Actor66 ==
  ASSUME Base, R66!Join
  PROVE  Kept
<1>1. \/ At("actor_a") /\ RepActor("a", "start_a")
      \/ At("start_a") /\ RepStart("a", ActorMethod, "child_a")
      \/ At("child_a") /\ RepChild("a", ActorMethod, "prober")
  BY SharedR66, CalledR66 DEF R66!Join, R66!At
<1>2. Inside /\ UNCHANGED <<program, place>> /\ "a" \in Conns
  BY <1>1 DEF Inside, Conns
<1>3. Fine
  BY <1>1, <1>2, RepActorFine, RepStartFine, RepChildFine
<1>4. pc' \notin Between
  BY <1>1 DEF RepActor, RepStart, RepChild, Between
<1> QED BY <1>2, <1>3, <1>4, Elsewhere

\* The checks and stops of experiment 66 keep its order.
LEMMA Stops66 ==
  ASSUME Base, R66!HealthAndStop
  PROVE  Kept
<1>1. CASE (R66!At("health") /\ R66!RepHealth("a", R66!HpxActor, "saturate"))
           \/ (R66!At("stop_a") /\ R66!RepStop("a", R66!HpxActor, "destroy"))
  <2>1. \/ At("health") /\ RepHealth("a", ActorMethod, "saturate")
        \/ At("stop_a") /\ RepStop("a", ActorMethod, "destroy")
    BY <1>1, CalledR66 DEF R66!At
  <2>2. Inside /\ UNCHANGED <<program, place>> /\ "a" \in Conns
    BY <2>1 DEF Inside, Conns
  <2>3. Fine
    BY <2>1, <2>2, RepHealthFine, RepStopFine
  <2>4. pc' \notin Between
    BY <2>1 DEF RepHealth, RepStop, Between
  <2> QED BY <2>2, <2>3, <2>4, Elsewhere
<1>2. CASE R66!RepSaturate(R66!Ok(arm, "a", "start"), R66!classify_slice_c)
  BY <1>2, RepSaturates, PlainR66
     DEF R66!RepSaturate, R66!At, R66!Goto, R66!SameIsland, R66!SameRun, R66!Same
<1>3. CASE /\ R66!At("destroy")
           /\ R66!Killed({"a"}) /\ R66!Goto("destroyed")
           /\ UNCHANGED <<cluster, root, files, finalMembers, faults, log, rec, exc>> /\ R66!Same
  <2>1. /\ pc = "destroy" /\ pc' = "destroyed" /\ UNCHANGED <<program, place>> /\ Same
        /\ Killed({"a"}) /\ UNCHANGED <<cluster, root, files, finalMembers, faults, log, rec, exc>>
    BY <1>3, PlainR66 DEF R66!At, R66!Goto, R66!Same, R66!SameRun, R66!Killed, Killed
  <2>2. Marked'
    BY <2>1, MarkedSame DEF Base
  <2>3. Inside /\ exc' \in BOOLEAN /\ {"a"} \in SUBSET Conns
    BY <2>1 DEF Inside, Base, Typed, SupervisorTypeOK, Conns
  <2>4. Fine
    BY <2>1, <2>2, <2>3, KillingStep
  <2> QED BY <2>1, <2>4, Elsewhere DEF Between
<1> QED BY <1>1, <1>2, <1>3 DEF R66!HealthAndStop

\* The prober is launched, awaited and triggered.
LEMMA Launch66 ==
  ASSUME Base, R66!LaunchProber
  PROVE  Kept
<1>0. /\ root \in RootStates /\ stale \subseteq Conns /\ files \subseteq Files /\ act \in [Conns -> ActorStates]
      /\ cluster \in {"none", "head", "both", "down"} /\ exc \in BOOLEAN
  BY DEF Base, Typed, SupervisorTypeOK, IslandTypeOK
<1>1. CASE R66!At("prober")
  <2>1. /\ pc = "prober" /\ pc' = "prober_up" /\ UNCHANGED <<program, place>> /\ Same
        /\ act' = [act EXCEPT !["b"] = "up"]
        /\ UNCHANGED <<cluster, root, stale, files, finalMembers, faults, log, rec, exc>>
    BY <1>1 DEF R66!LaunchProber, R66!At, R66!Goto, R66!Same, R66!SameRun, R66!Prober
  <2>2. Marked'
    BY <2>1, MarkedSame DEF Base
  <2>3. Inside /\ overall' = "none" /\ faults' \in 0..MaxFaults[program']
    BY <2>1, FaultTyped DEF Inside, Base, Typed, SupervisorTypeOK
  <2>4. act' \in [Conns -> ActorStates]
    BY <1>0, <2>1 DEF ActorStates
  <2>5. Fine
    BY <1>0, <2>1, <2>2, <2>3, <2>4, MovingStep
  <2> QED BY <2>1, <2>5, Elsewhere DEF Between
<1>2. CASE R66!At("prober_up")
  <2>1. /\ pc = "prober_up" /\ pc' = "probe" /\ UNCHANGED <<program, place>> /\ Same
        /\ files' \in {files, files \cup {"probe_go"}}
        /\ UNCHANGED <<cluster, root, act, stale, finalMembers, log, exc>>
    BY <1>2 DEF R66!LaunchProber, R66!At, R66!Goto, R66!Same, R66!SameRun
  <2>2. PICK ok, can : ok \in BOOLEAN /\ Outcome(ok, can) /\ Put("run", "prober_joined", ok)
    BY <1>2, PlainR66 DEF R66!LaunchProber, R66!At, R66!WaitForProber
  <2>3. Marked'
    BY <2>1, <2>2, MutePut DEF Base, Telling, S3!Bad
  <2>4. Inside /\ overall' = "none" /\ faults' \in 0..MaxFaults[program']
    BY <2>1, <2>2, OutcomeTyped DEF Inside, Base, Typed, SupervisorTypeOK
  <2>5. files' \subseteq Files /\ files \subseteq files' /\ files' \cap TellingFiles \subseteq files
    BY <1>0, <2>1 DEF Files, TellingFiles, S3!Bad
  <2>6. Fine
    BY <1>0, <2>1, <2>3, <2>4, <2>5, MovingStep
  <2> QED BY <2>1, <2>6, Elsewhere DEF Between
<1> QED BY <1>1, <1>2 DEF R66!LaunchProber

\* A probe that was good was answered.
LEMMA Probe66 ==
  ASSUME Base, program = "exp66", R66!IdleProbe
  PROVE  Kept
<1>1. /\ pc = "probe" /\ pc' = "health" /\ UNCHANGED <<program, place>> /\ Same /\ SameIsland /\ UNCHANGED exc
  BY DEF R66!IdleProbe, R66!At, R66!Goto, R66!Same, R66!SameRun, R66!SameIsland
<1>2. PICK ok \in BOOLEAN : /\ UNCHANGED faults \/ Fault
                            /\ ok <=> "probe_good" \in files
                            /\ Put("run", "probe", ok)
  BY PlainR66 DEF R66!IdleProbe, Outcome
<1>3. Inside /\ exc' \in BOOLEAN /\ faults' \in 0..MaxFaults[program']
  BY <1>1, <1>2, FaultTyped DEF Inside, Base, Typed, SupervisorTypeOK
<1>4. ok => <<arm, "run", "worked">> \in log
  BY <1>2, <1>3 DEF Base, FilesTrue, Saying
<1>5. Holds(<<arm, "run", "probe">>, ok, log')
  BY <1>1, <1>4 DEF Holds, S3!Bad
<1>6. Marked'
  BY <1>1, <1>2, <1>5, MarkedPut DEF Put, Base
<1>7. Fine
  BY <1>1, <1>3, <1>6, TellingStep
<1> QED BY <1>1, <1>7, Elsewhere DEF Between

\* The actor is gone, its successor is asked for, the prober is awaited.
LEMMA Destroyed66 ==
  ASSUME Base, NEW local \in BOOLEAN, R66!Destroyed(local)
  PROVE  Kept
<1>1. /\ pc = "destroyed" /\ pc' = "recreate" /\ UNCHANGED <<program, place>> /\ Same /\ SameIsland /\ UNCHANGED exc
  BY DEF R66!Destroyed, R66!At, R66!Goto, R66!Same, R66!SameRun, R66!SameIsland
<1>2. PICK ok \in BOOLEAN : Outcome(ok, TRUE) /\ Put("run", "destroyed", ok)
  BY PlainR66 DEF R66!Destroyed, R66!WaitPidGone
<1>3. Inside /\ exc' \in BOOLEAN /\ faults' \in 0..MaxFaults[program']
  BY <1>1, <1>2, OutcomeTyped DEF Inside, Base, Typed, SupervisorTypeOK
<1>4. Marked'
  BY <1>1, <1>2, MutePut DEF Base, Telling, S3!Bad
<1>5. Fine
  BY <1>1, <1>3, <1>4, TellingStep
<1> QED BY <1>1, <1>5, Elsewhere DEF Between

\* So does making the second connector again.
LEMMA Recreate66 ==
  ASSUME Base, R66!Recreate
  PROVE  Kept
<1>0. /\ root \in RootStates /\ stale \subseteq Conns /\ files \subseteq Files /\ act \in [Conns -> ActorStates]
      /\ cluster \in {"none", "head", "both", "down"} /\ exc \in BOOLEAN
  BY DEF Base, Typed, SupervisorTypeOK, IslandTypeOK
<1>1. /\ pc = "recreate" /\ pc' = "await_prober" /\ UNCHANGED <<program, place>> /\ Same
      /\ files' = files \cup {"done"}
      /\ UNCHANGED <<cluster, root, stale, finalMembers, log, exc>>
      /\ \E s \in {"renewed", "up"} : act' = [act EXCEPT !["a"] = s]
  BY DEF R66!Recreate, R66!At, R66!Goto, R66!Same, R66!SameRun
<1>2. PICK ok \in BOOLEAN : Outcome(ok, TRUE) /\ Put("a", "recreate", ok)
  BY PlainR66 DEF R66!Recreate
<1>3. Inside /\ overall' = "none" /\ faults' \in 0..MaxFaults[program']
  BY <1>1, <1>2, OutcomeTyped DEF Inside, Base, Typed, SupervisorTypeOK
<1>4. Marked'
  BY <1>1, <1>2, MutePut DEF Base, Telling, S3!Bad
<1>5. files' \subseteq Files /\ files \subseteq files' /\ files' \cap TellingFiles \subseteq files
  BY <1>0, <1>1 DEF Files, TellingFiles, S3!Bad
<1>6. act' \in [Conns -> ActorStates]
  BY <1>0, <1>1 DEF ActorStates
<1>7. Fine
  BY <1>0, <1>1, <1>3, <1>4, <1>5, <1>6, MovingStep
<1> QED BY <1>1, <1>7, Elsewhere DEF Between

\* The prober is seen to leave only when its file says so.
LEMMA AwaitProber66 ==
  ASSUME Base, R66!AwaitProber
  PROVE  Kept
<1>1. /\ pc = "await_prober" /\ pc' = "await_final" /\ UNCHANGED <<program, place>> /\ Same /\ SameIsland
      /\ UNCHANGED exc
  BY DEF R66!AwaitProber, R66!At, R66!Goto, R66!Same, R66!SameRun, R66!SameIsland
<1>2. PICK ok, can : /\ ok \in BOOLEAN
                     /\ ok => "prober_left" \in files
                     /\ Outcome(ok, can)
                     /\ Put("run", "prober_left", ok)
  BY PlainR66 DEF R66!AwaitProber
<1>3. Inside /\ exc' \in BOOLEAN /\ faults' \in 0..MaxFaults[program']
  BY <1>1, <1>2, OutcomeTyped DEF Inside, Base, Typed, SupervisorTypeOK
<1>4. ok => <<arm, "b", "left">> \in log
  BY <1>2, <1>3 DEF Base, FilesTrue, Saying
<1>5. Holds(<<arm, "run", "prober_left">>, ok, log')
  BY <1>1, <1>4 DEF Holds, S3!Bad
<1>6. Marked'
  BY <1>1, <1>2, <1>5, MarkedPut DEF Put, Base
<1>7. Fine
  BY <1>1, <1>3, <1>6, TellingStep
<1> QED BY <1>1, <1>7, Elsewhere DEF Between

\* The prober joins, or the repetition raises.
LEMMA JoinProber66 ==
  ASSUME Base, R66!JoinProber
  PROVE  Kept
<1>0. /\ root \in RootStates /\ stale \subseteq Conns /\ files \subseteq Files /\ act \in [Conns -> ActorStates]
      /\ cluster \in {"none", "head", "both", "down"} /\ exc \in BOOLEAN
  BY DEF Base, Typed, SupervisorTypeOK, IslandTypeOK
<1>1. /\ pc = "join_prober" /\ pc' = "await_exit" /\ UNCHANGED <<program, place>> /\ Same
      /\ UNCHANGED <<cluster, root, files, finalMembers, log, rec, exc>>
      /\ UNCHANGED faults \/ Fault
      /\ UNCHANGED <<act, stale>> \/ Killed({"b"})
  BY PlainR66 DEF R66!JoinProber, R66!At, R66!Goto, R66!Same, R66!SameRun, R66!Prober, R66!Killed,
     Killed
<1>2. Marked'
  BY <1>1, MarkedSame DEF Base
<1>3. Inside /\ overall' = "none" /\ faults' \in 0..MaxFaults[program']
  BY <1>1, FaultTyped DEF Inside, Base, Typed, SupervisorTypeOK
<1>4. act' \in [Conns -> ActorStates] /\ stale' \subseteq Conns
  BY <1>0, <1>1 DEF Killed, ActorStates, Conns
<1>5. Fine
  BY <1>0, <1>1, <1>2, <1>3, <1>4, MovingStep
<1> QED BY <1>1, <1>5, Elsewhere DEF Between

\* The prober is reaped at the end of its repetition.
LEMMA Retire66 ==
  ASSUME Base, NEW local \in BOOLEAN, R66!Retire(local)
  PROVE  Kept
<1>1. CASE R66!At("retire")
  <2>1. /\ pc = "retire" /\ pc' = "gone" /\ UNCHANGED <<program, place>> /\ Same
        /\ Killed({"a"}) /\ UNCHANGED <<cluster, root, files, finalMembers, faults, log, rec, exc>>
    BY <1>1, PlainR66 DEF R66!Retire, R66!At, R66!Goto, R66!Same, R66!SameRun, R66!Killed, Killed
  <2>2. Marked'
    BY <2>1, MarkedSame DEF Base
  <2>3. Inside /\ exc' \in BOOLEAN /\ {"a"} \in SUBSET Conns
    BY <2>1 DEF Inside, Base, Typed, SupervisorTypeOK, Conns
  <2>4. Fine
    BY <2>1, <2>2, <2>3, KillingStep
  <2> QED BY <2>1, <2>4, Elsewhere DEF Between
<1>2. CASE R66!At("gone")
  <2>1. At("gone") /\ Goto("finally") /\ SameIsland /\ UNCHANGED exc /\ Same
    BY <1>2 DEF R66!Retire, R66!At, R66!Goto, R66!SameIsland, R66!Same, R66!SameRun
  <2>2. \E ok, can, u, v :
           /\ Outcome(ok, can)
           /\ rec' = (<<arm, "run", "no_orphans">> :> u) @@ (<<arm, "run", "swept">> :> v) @@ rec
    BY <1>2, PlainR66 DEF R66!Retire, R66!At, R66!WaitPidGone
  <2>3. Fine
    BY <2>1, <2>2, GoneFine
  <2> QED BY <2>1, <2>3, Elsewhere DEF Between
<1> QED BY <1>1, <1>2 DEF R66!Retire

\* A probed repetition that is counted as passed did what it says.
LEMMA Verdict66 ==
  ASSUME Marked, program = "exp66", R66!eval_slice_a
  PROVE  RepEvidence(arm) \subseteq log
<1>1. /\ Ok(arm, "run", "probe") /\ Ok(arm, "a", "stopped") /\ Ok(arm, "run", "prober_left")
      /\ Has(arm, "root", "final_membership", 1) /\ Has(arm, "root", "exit_path", "finalized_clean")
  BY PlainR66 DEF R66!eval_slice_a
<1>2. <<arm, "run", "worked">> \in log
  BY <1>1, Told DEF Ok, Holds
<1>3. <<arm, "a", "left">> \in log
  BY <1>1, Told DEF Ok, Holds
<1>4. <<arm, "b", "left">> \in log
  BY <1>1, Told DEF Ok, Holds
<1>5. <<arm, "root", "alone">> \in log /\ <<arm, "root", "clean">> \in log
  BY <1>1, Told DEF Holds
<1> QED BY <1>2, <1>3, <1>4, <1>5 DEF RepEvidence

\* The steps of a repetition with a prober.
LEMMA RepSteps66 ==
  ASSUME Base, RepOrdered, program = "exp66", NEW local \in BOOLEAN, NEW c,
         c = "pass" => R66!eval_slice_a, R66!RepSteps(local, c)
  PROVE  Kept
<1>1. Marked /\ program \in Repeated \ {"exp65"}
  BY DEF Base, Repeated
<1>2. CASE RepVerdict(c)
  BY <1>1, <1>2, Verdict66, RepPasses
<1>3. CASE RepFinally
  BY <1>1, <1>3, FinallyKills
<1>4. CASE RepLaunch \/ ReadyStep \/ AwaitExitStep("retire")
  BY <1>1, <1>4, RepWithin
<1>5. CASE AwaitFinalStep("join_prober")
  <2>1. Fine
    BY <1>5, AwaitFinalFine
  <2>2. UNCHANGED program /\ pc' \notin Between
    BY <1>5 DEF AwaitFinalStep, Between
  <2> QED BY <2>1, <2>2, Elsewhere
<1>6. CASE R66!Join \/ R66!LaunchProber \/ R66!IdleProbe \/ R66!HealthAndStop
  BY <1>6, Actor66, Launch66, Probe66, Stops66
<1>7. CASE R66!Destroyed(local) \/ R66!Recreate \/ R66!AwaitProber \/ R66!JoinProber \/ R66!Retire(local)
  BY <1>7, Destroyed66, Recreate66, AwaitProber66, JoinProber66, Retire66
<1> QED BY <1>2, <1>3, <1>4, <1>5, <1>6, <1>7, SharedR66 DEF R66!RepSteps

\* Experiment 66 keeps the invariant.
LEMMA Exp66Keeps ==
  ASSUME IInv, program = "exp66", R66!Driver
  PROVE  IInv'
<1>1. Base /\ RepOrdered
  BY DEF IInv, Ordered, Repeated
<1> SUFFICES Kept
  BY <1>1 DEF Kept, IInv, Ordered, Passed, Slices, Repeated
<1>2. CASE PreflightStep \/ HeadStep \/ WorkerStep
  BY <1>1, <1>2, RepBegins
<1>3. CASE LocalEnd \/ CrossEnd
  BY <1>1, <1>3, RepEnds
<1>4. CASE R66!run_rep
  <2>1. R66!rep_verdict = "pass" => R66!eval_slice_a
    BY DEF R66!rep_verdict
  <2>2. R66!RepSteps(TRUE, R66!rep_verdict)
    BY <1>4 DEF R66!run_rep
  <2> QED BY <1>1, <2>1, <2>2, RepSteps66
<1>5. CASE R66!run_crossnode_rep
  <2> DEFINE c == IF R66!eval_crossnode_slice_a /\ R66!eval_slice_b THEN "pass" ELSE "fail"
  <2>1. c = "pass" => R66!eval_slice_a
    BY DEF R66!eval_crossnode_slice_a
  <2>2. R66!RepSteps(FALSE, c)
    BY <1>5 DEF R66!run_crossnode_rep
  <2> HIDE DEF c
  <2> QED BY <1>1, <2>1, <2>2, RepSteps66
<1> QED BY <1>2, <1>3, <1>4, <1>5, SharedR66
  DEF R66!Driver, R66!run_local_phase, R66!crossnode_cluster, R66!crossnode_end

-----------------------------------------------------------------------------
(* Experiment 65.                                                          *)

\* What the instance of Rep65 shares is what the module shares.
LEMMA PlainR65 ==
  /\ R65!Conns = Conns /\ R65!Members = Members /\ R65!Running = Running
  /\ (R65!RootAlive <=> RootAlive) /\ (R65!RootServes <=> RootServes) /\ (R65!NobodyLeft <=> NobodyLeft)
  /\ (R65!Fault <=> Fault) /\ (\A ok, can : R65!Outcome(ok, can) <=> Outcome(ok, can))
  /\ \A f, g : R65!@@(f, g) = f @@ g
  /\ \A x, v : R65!:>(x, v) = (x :> v)
  /\ \A a, w, s, v : R65!Has(a, w, s, v) <=> Has(a, w, s, v)
  /\ \A a, w, s : R65!Ok(a, w, s) <=> Ok(a, w, s)
  /\ \A w, s, v : R65!Put(w, s, v) <=> Put(w, s, v)
<1>1. R65!Conns = Conns
  BY DEF R65!Conns, Conns
<1>2. R65!Members = Members
  BY <1>1 DEF R65!Members, Members, R65!Cardinality, Cardinality
<1>3. R65!Running = Running
  BY <1>1 DEF R65!Running, Running
<1>4. R65!RootAlive <=> RootAlive
  BY DEF R65!RootAlive, RootAlive
<1>5. R65!RootServes <=> RootServes
  BY DEF R65!RootServes, RootServes
<1>6. R65!NobodyLeft <=> NobodyLeft
  BY <1>1, <1>4 DEF R65!NobodyLeft, NobodyLeft
<1>7. R65!Fault <=> Fault
  BY DEF R65!Fault, Fault
<1>8. \A ok, can : R65!Outcome(ok, can) <=> Outcome(ok, can)
  BY <1>7 DEF R65!Outcome, Outcome
<1>9. \A f, g : R65!@@(f, g) = f @@ g
  BY DEF R65!@@, @@, R65!Merge, Merge, R65!Only, Only
<1>10. \A x, v : R65!:>(x, v) = (x :> v)
  BY DEF R65!:>, :>
<1>11. \A a, w, s, v : R65!Has(a, w, s, v) <=> Has(a, w, s, v)
  BY DEF R65!Has, Has
<1>12. \A a, w, s : R65!Ok(a, w, s) <=> Ok(a, w, s)
  BY <1>11 DEF R65!Ok, Ok
<1>13. \A w, s, v : R65!Put(w, s, v) <=> Put(w, s, v)
  BY <1>9, <1>10 DEF R65!Put, Put
<1> QED BY <1>1, <1>2, <1>3, <1>4, <1>5, <1>6, <1>7, <1>8, <1>9, <1>10, <1>11, <1>12, <1>13

\* The shared steps of R65 are this module's.
LEMMA SharedR65 ==
  /\ (\A c : R65!RepVerdict(c) => RepVerdict(c))
<1>1. \A c : R65!RepVerdict(c) => RepVerdict(c)
  BY PlainR65 DEF R65!RepVerdict, R65!Reps, R65!At, R65!Goto, R65!Raise, R65!OrRaise,
     R65!SameIsland, R65!SameRun, RepVerdict, Reps
<1> QED BY <1>1

\* What a step of experiment 65 keeps.
Kept65 == Base' /\ Rep65Ordered' /\ program' = program

\* Fine steps that do not touch the processes' order.
LEMMA Still65 ==
  ASSUME Fine, UNCHANGED <<program, act>>, Rep65Ordered, pc' \notin {"preflight", "launch", "verdict"},
         pc' \in {"ready", "local", "event", "await_root"} =>
            pc \in {"preflight", "launch", "ready", "local", "event", "await_root", "verdict"}
  PROVE  Kept65
  BY DEF Kept65, Fine, Rep65Ordered, Running

\* A driver that moves on to its next wait keeps the order of its arm.
LEMMA Phase65 ==
  ASSUME Base, Rep65Ordered, program = "exp65", R65!Phase
  PROVE  Kept65
<1>0. /\ SameIsland /\ UNCHANGED <<program, place, faults, arm, rec, exc>>
      /\ cluster \in {"none", "head", "both", "down"} /\ exc \in BOOLEAN
  BY DEF R65!Phase, R65!At, R65!SameIsland, Base, Typed, SupervisorTypeOK, IslandTypeOK
<1>1. faults' \in 0..MaxFaults[program']
  BY <1>0, FaultTyped DEF Base
<1>2. CASE R65!At("preflight")
  <2>1. pc = "preflight" /\ ((pc' = "launch" /\ UNCHANGED overall)
                             \/ (pc' = "ended" /\ overall' \in {"skip", "fail_preflight"}))
    BY <1>2 DEF R65!Phase, R65!At, R65!Goto, R65!SameRun, R65!Finish
  <2>2. Marked'
    BY <1>0, MarkedSame DEF Base
  <2>3. /\ overall' \in {"none", "skip", "fail_preflight"} /\ ((pc' = "ended") <=> (overall' # "none"))
        /\ ~Inside'
    BY <2>1 DEF Base, Typed, SupervisorTypeOK, Inside
  <2>4. Fine
    BY <1>0, <1>1, <2>2, <2>3, StillStep
  <2>5. ~RootAlive' /\ "a" \notin Running'
    BY <1>0, <2>1 DEF Rep65Ordered, RootAlive, Running
  <2> QED BY <1>0, <2>4, <2>5 DEF Kept65, Fine, Rep65Ordered
<1>3. CASE R65!At("phase_end")
  <2>1. \E v \in {"pass", "fail", "crash"} : Finish(v, "none")
    BY <1>3 DEF R65!Phase, R65!At, R65!Finish, Finish
  <2>2. Base' /\ pc' = "ended"
    BY <1>0, <1>1, <2>1, EndBase DEF Finish
  <2> QED BY <1>0, <2>2 DEF Kept65, Rep65Ordered
<1> QED BY <1>2, <1>3 DEF R65!Phase

\* So does one that launches the processes of an arm.
LEMMA Launch65 ==
  ASSUME Base, Rep65Ordered, program = "exp65", R65!Launch
  PROVE  Kept65
<1>0. /\ pc = "launch" /\ UNCHANGED <<program, place, cluster, rec>> /\ Same
  BY DEF R65!Launch, R65!At, R65!Same, R65!SameRun
<1>1. CASE R65!NewIsland(arm) /\ R65!Goto("ready") /\ UNCHANGED <<faults, exc>>
  <2>1. NewIsland(arm) /\ pc' = "ready" /\ UNCHANGED <<faults, exc>>
    BY <1>1, PlainR65 DEF R65!NewIsland, NewIsland, R65!Goto
  <2>2. Fine
    BY <1>0, <2>1, NewIslandFine DEF Base, Typed, SupervisorTypeOK
  <2>3. \A k \in Conns : act'[k] = "none"
    BY <2>1 DEF NewIsland
  <2> QED BY <1>0, <2>1, <2>2, <2>3 DEF Kept65, Fine, Rep65Ordered, Running, Conns
<1>2. CASE R65!Fault /\ R65!Abort /\ UNCHANGED <<root, act, stale, files, finalMembers, log>>
  <2>1. Fault /\ exc' = TRUE /\ pc' = "phase_end" /\ UNCHANGED <<root, act, stale, files, finalMembers, log>>
    BY <1>2, PlainR65 DEF R65!Abort
  <2>2. Marked'
    BY <1>0, <2>1, MarkedSame DEF Base
  <2>3. ~Inside' /\ overall' = "none" /\ faults' \in 0..MaxFaults[program']
    BY <1>0, <2>1, FaultTyped DEF Inside, Base, Typed, SupervisorTypeOK
  <2>4. Fine
    BY <1>0, <2>1, <2>2, <2>3, StillStep
  <2> QED BY <1>0, <2>1, <2>4, Still65
<1> QED BY <1>1, <1>2 DEF R65!Launch

\* A wait for a file ends with the file there, or raises.
LEMMA Waits65 ==
  ASSUME Base, Rep65Ordered, program = "exp65", R65!WaitReady \/ R65!WaitLocal \/ R65!AwaitServed
  PROVE  Kept65
<1>0. /\ pc \in {"ready", "local", "await_served"} /\ UNCHANGED <<program, place>> /\ Same /\ SameIsland
      /\ UNCHANGED exc
      /\ (pc # "await_served" /\ pc' \in {"local", "event"}) \/ pc' = "await_conn"
  BY DEF R65!WaitReady, R65!WaitLocal, R65!AwaitServed, R65!At, R65!Goto, R65!Same, R65!SameRun,
     R65!SameIsland
<1>1. /\ UNCHANGED rec \/ \E what \in {"ready", "local"} : \E ok : Put("root", what, ok)
      /\ UNCHANGED faults \/ Fault
  BY PlainR65 DEF R65!WaitReady, R65!WaitLocal, R65!AwaitServed, R65!WaitForFile, Outcome
<1>2. Marked'
  BY <1>0, <1>1, MutePut, MarkedSame DEF Base, Telling, S3!Bad
<1>3. Inside /\ exc' \in BOOLEAN /\ pc' # "ended" /\ faults' \in 0..MaxFaults[program']
  BY <1>0, <1>1, FaultTyped DEF Inside, Base, Typed, SupervisorTypeOK
<1>4. Fine
  BY <1>0, <1>2, <1>3, TellingStep
<1> QED BY <1>0, <1>4, Still65

\* The connector is only made while its arm's root is still to be waited for.
LEMMA Demand65 ==
  ASSUME Base, Rep65Ordered, program = "exp65", R65!Demand \/ R65!NoDemand
  PROVE  Kept65
<1>0. /\ root \in RootStates /\ stale \subseteq Conns /\ files \subseteq Files /\ act \in [Conns -> ActorStates]
      /\ cluster \in {"none", "head", "both", "down"} /\ exc \in BOOLEAN
  BY DEF Base, Typed, SupervisorTypeOK, IslandTypeOK
<1>1. /\ pc = "event" /\ UNCHANGED <<program, place, cluster, root, stale, finalMembers, log, rec>> /\ Same
      /\ files' \in {files \cup {"demand"}, files \cup {"finish"}}
      /\ \/ act' = [act EXCEPT !["a"] = "up"] /\ pc' = "await_served" /\ UNCHANGED <<faults, exc>>
         \/ Fault /\ exc' = TRUE /\ pc' = "phase_end" /\ UNCHANGED act
         \/ pc' = "await_root" /\ UNCHANGED <<act, faults, exc>>
  BY PlainR65 DEF R65!Demand, R65!NoDemand, R65!At, R65!Goto, R65!Abort, R65!Same, R65!SameRun
<1>2. Marked'
  BY <1>1, MarkedSame DEF Base
<1>3. Inside /\ overall' = "none" /\ pc' # "ended" /\ exc' \in BOOLEAN
  BY <1>0, <1>1 DEF Inside, Base, Typed, SupervisorTypeOK
<1>4. files' \subseteq Files /\ files \subseteq files' /\ files' \cap TellingFiles \subseteq files
  BY <1>0, <1>1 DEF Files, TellingFiles, S3!Bad
<1>5. faults' \in 0..MaxFaults[program']
  BY <1>1, FaultTyped DEF Base
<1>6. act' \in [Conns -> ActorStates] /\ act'["b"] = act["b"]
  BY <1>0, <1>1 DEF ActorStates, Conns
<1>7. Fine
  BY <1>0, <1>1, <1>2, <1>3, <1>4, <1>5, <1>6, MovingStep
<1> QED BY <1>1, <1>6, <1>7 DEF Kept65, Fine, Rep65Ordered, Running

\* The connector has exited, or is killed; either way it runs no longer.
LEMMA AwaitConnector65 ==
  ASSUME Base, Rep65Ordered, program = "exp65", R65!AwaitConnector
  PROVE  Kept65
<1>0. /\ root \in RootStates /\ stale \subseteq Conns /\ files \subseteq Files /\ act \in [Conns -> ActorStates]
      /\ cluster \in {"none", "head", "both", "down"} /\ exc \in BOOLEAN
  BY DEF Base, Typed, SupervisorTypeOK, IslandTypeOK
<1>1. /\ pc = "await_conn" /\ pc' = "await_root" /\ UNCHANGED <<program, place>> /\ Same
      /\ UNCHANGED <<cluster, root, files, finalMembers, log, exc>>
      /\ \/ act["a"] = "dead" /\ UNCHANGED <<act, stale, faults>>
         \/ Fault /\ Killed({"a"})
      /\ \E ok : Put("a", "exited", ok)
  BY PlainR65 DEF R65!AwaitConnector, R65!At, R65!Goto, R65!Same, R65!SameRun, R65!Killed, Killed
<1>2. Marked'
  BY <1>1, MutePut DEF Base, Telling, S3!Bad
<1>3. Inside /\ overall' = "none" /\ faults' \in 0..MaxFaults[program']
  BY <1>1, FaultTyped DEF Inside, Base, Typed, SupervisorTypeOK
<1>4. act' \in [Conns -> ActorStates] /\ stale' \subseteq Conns
  BY <1>0, <1>1 DEF Killed, ActorStates, Conns
<1>5. act'["b"] = act["b"] /\ "a" \notin Running'
  BY <1>1 DEF Killed, Running, Conns
<1>6. Fine
  BY <1>0, <1>1, <1>2, <1>3, <1>4, MovingStep
<1> QED BY <1>1, <1>5, <1>6 DEF Kept65, Fine, Rep65Ordered

\* The root's exit is read from its own file.
LEMMA AwaitRoot65 ==
  ASSUME Base, Rep65Ordered, program = "exp65", R65!AwaitRoot
  PROVE  Kept65
<1>0. /\ root \in RootStates /\ stale \subseteq Conns /\ files \subseteq Files /\ act \in [Conns -> ActorStates]
      /\ cluster \in {"none", "head", "both", "down"} /\ exc \in BOOLEAN
  BY DEF Base, Typed, SupervisorTypeOK, IslandTypeOK
<1>1. /\ pc = "await_root" /\ pc' = "verdict" /\ UNCHANGED <<program, place>> /\ Same
      /\ UNCHANGED <<cluster, act, stale, files, finalMembers, log, exc>>
  BY DEF R65!AwaitRoot, R65!At, R65!Goto, R65!Same, R65!SameRun
<1>2. PICK path, ran :
        /\ WaitRoot(path)
        /\ rec' = (<<arm, "root", "exit_path">> :> path) @@ (<<arm, "run", "swept">> :> ran) @@ rec
  BY PlainR65 DEF R65!AwaitRoot, R65!WaitRoot, WaitRoot
<1>3. Inside /\ overall' = "none"
  BY <1>1 DEF Inside, Base, Typed, SupervisorTypeOK
<1>4. Holds(<<arm, "root", "exit_path">>, path, log') /\ Holds(<<arm, "run", "swept">>, ran, log')
  BY <1>1, <1>2, <1>3, ExitTold, Mute DEF Telling, S3!Bad
<1>5. MarkedBy((<<arm, "root", "exit_path">> :> path) @@ (<<arm, "run", "swept">> :> ran), log')
  BY <1>4, MarkedSingle, MarkAll
<1>6. Marked'
  BY <1>1, <1>2, <1>5, MarkedMerge DEF Base
<1>7. faults' \in 0..MaxFaults[program'] /\ root' \in RootStates /\ root' \in {root, "dead"} /\ ~RootAlive'
  <2>1. (UNCHANGED faults \/ Fault) /\ (root' \in {"exited", "dead"}) /\ root' \in {root, "dead"}
    BY <1>2 DEF WaitRoot
  <2> QED BY <1>0, <1>1, <2>1, FaultTyped DEF Base, RootStates, RootAlive
<1>8. Fine
  BY <1>0, <1>1, <1>3, <1>6, <1>7, MovingStep
<1>9. act'["b"] = "none" /\ "a" \notin Running'
  BY <1>1 DEF Rep65Ordered, Running
<1> QED BY <1>1, <1>7, <1>8, <1>9 DEF Kept65, Fine, Rep65Ordered

\* The gates of an arm of experiment 65, without the sweep across nodes.
LEMMA Gates65 ==
  ASSUME NEW g, NEW h, R65!Gates(g) = "pass" \/ R65!Gates(h) = "pass",
         \A f \in DOMAIN g : f \in DOMAIN h /\ h[f] = g[f]
  PROVE  \A f \in DOMAIN g : g[f]
  BY DEF R65!Gates

\* A demand arm that passes was served and left, and its root ended clean.
LEMMA DemandGates65 ==
  ASSUME R65!Gates(R65!eval_demand_gates) = "pass" \/ R65!Gates(R65!eval_crossnode_demand_gates) = "pass"
  PROVE  {"served", "disconnected", "leave_seen"} \subseteq files /\ Has(arm, "root", "exit_path", "finalized_clean")
<1> DEFINE g == R65!eval_demand_gates
           m == [remote_orphan_check_ran |-> R65!Ok(arm, "run", "swept")]
           h == R65!eval_crossnode_demand_gates
<1>1. h = g @@ m
  BY PlainR65 DEF R65!eval_crossnode_demand_gates
<1>2. {"remote_oracle_on_connector", "connector_left_gracefully", "root_operational_after_leave", "clean_exits"}
        \subseteq DOMAIN g
  BY DEF R65!eval_demand_gates
<1> HIDE DEF g, m, h
<1>3. \A f \in DOMAIN g : f \in DOMAIN h /\ h[f] = g[f]
  BY <1>1, Merged
<1>4. R65!Gates(g) = "pass" \/ R65!Gates(h) = "pass"
  BY DEF g, h
<1>5. \A f \in DOMAIN g : g[f]
  BY <1>3, <1>4, Gates65
<1>6. /\ g["remote_oracle_on_connector"] /\ g["connector_left_gracefully"]
      /\ g["root_operational_after_leave"] /\ g["clean_exits"]
  BY <1>2, <1>5
<1>7. R65!Marker("served") /\ R65!Marker("disconnected") /\ R65!Marker("leave_seen") /\ R65!CleanRoot
  BY <1>6 DEF g, R65!eval_demand_gates
<1> QED BY <1>7, PlainR65 DEF R65!Marker, R65!CleanRoot

\* A control arm that passes ended clean and alone.
LEMMA ControlGates65 ==
  ASSUME R65!Gates(R65!eval_no_demand_gates) = "pass" \/ R65!Gates(R65!eval_crossnode_no_demand_gates) = "pass"
  PROVE  "final" \in files /\ finalMembers = 1 /\ Has(arm, "root", "exit_path", "finalized_clean")
<1> DEFINE g == R65!eval_no_demand_gates
           m == [remote_orphan_check_ran |-> R65!Ok(arm, "run", "swept")]
           h == R65!eval_crossnode_no_demand_gates
<1>1. h = g @@ m
  BY PlainR65 DEF R65!eval_crossnode_no_demand_gates
<1>2. {"zero_connectors_ever", "root_finalized_clean_alone"} \subseteq DOMAIN g
  BY DEF R65!eval_no_demand_gates
<1> HIDE DEF g, m, h
<1>3. \A f \in DOMAIN g : f \in DOMAIN h /\ h[f] = g[f]
  BY <1>1, Merged
<1>4. R65!Gates(g) = "pass" \/ R65!Gates(h) = "pass"
  BY DEF g, h
<1>5. \A f \in DOMAIN g : g[f]
  BY <1>3, <1>4, Gates65
<1>6. g["zero_connectors_ever"] /\ g["root_finalized_clean_alone"]
  BY <1>2, <1>5
<1>7. finalMembers = 1 /\ R65!Marker("final") /\ R65!CleanRoot
  BY <1>6 DEF g, R65!eval_no_demand_gates
<1> QED BY <1>7, PlainR65 DEF R65!Marker, R65!CleanRoot

\* An arm of experiment 65 that is counted as passed did what it says.
LEMMA Verdict65 ==
  ASSUME Base, program = "exp65", pc = "verdict", R65!ArmClass = "pass"
  PROVE  RepEvidence(arm) \subseteq log
<1>1. Saying(arm, root, files, finalMembers, log)
  BY DEF Base, FilesTrue, Inside
<1>2. arm \in {"rep1", "rep2"} /\ place \in {"local", "cross"}
  BY DEF Base, Typed, SupervisorTypeOK, IslandTypeOK, Repeated
<1>3. CASE arm = "rep1"
  <2>1. R65!DemandArm
    BY <1>3 DEF R65!DemandArm, R65!Reps
  <2>2. R65!Gates(R65!eval_demand_gates) = "pass" \/ R65!Gates(R65!eval_crossnode_demand_gates) = "pass"
    BY <1>2, <2>1 DEF R65!ArmClass
  <2>3. {"served", "disconnected", "leave_seen"} \subseteq files /\ Has(arm, "root", "exit_path", "finalized_clean")
    BY <2>2, DemandGates65
  <2>4. <<arm, "root", "clean">> \in log
    BY <2>3, Told DEF Base, Holds
  <2>5. <<arm, "run", "worked">> \in log /\ <<arm, "a", "left">> \in log /\ <<arm, "root", "alone">> \in log
    BY <1>1, <2>3 DEF Saying
  <2> QED BY <2>4, <2>5 DEF RepEvidence
<1>4. CASE arm = "rep2"
  <2>1. ~R65!DemandArm
    BY <1>4 DEF R65!DemandArm, R65!Reps
  <2>2. R65!Gates(R65!eval_no_demand_gates) = "pass" \/ R65!Gates(R65!eval_crossnode_no_demand_gates) = "pass"
    BY <1>2, <2>1 DEF R65!ArmClass
  <2>3. "final" \in files /\ finalMembers = 1 /\ Has(arm, "root", "exit_path", "finalized_clean")
    BY <2>2, ControlGates65
  <2>4. <<arm, "root", "clean">> \in log
    BY <2>3, Told DEF Base, Holds
  <2>5. <<arm, "root", "alone">> \in log
    BY <1>1, <2>3 DEF Saying
  <2>6. arm = Reps[2]
    BY <1>4 DEF Reps
  <2> QED BY <2>4, <2>5, <2>6 DEF RepEvidence
<1> QED BY <1>2, <1>3, <1>4

\* A repetition of experiment 65 passes only on its evidence.
LEMMA RepVerdict65 ==
  ASSUME Base, Rep65Ordered, program = "exp65", R65!RepVerdict(R65!ArmClass)
  PROVE  Kept65
<1>1. RepVerdict(R65!ArmClass) /\ pc = "verdict"
  BY SharedR65 DEF RepVerdict
<1>2. Fine
  BY <1>1, Verdict65, RepVerdictFine DEF Repeated
<1>3. UNCHANGED <<program, root, act>>
  BY <1>1 DEF RepVerdict
<1>4. ~RootAlive' /\ "a" \notin Running' /\ act'["b"] = "none"
  BY <1>1, <1>3 DEF Rep65Ordered, RootAlive, Running
<1> QED BY <1>2, <1>3, <1>4 DEF Kept65, Fine, Rep65Ordered

\* Experiment 65 keeps the invariant.
LEMMA Exp65Keeps ==
  ASSUME IInv, program = "exp65", R65!Driver
  PROVE  IInv'
<1>1. Base /\ Rep65Ordered
  BY DEF IInv, Ordered
<1>2. Kept65
  BY <1>1, Phase65, Launch65, Waits65, Demand65, AwaitConnector65, AwaitRoot65, RepVerdict65
  DEF R65!Driver, R65!run_demand_rep, R65!run_no_demand_rep, R65!main, R65!run_crossnode_demand_rep,
      R65!run_crossnode_no_demand_rep, R65!run_crossnode_phase, R65!RepSteps
<1> QED BY <1>2 DEF Kept65, IInv, Ordered, Passed, Slices, Repeated

-----------------------------------------------------------------------------
(* The invariant holds at first and is kept.                               *)

\* No program has done anything at first.
LEMMA IInvAtFirst ==
  ASSUME Init
  PROVE  IInv
<1>1. PICK p, first, s :
        /\ p \in Slices \cup Repeated
        /\ IslandInit /\ SupervisorInit(p, first, s)
        /\ p \in Repeated => first = "rep1"
        /\ p = "slice1" => first = "epoch0"
        /\ p = "slice2" => first = "island"
        /\ p = "slice3" => first = "graceful"
        /\ p = "slice3b" => first = "native"
        /\ p = "slice4" => first = "normal"
  <2>1. CASE S1!Init \/ S2!Init \/ S3!Init \/ S4!Init
    BY <2>1 DEF S1!Init, S2!Init, S3!Init, S4!Init, S1!IslandInit, S2!IslandInit, S3!IslandInit,
       S4!IslandInit, S1!SupervisorInit, S2!SupervisorInit, S3!SupervisorInit, S4!SupervisorInit,
       S1!Conns, S2!Conns, S3!Conns, S4!Conns, S1!NoObs, S2!NoObs, S3!NoObs, S4!NoObs, IslandInit,
       SupervisorInit, Conns, NoObs, Slices, Repeated
  <2>2. CASE R65!Init \/ R66!Init
    BY <2>2 DEF R65!Init, R66!Init, R65!RepInit, R66!RepInit, R65!Reps, R66!Reps,
       R65!IslandInit, R66!IslandInit, R65!SupervisorInit, R66!SupervisorInit, R65!Conns, R66!Conns,
       R65!NoObs, R66!NoObs, IslandInit, SupervisorInit, Conns, NoObs, Slices, Repeated
  <2>3. CASE R67!Init \/ R68!Init \/ R69!Init
    BY <2>3 DEF R67!Init, R68!Init, R69!Init, R67!RepInit, R68!RepInit, R69!RepInit, R67!Reps,
       R68!Reps, R69!Reps, R67!IslandInit, R68!IslandInit, R69!IslandInit, R67!SupervisorInit,
       R68!SupervisorInit, R69!SupervisorInit, R67!Conns, R68!Conns, R69!Conns, R67!NoObs,
       R68!NoObs, R69!NoObs, IslandInit, SupervisorInit, Conns, NoObs, Slices, Repeated
  <2> QED BY <2>1, <2>2, <2>3 DEF Init
<1>2. /\ program = p /\ pc = "preflight" /\ arm = first /\ DOMAIN rec = {} /\ exc = FALSE
      /\ overall = "none" /\ class = "none"
  BY <1>1 DEF SupervisorInit
<1>3. /\ place \in {"local", "cross"} /\ cluster = "none" /\ root = "none" /\ act = [k \in Conns |-> "none"]
      /\ stale = {} /\ files = {} /\ finalMembers = 0 /\ faults = 0 /\ log = {}
  BY <1>1 DEF IslandInit
<1>4. Typed
  <2>1. program \in Slices \cup Repeated /\ (program \in Repeated => arm \in {"rep1", "rep2"})
    BY <1>1, <1>2
  <2>2. MaxFaults[program] \in Nat
    BY <2>1, BoundsAssumption
  <2>3. faults \in 0..MaxFaults[program] /\ finalMembers \in 0..3
    BY <1>3, <2>2
  <2>4. act \in [Conns -> ActorStates] /\ root \in RootStates
    BY <1>3 DEF ActorStates, RootStates
  <2> QED BY <1>2, <1>3, <2>1, <2>3, <2>4 DEF Typed, SupervisorTypeOK, IslandTypeOK
<1>5. Marked /\ FilesTrue /\ Suspected
  BY <1>2, <1>3 DEF Marked, MarkedBy, FilesTrue, Inside, Suspected
<1>6. Untouched /\ ~RootAlive /\ Running = {} /\ NoAlarm
  BY <1>3 DEF Untouched, RootAlive, Running, NoAlarm
<1>7. Slice1Ordered \/ program # "slice1"
  BY <1>1, <1>2, <1>3, <1>6 DEF Slice1Ordered, Succession
<1>8. Slice2Ordered \/ program # "slice2"
  BY <1>1, <1>2, <1>3, <1>6 DEF Slice2Ordered
<1>9. Slice3Ordered \/ program # "slice3"
  BY <1>1, <1>2, <1>3, <1>6 DEF Slice3Ordered, Succession
<1>10. Slice3bOrdered \/ program # "slice3b"
  BY <1>1, <1>2, <1>6 DEF Slice3bOrdered
<1>11. Slice4Ordered \/ program # "slice4"
  BY <1>1, <1>2, <1>3, <1>6 DEF Slice4Ordered, Succession, Working, Joining4
<1>12. Rep65Ordered
  BY <1>2, <1>3, <1>6 DEF Rep65Ordered, Conns
<1>13. RepOrdered
  BY <1>6 DEF RepOrdered
<1>14. Passed
  BY <1>2 DEF Passed
<1> QED BY <1>4, <1>5, <1>7, <1>8, <1>9, <1>10, <1>11, <1>12, <1>13, <1>14 DEF IInv, Base, Ordered

\* Nothing happens once a program has ended, nor in a step of somebody else.
LEMMA Stutters ==
  ASSUME IInv, UNCHANGED vars
  PROVE  IInv'
<1>1. UNCHANGED <<place, cluster, root, act, stale, files, finalMembers, faults, log>>
      /\ UNCHANGED <<program, pc, arm, sm, rec, exc, obs, overall, class>>
  BY DEF vars, envVars, islandVars, driverVars
<1>2. Base'
  <2>1. Typed'
    BY <1>1 DEF IInv, Base, Typed, SupervisorTypeOK, IslandTypeOK
  <2>2. Marked'
    BY <1>1, MarkedSame DEF IInv, Base
  <2>3. FilesTrue'
    BY <1>1, FilesKept DEF IInv, Base, Inside
  <2>4. Suspected'
    BY <1>1, SuspectedKept DEF IInv, Base
  <2> QED BY <2>1, <2>2, <2>3, <2>4 DEF Base
<1>3. Ordered'
  <2>1. Running' = Running /\ (RootAlive' <=> RootAlive) /\ (Gone' <=> Gone) /\ (Untouched' <=> Untouched)
        /\ (NoAlarm' <=> NoAlarm)
    BY <1>1 DEF Running, RootAlive, Gone, Untouched, NoAlarm
  <2>2. Slice1Ordered => Slice1Ordered'
    BY <1>1, <2>1 DEF Slice1Ordered, Succession, Beginning, Ok, Has
  <2>3. Slice2Ordered => Slice2Ordered'
    BY <1>1, <2>1 DEF Slice2Ordered, Beginning
  <2>4. Slice3Ordered => Slice3Ordered'
    BY <1>1, <2>1 DEF Slice3Ordered, Succession, Beginning, Truthful, Ok, Has
  <2>5. Slice3bOrdered => Slice3bOrdered'
    BY <1>1, <2>1 DEF Slice3bOrdered, Beginning
  <2>6. Slice4Ordered => Slice4Ordered'
    <3>1. (EventDue' <=> EventDue) /\ (Missed' <=> Missed)
      BY <1>1 DEF EventDue, Missed, Beginning, Has
    <3>2. (ConnADue' <=> ConnADue) /\ (ConnBDue' <=> ConnBDue)
      BY <1>1, <3>1 DEF ConnADue, ConnBDue
    <3> QED BY <1>1, <2>1, <3>1, <3>2 DEF Slice4Ordered, Succession, Beginning, Ok, Has
  <2>7. (Rep65Ordered => Rep65Ordered') /\ (RepOrdered => RepOrdered')
    BY <1>1, <2>1 DEF Rep65Ordered, RepOrdered, Beginning
  <2> QED BY <1>1, <2>2, <2>3, <2>4, <2>5, <2>6, <2>7 DEF IInv, Ordered
<1>4. Passed'
  BY <1>1 DEF IInv, Passed, Evidence, NobodyLeft, RootAlive, NoAlarm
<1> QED BY <1>2, <1>3, <1>4 DEF IInv

\* Every step keeps the invariant.
LEMMA IInvKept ==
  ASSUME IInv, [Next]_vars
  PROVE  IInv'
<1>1. CASE Mishaps \/ Processes
  BY <1>1, EnvKeeps
<1>2. CASE Driver
  <2>1. CASE \/ program = "slice1" /\ S1!Driver
             \/ program = "slice2" /\ S2!Driver
             \/ program = "slice4" /\ S4!Driver
    BY <2>1, Slice1Keeps, Slice2Keeps, Slice4Keeps
  <2>2. CASE program \in {"slice3", "slice3b"} /\ S3!Driver
    BY <2>2, Slice3Keeps, Slice3bKeeps DEF S3!Driver
  <2>3. CASE program = "exp65" /\ R65!Driver
    BY <2>3, Exp65Keeps
  <2>4. CASE program = "exp66" /\ R66!Driver
    BY <2>4, Exp66Keeps
  <2>5. CASE program = "exp67" /\ R67!Driver
    BY <2>5, Exp67Keeps
  <2>6. CASE program = "exp68" /\ R68!Driver
    BY <2>6, Exp68Keeps
  <2>7. CASE R69!Driver
    BY <2>7, Exp69Keeps
  <2> QED BY <1>2, <2>1, <2>2, <2>3, <2>4, <2>5, <2>6, <2>7 DEF Driver
<1>3. CASE Ended \/ UNCHANGED vars
  BY <1>3, Stutters DEF Ended
<1> QED BY <1>1, <1>2, <1>3 DEF Next

\* What every marker, file, order and verdict of the drivers rests on (the
\* records of run_slice1.py to run_slice4.py and run_exp65.py to run_exp69.py).
THEOREM IslandInvariant == Spec => []IInv
<1>1. Init => IInv
  BY IInvAtFirst
<1>2. IInv /\ [Next]_vars => IInv'
  BY IInvKept
<1> QED BY <1>1, <1>2, PTL DEF Spec

\* Slice 3: the terminal event is one of the document.
LEMMA EventSound ==
  ASSUME IInv
  PROVE  Slice3EventSound
<1> SUFFICES ASSUME NEW i \in S3!Terminals(arm)
             PROVE  /\ S3!Events(arm)[i].label = "graceful_departure" => <<arm, "b", "left">> \in log
                    /\ S3!Events(arm)[i].label = "unexpected_loss" => act["b"] \in {"dying", "dead"}
  BY DEF Slice3EventSound
<1> DEFINE x == <<arm, "run", "events">>
<1>1. x \in DOMAIN rec /\ S3!Events(arm) = rec[x] /\ i \in DOMAIN rec[x] /\ rec[x][i].kind = "DEPARTED"
  <2>1. i \in DOMAIN S3!Events(arm) /\ S3!Events(arm)[i].kind = "DEPARTED"
    BY DEF S3!Terminals, S3!observe_events
  <2>2. CASE x \in DOMAIN rec
    BY <2>1, <2>2 DEF S3!Events
  <2>3. CASE x \notin DOMAIN rec
    <3>1. S3!Events(arm) = << >>
      BY <2>3 DEF S3!Events
    <3> QED BY <2>1, <3>1
  <2> QED BY <2>2, <2>3
<1>2. program = "slice3"
  <2>1. Holds(x, rec[x], log)
    BY <1>1 DEF IInv, Base, Marked, MarkedBy
  <2> QED BY <2>1 DEF Holds
<1>3. Truthful(rec[x][i])
  BY <1>1, <1>2 DEF IInv, Ordered, Slice3Ordered
<1>4. arm \in {"graceful", "loss"}
  BY <1>2 DEF IInv, Ordered, Slice3Ordered, Succession
<1> QED BY <1>1, <1>3 DEF Truthful

\* The state keeps its types; slice 2 publishes the completion of the work
\* before a connector leaves (publish_complete, then the stops); a
\* repetition starts from nothing (the clean-up of the one before).
THEOREM IslandOrderKept == Spec => []OrderKept
<1>1. IInv => OrderKept
  <2> SUFFICES ASSUME IInv PROVE OrderKept
    OBVIOUS
  <2>1. SupervisorTypeOK
    BY DEF IInv, Base, Typed
  <2>2. CompletionBeforeDeparture
    BY DEF CompletionBeforeDeparture, IInv, Ordered, Slice2Ordered
  <2>3. RepIsolation
    <3>1. CASE program = "exp65"
      <4>1. pc = "launch" => ~RootAlive /\ "a" \notin Running /\ act["b"] = "none"
        BY <3>1 DEF IInv, Ordered, Rep65Ordered
      <4> QED BY <4>1 DEF RepIsolation, Running, Conns
    <3>2. CASE program # "exp65"
      BY <3>2 DEF RepIsolation, IInv, Ordered, RepOrdered
    <3> QED BY <3>1, <3>2
  <2> QED BY <2>1, <2>2, <2>3 DEF OrderKept
<1> QED BY <1>1, IslandInvariant, PTL

\* The terminal event of slice 3 is true of the connector, and slice 4
\* suspects a root that is alive only after its refresh loop was starved
\* (classify_departure, observe_root_event).
THEOREM IslandEventsTrue == Spec => []EventsTrue
<1>1. IInv => EventsTrue
  <2> SUFFICES ASSUME IInv PROVE EventsTrue
    OBVIOUS
  <2>1. NoFalseSuspicion
    <3>1. Suspected
      BY DEF IInv, Base
    <3> QED BY <3>1 DEF Suspected, NoFalseSuspicion
  <2> QED BY <2>1, EventSound DEF EventsTrue
<1> QED BY <1>1, IslandInvariant, PTL

\* A verdict of pass, a slice's overall or a repetition's class, rests on what
\* the processes really did (rollup of the slices, classify_rep).
THEOREM IslandVerdictSound == Spec => []VerdictSound
<1>1. IInv => VerdictSound
  <2> SUFFICES ASSUME IInv PROVE VerdictSound
    OBVIOUS
  <2>1. program \in Slices /\ overall = "pass" =>
          /\ Evidence[program] \subseteq log
          /\ program # "slice3b" => NobodyLeft
          /\ \A e \in log : e[3] \notin {"overlap", "suspected_alive"}
    BY DEF IInv, Passed, NoAlarm, Alarms
  <2>2. ASSUME NEW i \in DOMAIN Reps, Has(Reps[i], "rep", "class", "pass")
        PROVE  RepEvidence(Reps[i]) \subseteq log
    <3>1. Holds(<<Reps[i], "rep", "class">>, "pass", log)
      BY <2>2, Told DEF IInv, Base
    <3> DEFINE r == Reps[i]
    <3>2. Holds(<<r, "rep", "class">>, "pass", log)
      BY <3>1
    <3> HIDE DEF r
    <3>3. RepEvidence(r) \subseteq log
      BY <3>2 DEF Holds
    <3> QED BY <3>3 DEF r
  <2> QED BY <2>1, <2>2 DEF VerdictSound
<1> QED BY <1>1, IslandInvariant, PTL

=============================================================================
