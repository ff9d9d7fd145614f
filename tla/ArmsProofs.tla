----------------------------- MODULE ArmsProofs -----------------------------
(***************************************************************************)
(* Proofs about MCArms, for any hosts, calls and number of faults: an      *)
(* invocation that ends has reaped its clients and stopped its root, and a *)
(* connector that still runs is one whose client had to be killed.  The    *)
(* argument needs only the control of the drivers: HpxControl and          *)
(* RayControl are what they share, and each is shown to follow one of      *)
(* them.                                                                   *)
(***************************************************************************)
EXTENDS MCArms, TLAPS

HpxArms == E61!HpxArms61 \cup E62!HpxArms62 \cup E63!Arms63 \cup E64!Poll64 \cup E64!Native64
RayArms == E61!RayArms61 \cup E62!RayArms62 \cup E64!Ray64Arms

\* The steps of an HPX driver, as far as they concern the root, the clients
\* and the connectors: the finally clause reaps before it stops.
HpxControl ==
    /\ arm \in HpxArms /\ UNCHANGED <<arm, ray>>
    /\ \/ At("pre") /\ pc' \in {"start", "done", "finally"} /\ UNCHANGED <<root, client, conn>>
       \/ At("start") /\ pc' \in {"start", "finally"} /\ UNCHANGED <<root, client, conn>>
       \/ At("start") /\ Goto("launch") /\ root' = "on" /\ UNCHANGED <<client, conn>>
       \/ At("launch") /\ pc' \in {"launch", "await", "finally"} /\ UNCHANGED <<root, client, conn>>
       \/ /\ At("launch") /\ UNCHANGED <<pc, root>>
          /\ \E r : client' = [client EXCEPT ![r] = "up"] /\ conn' = [conn EXCEPT ![r] = "up"]
       \/ pc \in {"await", "call"} /\ pc' \in {"call", "finally", "blocked"} /\ UNCHANGED <<root, client, conn>>
       \/ At("finally") /\ Goto("reap") /\ UNCHANGED <<root, client, conn>>
       \/ /\ At("reap") /\ UNCHANGED <<pc, root, conn>>
          /\ \E r : \/ client' = [client EXCEPT ![r] = "killed"]
                    \/ (client' = [client EXCEPT ![r] = "ended"] /\ conn[r] \notin Live)
       \/ At("reap") /\ Goto("stop") /\ UNCHANGED <<root, client, conn>> /\ \A r \in Hosts : client[r] # "up"
       \/ At("stop") /\ Goto("write") /\ root' # "on" /\ UNCHANGED <<client, conn>>
       \/ At("stop") /\ Goto("blocked") /\ UNCHANGED <<root, client, conn>>
       \/ At("write") /\ Goto("done") /\ UNCHANGED <<root, client, conn>>

\* Those of a Ray driver: before it writes, its finally clause ends Ray or
\* finds what it left behind.
RayControl ==
    /\ arm \in RayArms /\ UNCHANGED <<arm, root, client, conn>>
    /\ \/ At("pre") /\ pc' \in {"ray", "place", "finally"} /\ ray' \in {ray, "on"}
       \/ At("pre") /\ Goto("done") /\ UNCHANGED ray
       \/ pc \in {"ray", "place", "call"} /\ pc' \in {"call", "finally", "blocked"} /\ ray' \in {ray, "on", "off"}
       \/ At("finally") /\ Goto("write") /\ ray' \in {"off", "left"}
       \/ At("write") /\ Goto("done") /\ UNCHANGED ray

-----------------------------------------------------------------------------
(* The drivers follow it.                                                  *)

\* Experiment 61, the co-located arm pinning itself first.
LEMMA Control61 == E61!Hpx61 => HpxControl
<1> SUFFICES ASSUME E61!Hpx61 PROVE HpxControl
  OBVIOUS
<1> USE DEF E61!At, E61!Goto, E61!Proceed, E61!SameHpx, E61!SameArm, HpxControl, At, Goto
<1>1. arm \in HpxArms
  BY DEF E61!Hpx61, E61!Smoke61, E61!Connected61, E61!Colocated61, HpxArms, E61!HpxArms61
<1>2. CASE E61!Precondition(<<>>) \/ E61!phase_hpx_connected \/ E61!phase_hpx_colocated
  BY <1>1, <1>2 DEF E61!phase_hpx_connected, E61!phase_hpx_colocated, E61!Precondition, E61!Raise
<1>3. CASE E61!StartRoot \/ E61!StartPinned \/ E61!_enforce_root_affinity
  BY <1>1, <1>3 DEF E61!StartPinned, E61!_enforce_root_affinity, E61!StartRoot, E61!Raise
<1>4. CASE E61!Launch
  BY <1>1, <1>4 DEF E61!Launch, E61!Raise, E61!SameLog
<1>5. CASE E61!Await
  BY <1>1, <1>5 DEF E61!Await, E61!Raise
<1>6. CASE E61!timed_qd1 \/ E61!CallHangs({}) \/ E61!CallHangs(E61!Targets)
  BY <1>1, <1>6 DEF E61!timed_qd1, E61!RayAnswer, E61!RayAnswerAs, E61!Answer, E61!AnswerFrom, E61!CallHangs
<1>7. CASE E61!Finally({}) \/ E61!Finally({"served1"})
  BY <1>1, <1>7 DEF E61!Finally, E61!SameLog
<1>8. CASE E61!Reap
  <2>1. E61!ToReap = {} => \A r \in Hosts : client[r] # "up"
    BY DEF E61!ToReap, Hosts
  <2> QED BY <1>1, <1>8, <2>1 DEF E61!Reap, E61!ClientEnds, E61!SameLog, E61!Live, Live
<1>9. CASE E61!StopRoot
  BY <1>1, <1>9 DEF E61!StopRoot, E61!SameLog
<1>10. CASE \/ E61!Write(E61!phase_hpx_smoke)
            \/ E61!Write(E61!_run_hpx_connected_two_node)
            \/ E61!Write(E61!_run_hpx_colocated_one_node)
  BY <1>1, <1>10 DEF E61!Write
<1> QED BY <1>2, <1>3, <1>4, <1>5, <1>6, <1>7, <1>8, <1>9, <1>10
       DEF E61!Hpx61, E61!Smoke61, E61!Connected61, E61!Colocated61

\* Experiment 62.
LEMMA Control62 == E62!Hpx62 => HpxControl
<1> SUFFICES ASSUME E62!Hpx62 PROVE HpxControl
  OBVIOUS
<1> USE DEF E62!At, E62!Goto, E62!Proceed, E62!SameHpx, E62!SameArm, HpxControl, At, Goto
<1>1. arm \in HpxArms
  BY DEF E62!Hpx62, E62!LocalSmoke62, E62!RemoteIsland62, E62!MultiRemoteIsland62, HpxArms,
         E62!HpxArms62
<1>2. CASE E62!Precondition(<<>>) \/ E62!_hpx_remote_preconditions
  BY <1>1, <1>2 DEF E62!_hpx_remote_preconditions, E62!Precondition, E62!Raise
<1>3. CASE E62!StartRoot
  BY <1>1, <1>3 DEF E62!StartRoot, E62!Raise
<1>4. CASE E62!Launch
  BY <1>1, <1>4 DEF E62!Launch, E62!Raise, E62!SameLog
<1>5. CASE E62!Await
  BY <1>1, <1>5 DEF E62!Await, E62!Raise
<1>6. CASE E62!fanout_calls \/ E62!CallHangs({})
  BY <1>1, <1>6 DEF E62!fanout_calls, E62!Answer, E62!AnswerFrom, E62!CallHangs
<1>7. CASE E62!Finally({}) \/ E62!Finally({"served1"})
  BY <1>1, <1>7 DEF E62!Finally, E62!SameLog
<1>8. CASE E62!Reap
  <2>1. E62!ToReap = {} => \A r \in Hosts : client[r] # "up"
    BY DEF E62!ToReap, Hosts
  <2> QED BY <1>1, <1>8, <2>1 DEF E62!Reap, E62!ClientEnds, E62!SameLog, E62!Live, Live
<1>9. CASE E62!StopRoot
  BY <1>1, <1>9 DEF E62!StopRoot, E62!SameLog
<1>10. CASE \/ E62!Write(E62!run_hpx_local_smoke)
            \/ E62!Write(IF arm = "fanout62" THEN E62!run_hpx_fanout ELSE E62!run_hpx_remote_smoke)
            \/ E62!Write(IF arm = "mr_fanout62" THEN E62!run_hpx_multi_remote_fanout ELSE E62!run_hpx_multi_remote_smoke)
  BY <1>1, <1>10 DEF E62!Write
<1> QED BY <1>2, <1>3, <1>4, <1>5, <1>6, <1>7, <1>8, <1>9, <1>10
       DEF E62!Hpx62, E62!LocalSmoke62, E62!RemoteIsland62, E62!MultiRemoteIsland62

\* Experiment 63.
LEMMA Control63 == E63!Hpx63 => HpxControl
<1> SUFFICES ASSUME E63!Hpx63 PROVE HpxControl
  OBVIOUS
<1> USE DEF E63!At, E63!Goto, E63!Proceed, E63!SameHpx, E63!SameArm, HpxControl, At, Goto
<1>1. arm \in HpxArms
  BY DEF E63!Hpx63, E63!ProgressConfig63, E63!A1Diag63, E63!NativeComposition63,
         E63!TreeOfPartials63, HpxArms, E63!Arms63, E63!Progress63, E63!Hardened63,
         E63!Diag63
<1>2. CASE E63!_progress_preconditions
  BY <1>1, <1>2 DEF E63!_progress_preconditions, E63!Precondition, E63!Raise
<1>3. CASE E63!StartRoot
  BY <1>1, <1>3 DEF E63!StartRoot, E63!Raise
<1>4. CASE E63!Launch
  BY <1>1, <1>4 DEF E63!Launch, E63!Raise, E63!SameLog
<1>5. CASE E63!Await
  BY <1>1, <1>5 DEF E63!Await, E63!Raise
<1>6. CASE E63!_drive_progress_config \/ E63!HardenedCalls
  BY <1>1, <1>6 DEF E63!_drive_progress_config, E63!HardenedCalls, E63!Answer, E63!AnswerFrom
<1>7. CASE E63!Finally(E63!Markers63)
  BY <1>1, <1>7 DEF E63!Finally, E63!SameLog
<1>8. CASE E63!Reap
  <2>1. E63!ToReap = {} => \A r \in Hosts : client[r] # "up"
    BY DEF E63!ToReap, Hosts
  <2> QED BY <1>1, <1>8, <2>1 DEF E63!Reap, E63!ClientEnds, E63!SameLog, E63!Live, Live
<1>9. CASE E63!StopRoot
  BY <1>1, <1>9 DEF E63!StopRoot, E63!SameLog
<1>10. CASE \/ E63!Write(E63!build_progress_config_artifact)
            \/ E63!Write(E63!_drive_a1_diag)
            \/ E63!Write(E63!_drive_native_composition)
            \/ E63!Write(E63!_drive_tree_of_partials)
  BY <1>1, <1>10 DEF E63!Write
<1> QED BY <1>2, <1>3, <1>4, <1>5, <1>6, <1>7, <1>8, <1>9, <1>10
       DEF E63!Hpx63, E63!ProgressConfig63, E63!A1Diag63, E63!NativeComposition63,
         E63!TreeOfPartials63

\* Experiment 64.
LEMMA Control64 == E64!Hpx64 => HpxControl
<1> SUFFICES ASSUME E64!Hpx64 PROVE HpxControl
  OBVIOUS
<1> USE DEF E64!At, E64!Goto, E64!Proceed, E64!SameHpx, E64!SameArm, HpxControl, At, Goto
<1>1. arm \in HpxArms
  BY DEF E64!Hpx64, E64!RemoteSmoke64, E64!NativeSmoke64, HpxArms
<1>2. CASE E64!_payload_preconditions
  BY <1>1, <1>2 DEF E64!_payload_preconditions, E64!Precondition, E64!Raise
<1>3. CASE E64!StartRoot
  BY <1>1, <1>3 DEF E64!StartRoot, E64!Raise
<1>4. CASE E64!Launch
  BY <1>1, <1>4 DEF E64!Launch, E64!Raise, E64!SameLog
<1>5. CASE E64!Await
  BY <1>1, <1>5 DEF E64!Await, E64!Raise
<1>6. CASE E64!_size_calls \/ E64!_size_calls_native
  BY <1>1, <1>6 DEF E64!_size_calls, E64!_size_calls_native, E64!AnswerFrom
<1>7. CASE E64!Finally(E64!Markers64)
  BY <1>1, <1>7 DEF E64!Finally, E64!SameLog
<1>8. CASE E64!Reap
  <2>1. E64!ToReap = {} => \A r \in Hosts : client[r] # "up"
    BY DEF E64!ToReap, Hosts
  <2> QED BY <1>1, <1>8, <2>1 DEF E64!Reap, E64!ClientEnds, E64!SameLog, E64!Live, Live
<1>9. CASE E64!StopRoot
  BY <1>1, <1>9 DEF E64!StopRoot, E64!SameLog
<1>10. CASE \/ E64!Write(E64!_drive_payload_remote_smoke)
            \/ E64!Write(E64!_drive_payload_native_smoke)
  BY <1>1, <1>10 DEF E64!Write
<1> QED BY <1>2, <1>3, <1>4, <1>5, <1>6, <1>7, <1>8, <1>9, <1>10
       DEF E64!Hpx64, E64!RemoteSmoke64, E64!NativeSmoke64

\* Experiment 61 joins a cluster that runs.
LEMMA RayControl61 == E61!Ray61 => RayControl
<1> SUFFICES ASSUME E61!Ray61 PROVE RayControl
  OBVIOUS
<1> USE DEF E61!At, E61!Goto, E61!Proceed, E61!SameHpx, E61!SameArm, RayControl, At, Goto
<1>1. arm \in RayArms
  BY DEF E61!Ray61, RayArms, E61!RayArms61
<1>2. CASE E61!RayConnect
  BY <1>1, <1>2 DEF E61!RayConnect, E61!Raise
<1>3. CASE E61!RayPlace
  BY <1>1, <1>3 DEF E61!RayPlace, E61!Raise
<1>4. CASE E61!timed_qd1 \/ E61!CallHangs({})
  BY <1>1, <1>4 DEF E61!timed_qd1, E61!RayAnswer, E61!RayAnswerAs, E61!Answer, E61!AnswerFrom, E61!CallHangs
<1>5. CASE E61!RayLeave
  BY <1>1, <1>5 DEF E61!RayLeave
<1>6. CASE E61!Write(E61!RayVerdict61)
  BY <1>1, <1>6 DEF E61!Write
<1> QED BY <1>2, <1>3, <1>4, <1>5, <1>6
       DEF E61!Ray61

\* Experiment 62 starts one; its islands are written as they are called.
LEMMA RayControl62 == E62!Ray62 => RayControl
<1> SUFFICES ASSUME E62!Ray62 PROVE RayControl
  OBVIOUS
<1> USE DEF E62!At, E62!Goto, E62!Proceed, E62!SameHpx, E62!SameArm, RayControl, At, Goto
<1>1. arm \in RayArms
  BY DEF E62!Ray62, E62!RayFanout62, E62!RayMultiRemoteFanout62, RayArms, E62!RayArms62
<1>2. CASE E62!RayPrecondition62
  BY <1>1, <1>2 DEF E62!RayPrecondition62
<1>3. CASE E62!RayStart
  BY <1>1, <1>3 DEF E62!RayStart, E62!Raise
<1>4. CASE E62!run_ray_fanout \/ E62!run_ray_local_smoke \/ E62!CallHangs({})
  BY <1>1, <1>4 DEF E62!run_ray_fanout, E62!run_ray_local_smoke, E62!RayAnswer, E62!RayAnswerAs, E62!CallHangs
<1>5. CASE E62!RayFinally
  BY <1>1, <1>5 DEF E62!RayFinally
<1>6. CASE E62!RayStatus62
  BY <1>1, <1>6 DEF E62!RayStatus62
<1> QED BY <1>2, <1>3, <1>4, <1>5, <1>6
       DEF E62!Ray62, E62!RayFanout62, E62!RayMultiRemoteFanout62

\* Experiment 64 starts one too.
LEMMA RayControl64 == E64!Ray64 => RayControl
<1> SUFFICES ASSUME E64!Ray64 PROVE RayControl
  OBVIOUS
<1> USE DEF E64!At, E64!Goto, E64!Proceed, E64!SameHpx, E64!SameArm, RayControl, At, Goto
<1>1. arm \in RayArms
  BY DEF E64!Ray64, RayArms, E64!Ray64Arms
<1>2. CASE E64!RayPrecondition64
  BY <1>1, <1>2 DEF E64!RayPrecondition64, E64!Raise, E64!SameLog
<1>3. CASE E64!RayStart
  BY <1>1, <1>3 DEF E64!RayStart, E64!Raise
<1>4. CASE E64!RaySubmit
  BY <1>1, <1>4 DEF E64!RaySubmit, E64!RayAnswerAs
<1>5. CASE E64!RayFinally
  BY <1>1, <1>5 DEF E64!RayFinally
<1>6. CASE E64!Write(E64!run_ray_payload_smoke)
  BY <1>1, <1>6 DEF E64!Write
<1> QED BY <1>2, <1>3, <1>4, <1>5, <1>6
       DEF E64!Ray64

-----------------------------------------------------------------------------
(* What holds between the steps.                                           *)

\* The clients of an HPX driver and the tasks they run: a client that ended
\* by itself has no task left, one that is not reaped is still held, and none
\* is held any more when the root is to be stopped.  A Ray driver has neither.
ArmTypes ==
    /\ arm \in Arms /\ conn \in [Hosts -> ConnStates]
    /\ client \in [Hosts -> {"none", "up", "ended", "killed"}]
ClientsHeld ==
    \A r \in Hosts : /\ client[r] = "none" => conn[r] = "none"
                     /\ client[r] = "ended" => conn[r] \notin Live
                     /\ pc \in {"stop", "write", "done"} => client[r] # "up"
ArmInv ==
    /\ ArmTypes /\ ClientsHeld
    /\ arm \in HpxArms =>
         /\ ray = "off"
         /\ pc \in {"pre", "start"} => root = "off" /\ \A r \in Hosts : client[r] = "none"
         /\ pc \in {"write", "done"} => root # "on"
    /\ arm \in RayArms =>
         /\ root = "off" /\ \A r \in Hosts : client[r] = "none"
         /\ At("pre") => ray = "off"
         /\ pc \in {"write", "done"} => ray # "on"

\* Every arm is one or the other.
LEMMA TwoKinds == Arms = HpxArms \cup RayArms /\ HpxArms \cap RayArms = {}
  BY DEF Arms, HpxArms, RayArms, E61!HpxArms61, E61!RayArms61, E62!HpxArms62, E62!RayArms62, E63!Arms63,
         E63!Progress63, E63!Hardened63, E63!Diag63, E64!Arms64, E64!Poll64, E64!Native64, E64!Ray64Arms

LEMMA InitArm == Init => ArmInv
  BY DEF Init, ArmInit, ArmInv, ArmTypes, ClientsHeld, ConnStates, At, Live

\* A driver's own step.
LEMMA DriverKeeps == ASSUME ArmInv, Driver PROVE ArmInv'
<1>1. HpxControl \/ RayControl
  BY Control61, Control62, Control63, Control64, RayControl61, RayControl62, RayControl64 DEF Driver
<1>2. CASE HpxControl
  <2>1. arm \in HpxArms /\ arm \notin RayArms /\ arm' = arm
    BY <1>2, TwoKinds DEF HpxControl
  <2>2. ArmTypes'
    BY <1>2 DEF HpxControl, ArmInv, ArmTypes, ConnStates
  <2>3. ray' = "off" /\ pc' \notin {"pre"}
    BY <1>2, <2>1 DEF HpxControl, ArmInv, At, Goto
  <2>4. pc' = "start" => root' = "off" /\ \A r \in Hosts : client'[r] = "none"
    BY <1>2, <2>1 DEF HpxControl, ArmInv, At, Goto
  <2>5. ClientsHeld'
    BY <1>2, <2>1 DEF HpxControl, ArmInv, ArmTypes, ClientsHeld, At, Goto, Live
  <2>6. pc' \in {"write", "done"} => root' # "on"
    BY <1>2, <2>1 DEF HpxControl, ArmInv, At, Goto
  <2> QED BY <2>1, <2>2, <2>3, <2>4, <2>5, <2>6 DEF ArmInv, At
<1>3. CASE RayControl
  <2>1. arm \in RayArms /\ arm \notin HpxArms
    BY <1>3, TwoKinds DEF RayControl
  <2> QED BY <1>3, <2>1 DEF RayControl, ArmInv, ArmTypes, ClientsHeld, At, Goto
<1> QED BY <1>1, <1>2, <1>3

\* A connector's step: only one that runs takes any, and it takes none back.
LEMMA ConnectorKeeps == ASSUME ArmInv, Processes PROVE ArmInv'
<1>1. PICK r \in Hosts : \/ Join(r) \/ FailJoin(r) \/ Leave(r, Markers) \/ ServeTimeout(r, Markers)
                         \/ Disconnect(r) \/ Crash(r)
  BY DEF Processes, Connectors
<1>2. /\ UNCHANGED <<pc, root, client, arm, ray>>
      /\ conn[r] \in Live
      /\ \E c \in ConnStates : conn' = [conn EXCEPT ![r] = c] /\ c # "none"
  BY <1>1 DEF Join, FailJoin, Leave, ServeTimeout, ServeEnd, Disconnect, Crash, Moves, SameDriver, SameArm, Live, ConnStates
<1> QED BY <1>2 DEF ArmInv, ArmTypes, ClientsHeld, ConnStates, At, Live

LEMMA ArmInductive == ArmInv /\ [Next]_armVars => ArmInv'
<1>1. ArmInv /\ UNCHANGED armVars => ArmInv'
  BY DEF ArmInv, ArmTypes, ClientsHeld, armVars, At
<1> QED BY <1>1, DriverKeeps, ConnectorKeeps DEF Next, Ended

LEMMA ArmSafe == Spec => []ArmInv
  BY InitArm, ArmInductive, PTL DEF Spec

\* An invocation that ends has reaped every srun client and stopped the root
\* or the cluster it could stop; a connector that still runs is one whose
\* client was killed (the finally clauses of the drivers).
THEOREM ArmsLeaveNothing == Spec => []NothingLeft
<1>1. ArmInv => NothingLeft
  BY TwoKinds DEF ArmInv, ArmTypes, ClientsHeld, NothingLeft, At, Live
<1> QED BY <1>1, ArmSafe, PTL
=============================================================================
