------------------------------- MODULE Exp61 -------------------------------
(***************************************************************************)
(* The arms of experiment 61: k timed calls across the Python boundary at  *)
(* queue depth one, against an HPX locality in the process, on another     *)
(* node or on the same one, and against a Ray actor placed likewise.  Each *)
(* arm writes one artifact; pairing them is Evidence's matter.             *)
(***************************************************************************)
EXTENDS Arm

Prewarm == 1    \* the first call, whose result is checked too
Warm == 1       \* args.w warm-up calls, whose results nobody looks at

HpxArms61 == {"hpx_smoke", "connected", "colocated"}
RayArms61 == {"ray_smoke", "ray_remote", "ray_colocated"}

\* The payload every arm starts from: nothing exercised, nothing verified.
_fence_fields(overall) == [overall |-> overall]
_connected_base_payload(overall) ==
    _fence_fields(overall) @@ [exercised |-> FALSE, oracle |-> FALSE]
_ray_remote_base_payload(overall) ==
    _fence_fields(overall) @@ [exercised |-> FALSE, oracle |-> FALSE]
_colocated_base_payload(overall) ==
    _fence_fields(overall) @@ [exercised |-> FALSE, oracle |-> FALSE, nodelay |-> FALSE, disjoint |-> FALSE]
_ray_colocated_base_payload(overall) ==
    _fence_fields(overall) @@ [exercised |-> FALSE, oracle |-> FALSE]

\* The smokes print a skip and write nothing, the others write an artifact.
phase_hpx_connected == Precondition(<<_connected_base_payload("skip")>>)
phase_hpx_colocated == Precondition(<<_colocated_base_payload("skip")>>)
RaySkipped61 ==
    CASE arm = "ray_smoke" -> <<>>
      [] arm = "ray_remote" -> <<_ray_remote_base_payload("skip")>>
      [] OTHER -> <<_ray_colocated_base_payload("skip")>>

-----------------------------------------------------------------------------
(* The timed loop, the same for both arms.                                 *)

\* Whichever arm runs, through HPX's driver or through ray.get.
timed_qd1 ==
    /\ At("call")
    /\ \E out \in {"ok", "wrong", "raised"} :
         /\ IF arm \in RayArms61 THEN RayAnswer(out) ELSE Answer(out)
         /\ IF out = "raised" THEN err' = TRUE /\ Goto("finally")
            ELSE /\ UNCHANGED err
                 /\ IF Len(calls) + 1 = Prewarm + Warm + K THEN Goto("finally") ELSE UNCHANGED pc

Timed == SubSeq(calls, Prewarm + Warm + 1, Len(calls))
PrewarmCorrect == Len(calls) >= Prewarm /\ calls[Prewarm] = "ok"
\* Faulty variant: only the last answer is kept.
LastOracleCorrect == Len(Timed) = K /\ Timed[K] = "ok"

OracleCorrect == K > 0 /\ Len(Timed) = K /\ \A i \in 1..Len(Timed) : Timed[i] = "ok"

-----------------------------------------------------------------------------
(* The co-located root pins itself before HPX starts: sched_setaffinity    *)
(* may fail, which sets error and goes on, or be refused silently.         *)

_enforce_root_affinity ==
    /\ At("start") /\ arm = "colocated" /\ "affinity" \notin seen /\ "unpinned" \notin seen
    /\ \/ seen' = seen \cup {"affinity"} /\ NoFault /\ UNCHANGED <<err, bad>>
       \/ Fault /\ seen' = seen \cup {"unpinned"} /\ bad' = bad \cup {"bound"} /\ err' \in {err, TRUE}
    /\ UNCHANGED <<pc, calls, art>> /\ SameHpx /\ SameArm

StartPinned == {"affinity", "unpinned"} \cap seen # {} /\ StartRoot

_nodelay_verified_from_attest == "nodelay" \in attest[Remotes[1]]
_affinity_enforced == "cpuset" \in attest[Remotes[1]]
_disjoint_binding_verified == "affinity" \in seen /\ _affinity_enforced

-----------------------------------------------------------------------------
(* The verdicts.                                                           *)

HpxCommon == /\ "started" \in seen /\ "joined" \in seen
             /\ PrewarmCorrect /\ OracleCorrect /\ ~err

phase_hpx_smoke == <<_fence_fields(IF HpxCommon /\ root = "off" THEN "pass" ELSE "fail")>>

\* root_extra is assigned after the two checks that may raise, and is part
\* of the payload: when they raised, building the payload raises too.
_run_hpx_connected_two_node ==
    IF "unresolved" \in seen THEN <<>>
    ELSE LET pass == HpxCommon
         IN  <<[overall |-> IF pass THEN "pass" ELSE "fail", exercised |-> TRUE,
                oracle |-> OracleCorrect /\ ~err]>>

_run_hpx_colocated_one_node ==
    LET pass == HpxCommon /\ _nodelay_verified_from_attest /\ _disjoint_binding_verified
    IN  <<[overall |-> IF pass THEN "pass" ELSE "fail", exercised |-> TRUE,
           oracle |-> OracleCorrect /\ ~err,
           nodelay |-> _nodelay_verified_from_attest, disjoint |-> _disjoint_binding_verified]>>

phase_ray_smoke == <<_fence_fields(IF "started" \in seen /\ PrewarmCorrect /\ OracleCorrect /\ ~err
                                   THEN "pass" ELSE "fail")>>
phase_ray_remote ==
    LET pass == {"placed", "subnet"} \subseteq seen /\ PrewarmCorrect /\ OracleCorrect /\ ~err
    IN  <<[overall |-> IF pass THEN "pass" ELSE "fail", exercised |-> TRUE, oracle |-> OracleCorrect /\ ~err]>>
phase_ray_colocated ==
    LET pass == "placed" \in seen /\ PrewarmCorrect /\ OracleCorrect /\ ~err
    IN  <<[overall |-> IF pass THEN "pass" ELSE "fail", exercised |-> TRUE, oracle |-> OracleCorrect /\ ~err]>>

RayVerdict61 ==
    CASE arm = "ray_smoke" -> phase_ray_smoke
      [] arm = "ray_remote" -> phase_ray_remote
      [] OTHER -> phase_ray_colocated

-----------------------------------------------------------------------------
(* The Ray arms connect to a running cluster: no allocation, no Ray, no    *)
(* connection and too few nodes are skips, except in the smoke, which      *)
(* starts Ray itself and records the failure.                              *)

RayConnect ==
    /\ At("pre")
    /\ \/ ray' = "on" /\ Proceed("place") /\ NoFault /\ seen' = seen \cup {"started"} /\ UNCHANGED art
       \/ Proceed("done") /\ NoFault /\ art' = RaySkipped61 /\ UNCHANGED <<ray, seen>>
       \/ arm = "ray_smoke" /\ Fault /\ Raise("start") /\ UNCHANGED <<ray, seen, art>>
       \/ arm # "ray_smoke" /\ Fault /\ Proceed("done") /\ art' = RaySkipped61 /\ UNCHANGED <<ray, seen>>
    /\ UNCHANGED <<arm, calls>> /\ SameHpx

\* Where the actor runs is sampled a few times; one sample on the right
\* node is enough, none raises; each is a ray.get without a timeout, which
\* may not come back.  The addresses are only compared.
RayPlace ==
    /\ At("place")
    /\ \/ arm = "ray_smoke" /\ Proceed("call") /\ NoFault /\ UNCHANGED seen
       \/ arm # "ray_smoke" /\ Proceed("call") /\ NoFault /\ seen' = seen \cup {"placed", "subnet"}
       \/ arm # "ray_smoke" /\ Fault /\ Raise("misplaced") /\ seen' = seen \cup {"subnet"}
       \/ /\ arm = "ray_remote" /\ Fault /\ Goto("call") /\ UNCHANGED err
          /\ seen' = seen \cup {"placed"} /\ bad' = bad \cup {"offsubnet"}
       \/ /\ arm # "ray_smoke" /\ Fault /\ Goto("blocked")
          /\ bad' = bad \cup {"hung"} /\ UNCHANGED <<err, seen>>
    /\ UNCHANGED <<calls, art>> /\ SameHpx /\ SameArm

\* finally: the actor is killed, ray.shutdown(), whose exception is kept.
RayLeave ==
    /\ At("finally")
    /\ \/ ray' = "off" /\ NoFault /\ UNCHANGED <<err, bad>>
       \/ ray # "off" /\ Fault /\ ray' = "left" /\ err' = TRUE /\ bad' = bad \cup {"shutdown"}
    /\ Goto("write")
    /\ UNCHANGED <<arm, calls, seen, art>> /\ SameHpx

-----------------------------------------------------------------------------

\* Each driver, as the steps of its body.
Smoke61 ==
    /\ arm = "hpx_smoke"
    /\ \/ Precondition(<<>>) \/ StartRoot \/ Launch \/ Await
       \/ timed_qd1 \/ CallHangs({}) \/ Finally({}) \/ Reap \/ StopRoot \/ Write(phase_hpx_smoke)
Connected61 ==
    /\ arm = "connected"
    /\ \/ phase_hpx_connected \/ StartRoot \/ Launch \/ Await
       \/ timed_qd1 \/ CallHangs(Targets) \/ Finally({"served1"}) \/ Reap \/ StopRoot
       \/ Write(_run_hpx_connected_two_node)
Colocated61 ==
    /\ arm = "colocated"
    /\ \/ phase_hpx_colocated \/ _enforce_root_affinity \/ StartPinned \/ Launch \/ Await
       \/ timed_qd1 \/ CallHangs(Targets) \/ Finally({"served1"}) \/ Reap \/ StopRoot
       \/ Write(_run_hpx_colocated_one_node)

Hpx61 == Smoke61 \/ Connected61 \/ Colocated61

Ray61 ==
    /\ arm \in RayArms61
    /\ RayConnect \/ RayPlace \/ timed_qd1 \/ CallHangs({}) \/ RayLeave \/ Write(RayVerdict61)

=============================================================================
