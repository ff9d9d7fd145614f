------------------------------ MODULE MCBands -------------------------------
(***************************************************************************)
(* The evidence pipelines of experiments 61 to 64 over two islands and     *)
(* three allocations, two of them on the same nodes, and the oracles and   *)
(* verifiers the artifacts' verdicts rest on.                              *)
(***************************************************************************)
EXTENDS Evidence

CONSTANTS W, B, LEAF_XOR, SCORE_MUL, DEADLINE, PROMPT

O == INSTANCE Oracles

TwoAllocations == {[id |-> 1, nodes |-> 1], [id |-> 2, nodes |-> 1]}
ThreeAllocations == TwoAllocations \cup {[id |-> 3, nodes |-> 2]}

\* The fast payload digest, the blockwise sums and the merged top k are what
\* their references compute, word and byte boundaries included
\* (run_exp64_payload.py payload_digest, run_exp63_collective.py topk_oracle).
ASSUME OraclesAgree ==
    /\ O!DigestExact({0, 5, 11, O!Word - 1}, 0..3, 0..(2 * O!Byte + 1))
    /\ O!FoldsAgree({0, 3, 9, O!Word - 1}, 0..6)
    /\ O!TopkMerges({0, 6, 13}, 0..5, 0..3)

\* The verifier of the waiter fix says only what the timestamps show
\* (verify_waiter_fix.py classify_exp64_call, final_verdict).
SampleCalls ==
    LET call == [ds |-> 1, we |-> 1, ce |-> 2, cc |-> 2, wr |-> 3, rtt |-> 1, ready |-> TRUE]
    IN  {call, [call EXCEPT !.wr = 2 + DEADLINE, !.rtt = 1 + DEADLINE], [call EXCEPT !.cc = 0]}

ASSUME WaiterVerdicts ==
    /\ O!CallVerdictSound(0..4)
    /\ O!FixVerdictSound(SampleCalls)
    /\ O!ProbeVerdictSound(0..5)
=============================================================================
