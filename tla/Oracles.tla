------------------------------ MODULE Oracles ------------------------------
(***************************************************************************)
(* The closed value oracles of experiments 62 to 64, which every arm's     *)
(* answer is held against: wrapped sums of leaf values, the digest of a    *)
(* payload, and the top-k merge.  The word has W bits (64 in the code) and *)
(* the byte B bits (8), so that wrapping happens on small inputs.          *)
(***************************************************************************)
EXTENDS Integers, Sequences, FiniteSets, Bitwise, SequencesExt

CONSTANTS W,        \* bits of a word
          B,        \* bits of a byte
          LEAF_XOR, \* the constant a leaf value is mixed with
          SCORE_MUL,\* the multiplier of a leaf's score
          DEADLINE, \* the margin of the dispatch bound that counts as its end
          PROMPT    \* a continuation that starts sooner was prompt

Word == 2 ^ W
Byte == 2 ^ B

\* Sum of f(0) .. f(n - 1), without wrapping.
SumTo(n, f(_)) == LET s[k \in 0..n] == IF k = 0 THEN 0 ELSE s[k - 1] + f(k - 1) IN s[n]

\* Two's complement of the low W bits.
u64(v) == v % Word
i64(v) == IF u64(v) >= Word \div 2 THEN u64(v) - Word ELSE u64(v)

\* Experiments 62 and 63 do not mask before the sum, experiment 64 does.
leaf_value(x, i) == i64((x ^^ LEAF_XOR) + 2 * i)
leaf_value64(x, i) == i64((u64(x) ^^ LEAF_XOR) + 2 * u64(i))
composite_oracle(x, n) == i64(SumTo(n, LAMBDA i : (x ^^ LEAF_XOR) + 2 * i))
composite_oracle64(x, n) ==
    LET acc[k \in 0..n] == IF k = 0 THEN 0 ELSE u64(acc[k - 1] + (u64(x) ^^ LEAF_XOR) + 2 * u64(k - 1))
    IN  i64(acc[n])

\* A block of leaves, folded where they ran (the tree's partial).
_local_partial_oracle(x, begin, count) ==
    LET acc[k \in 0..count] == IF k = 0 THEN 0 ELSE u64(acc[k - 1] + leaf_value(x, begin + k - 1))
    IN  i64(acc[count])

leaf_vector(x, i, dim) == [d \in 1..dim |-> i64((x ^^ LEAF_XOR) + 2 * i + 4 * (d - 1))]
vector_sum_oracle(x, n, dim) ==
    LET acc[k \in 0..n] == IF k = 0 THEN [d \in 1..dim |-> 0]
                           ELSE [d \in 1..dim |-> i64(acc[k - 1][d] + leaf_vector(x, k - 1, dim)[d])]
    IN  acc[n]

\* Highest score first, the lower index first among equal scores.
leaf_score(x, i) == i64(u64(x ^^ LEAF_XOR) ^^ u64(i * SCORE_MUL))
Before(a, b) == a.score > b.score \/ (a.score = b.score /\ a.i < b.i)
topk_oracle(x, n, k) ==
    LET scored == {[score |-> leaf_score(x, i), i |-> i] : i \in 0..(n - 1)}
        all == SetToSortSeq(scored, Before)
    IN  SubSeq(all, 1, IF k < n THEN k ELSE n)

-----------------------------------------------------------------------------
(* The payload of a leaf is a sawtooth of bytes; its digest is the wrapped *)
(* sum of all bytes of all leaves.                                         *)

payload_byte(x, i, k) == (u64(leaf_value64(x, i)) + u64(k)) % Byte
payload_bytes(x, i, s) == [k \in 1..s |-> (u64(leaf_value64(x, i)) + k - 1) % Byte]

_payload_digest_naive(x, n, s) == i64(SumTo(n, LAMBDA i : SumTo(s, LAMBDA k : payload_byte(x, i, k))))

\* The driver's own fold over the bytes that came back.
fold_payload_digest(leaves) ==
    i64(SumTo(Len(leaves), LAMBDA i : SumTo(Len(leaves[i + 1]), LAMBDA k : leaves[i + 1][k + 1])))

\* A full period sums to the same wherever it starts; only the rest counts.
_FULL_PERIOD_BYTE_SUM == SumTo(Byte, LAMBDA k : k)
payload_digest(x, n, s) ==
    LET full == s \div Byte
        rem == s % Byte
        leaf(i) == LET b0 == u64(leaf_value64(x, i)) % Byte
                   IN  full * _FULL_PERIOD_BYTE_SUM + SumTo(rem, LAMBDA j : (b0 + j) % Byte)
        acc[k \in 0..n] == IF k = 0 THEN 0 ELSE u64(acc[k - 1] + leaf(k - 1))
    IN  i64(acc[n])

-----------------------------------------------------------------------------
(* The verifier of the upstream waiter fix: from the timestamps of a call  *)
(* whether its waiter slept to the bound although the result was ready.  A *)
(* time of 0 was never taken.                                              *)

WAITER_RESUME_AT_TIMEOUT == "waiter_resume_at_timeout"
WAITER_RESUMED_ON_READY == "waiter_resumed_on_ready"
CONTROL_NOT_REPRODUCED == "control_not_reproduced"
INVALID_INSTRUMENTATION == "invalid_instrumentation"
MIXED_RESULT == "mixed_result"
UNRESOLVED == "unresolved"
CLAIM_MODES == {"when_all_then_reduce", "dataflow_reduce"}

instrumentation_ok(c) ==
    LET taken == SelectSeq(<<c.ds, c.ce, c.cc, c.wr>>, LAMBDA t : t > 0)
    IN  /\ c.ds > 0 /\ c.ds <= c.we /\ c.we <= c.wr
        /\ \A i \in 1..Len(taken) - 1 : taken[i] <= taken[i + 1]

waiter_suspended_before_ready(c) == c.cc > 0 /\ c.we < c.cc
continuation_completed(c) == c.ce > 0 /\ c.ce <= c.cc

classify_exp64_call(c) ==
    IF ~(instrumentation_ok(c) /\ continuation_completed(c)) THEN INVALID_INSTRUMENTATION
    ELSE IF ~waiter_suspended_before_ready(c) THEN UNRESOLVED
    ELSE IF c.ce - c.ds < PROMPT /\ c.wr - c.cc >= DEADLINE THEN WAITER_RESUME_AT_TIMEOUT
    ELSE IF c.ready /\ c.wr >= c.cc /\ c.rtt < DEADLINE THEN WAITER_RESUMED_ON_READY
    ELSE UNRESOLVED

OneClass(classes) ==
    IF classes = {} THEN INVALID_INSTRUMENTATION
    ELSE IF Cardinality(classes) = 1 THEN CHOOSE c \in classes : TRUE
    ELSE MIXED_RESULT

classify_exp64_cell(cell) == OneClass({classify_exp64_call(c) : c \in cell.calls})

\* The pinned build must show the defect, the fixed one must not.
Wanted(expectation) ==
    IF expectation = "control_v111" THEN WAITER_RESUME_AT_TIMEOUT ELSE WAITER_RESUMED_ON_READY

NotReproduced(class, passed, expectation) ==
    IF expectation = "control_v111" /\ ~passed /\ class \notin {MIXED_RESULT, INVALID_INSTRUMENTATION}
    THEN CONTROL_NOT_REPRODUCED ELSE class

evaluate_exp64_run(cells, expectation) ==
    LET claims == {c \in cells : c.mode \in CLAIM_MODES}
        controls == cells \ claims
        valid == controls # {} /\ \A c \in controls : c.overall_pass
        class == IF {c.mode : c \in claims} # CLAIM_MODES THEN INVALID_INSTRUMENTATION
                 ELSE OneClass({classify_exp64_cell(c) : c \in claims})
        passed == class = Wanted(expectation) /\ valid
    IN  [run_classification |-> NotReproduced(class, passed, expectation),
         passed |-> passed, controls_valid |-> valid, cells |-> claims]

\* The loopback probe of experiment 65: corroborating only.
classify_exp65_probe(r) ==
    LET suspended == IF r.entry = "unknown" THEN r.rw > 0 /\ r.we < r.rw ELSE r.entry = "unready"
    IN  IF r.probe # "full_bound_instrumented" \/ r.we = 0 \/ r.wr < r.we THEN INVALID_INSTRUMENTATION
        ELSE IF r.returned /\ r.rw = 0 THEN INVALID_INSTRUMENTATION
        ELSE IF ~r.returned \/ ~suspended THEN UNRESOLVED
        ELSE IF r.wr - r.rw >= DEADLINE /\ r.wr - r.we >= DEADLINE THEN WAITER_RESUME_AT_TIMEOUT
        ELSE IF r.wr - r.we < DEADLINE THEN WAITER_RESUMED_ON_READY
        ELSE UNRESOLVED

evaluate_exp65_arm(reps, expectation) ==
    LET class == OneClass({classify_exp65_probe(r) : r \in reps})
        passed == class = Wanted(expectation) /\ \A r \in reps : r.gates
    IN  [arm_classification |-> NotReproduced(class, class = Wanted(expectation), expectation),
         passed |-> passed]

final_verdict(control_eval, master_evals) ==
    LET classes == {m.run_classification : m \in master_evals}
    IN  IF ~control_eval.passed THEN CONTROL_NOT_REPRODUCED
        ELSE IF master_evals = {} THEN UNRESOLVED
        ELSE IF INVALID_INSTRUMENTATION \in classes THEN INVALID_INSTRUMENTATION
        ELSE OneClass(classes)

structural_gates(control_eval, master_evals) ==
    /\ control_eval.passed /\ master_evals # {}
    /\ \A m \in master_evals :
         /\ m.passed /\ m.controls_valid
         /\ \A cell \in m.cells : cell.calls # {} /\
              \A c \in cell.calls : waiter_suspended_before_ready(c) /\ continuation_completed(c)
    /\ final_verdict(control_eval, master_evals) \notin {MIXED_RESULT, INVALID_INSTRUMENTATION}

-----------------------------------------------------------------------------
(* What the oracles promise each other.                                    *)

\* The fast digest is the naive one and is what folding the bytes gives.
DigestExact(xs, ns, ss) ==
    \A x \in xs, n \in ns, s \in ss :
      /\ payload_digest(x, n, s) = _payload_digest_naive(x, n, s)
      /\ payload_digest(x, n, s) = fold_payload_digest([i \in 1..n |-> payload_bytes(x, i - 1, s)])

\* Masked or not, and folded in blocks of any split, the sum is the same.
FoldsAgree(xs, ns) ==
    \A x \in xs, n \in ns :
      /\ composite_oracle64(x, n) = composite_oracle(x, n)
      /\ \A m \in 0..n :
           i64(_local_partial_oracle(x, 0, m) + _local_partial_oracle(x, m, n - m)) = composite_oracle(x, n)
      /\ vector_sum_oracle(x, n, 1)[1] = composite_oracle(x, n)

\* Merging the top k of two halves gives the top k of the whole.
TopkMerges(xs, ns, ks) ==
    \A x \in xs, n \in ns, k \in ks :
      LET top == ToSet(topk_oracle(x, n, k))
          best(S) == {a \in S : Cardinality({b \in S : Before(b, a)}) < k}
          half(P(_)) == best({[score |-> leaf_score(x, i), i |-> i] : i \in {j \in 0..(n - 1) : P(j)}})
      IN  \A m \in 0..n : top = best(half(LAMBDA j : j < m) \cup half(LAMBDA j : j >= m))

\* A call said to have resumed on readiness slept before it, and, where its
\* round trip covers its wait, not to the bound after it.
CallVerdictSound(times) ==
    \A ds, we, ce, cc, wr, rtt \in times, ready \in BOOLEAN :
      LET c == [ds |-> ds, we |-> we, ce |-> ce, cc |-> cc, wr |-> wr, rtt |-> rtt, ready |-> ready]
          class == classify_exp64_call(c)
      IN  /\ class = WAITER_RESUMED_ON_READY => we < cc /\ (rtt >= wr - ds => wr - cc < DEADLINE)
          /\ class = WAITER_RESUME_AT_TIMEOUT => we < cc /\ wr - we >= DEADLINE

\* The fix is reported only against a control that showed the defect and when
\* every call of every run of the fixed build resumed on readiness; and it is
\* reported whenever all the structural gates hold.
FixVerdictSound(calls) ==
    LET cell(m, cs) == [mode |-> m, calls |-> cs, overall_pass |-> TRUE]
        poll(ok) == [mode |-> "root_flat_gather_poll", calls |-> {}, overall_pass |-> ok]
        runs == {(IF "when_all_then_reduce" \in ms THEN {cell("when_all_then_reduce", w)} ELSE {})
                 \cup (IF "dataflow_reduce" \in ms THEN {cell("dataflow_reduce", d)} ELSE {})
                 \cup (IF p = "none" THEN {} ELSE {poll(p = "ok")}) :
                   ms \in SUBSET CLAIM_MODES, w, d \in SUBSET calls, p \in {"none", "ok", "bad"}}
        controls == {evaluate_exp64_run(r, "control_v111") : r \in runs}
        masters == {evaluate_exp64_run(r, "master_fix") : r \in runs}
    IN  \A c \in controls, m, n \in masters :
          LET v == final_verdict(c, {m, n})
          IN  /\ structural_gates(c, {m, n}) => v = WAITER_RESUMED_ON_READY
              /\ v = WAITER_RESUMED_ON_READY =>
                   /\ \A k \in c.cells : {classify_exp64_call(x) : x \in k.calls} = {WAITER_RESUME_AT_TIMEOUT}
                   /\ \A k \in m.cells \cup n.cells :
                        {classify_exp64_call(x) : x \in k.calls} = {WAITER_RESUMED_ON_READY}

\* An arm of the loopback probe that passes on the fixed build never slept to
\* its bound.
ProbeVerdictSound(times) ==
    \A we, wr, rw \in times, entry \in {"unknown", "ready", "unready"}, gates, returned \in BOOLEAN :
      LET r == [probe |-> "full_bound_instrumented", we |-> we, wr |-> wr, rw |-> rw,
                entry |-> entry, returned |-> returned, gates |-> gates]
          e == evaluate_exp65_arm({r}, "master_fix")
      IN  /\ e.passed => returned /\ gates /\ wr - we < DEADLINE
          /\ evaluate_exp65_arm({r}, "control_v111").passed => returned /\ gates /\ wr - rw >= DEADLINE

=============================================================================
