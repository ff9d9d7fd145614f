------------------------------ MODULE Validate ------------------------------
(* The argument checks of the two Python facades, rayx and rayx.runtime, and  *)
(* the preconditions the native bodies put on the arguments they receive.     *)
(*                                                                            *)
(* A Python value is a pair <<type, value>>; "bool" is a type of its own (the *)
(* code refuses it wherever an int is wanted) and <<"float", NonFinite>> is   *)
(* nan or an infinity.  A check answers "ok" or the exception it raises; the  *)
(* first check that fails decides, as in the code.                            *)
EXTENDS Integers, Sequences

CONSTANT INT64_MAX  \* 2^63 - 1, scaled down for TLC

INT64_MIN == -INT64_MAX - 1

NonFinite == INT64_MAX + 2

PARTS_MAX == 1024
PARK_MS_MAX == 60000
CHAIN_STEPS_MAX == 10000
CHAIN_QUANTUM_MAX == 100000
CHAIN_FANOUT_K_MAX == 256
FANIN_LEAVES_MAX == 64

TypeOf(x) == x[1]
ValueOf(x) == x[2]

\* The first exception of a sequence of checks, in order.
FirstError(checks) ==
    IF \A i \in DOMAIN checks : checks[i] = "ok" THEN "ok"
    ELSE checks[CHOOSE i \in DOMAIN checks :
                  checks[i] # "ok" /\ \A j \in 1..(i - 1) : checks[j] = "ok"]

Require(holds, error) == IF holds THEN "ok" ELSE error

Within(v, lo, hi) == Require(v >= lo /\ v <= hi, "ValueError")

-----------------------------------------------------------------------------
(* The typed arguments of operations and actor methods (runtime/_validate.py) *)

_validate_int64(a) ==
    FirstError(<<Require(TypeOf(a) = "int", "TypeError"),
                 Within(ValueOf(a), INT64_MIN, INT64_MAX)>>)

_validate_double(a) ==
    FirstError(<<Require(TypeOf(a) = "float", "TypeError"),
                 Require(ValueOf(a) # NonFinite, "ValueError")>>)

_TYPE_VALIDATORS(t, a) ==
    CASE t = "int64" -> _validate_int64(a)
      [] t = "double" -> _validate_double(a)
      [] OTHER -> "ValueError"

_validate_typed_args(args, types) ==
    FirstError(<<Require(Len(args) = Len(types), "ValueError")>> \o
               IF Len(args) = Len(types)
               THEN [i \in DOMAIN args |-> _TYPE_VALIDATORS(types[i], args[i])]
               ELSE <<>>)

\* The registered operations and their declared argument types.
_OP_TABLE ==
    [square |-> <<"int64">>, add |-> <<"int64", "int64">>, boom |-> <<>>,
     busy_sum |-> <<"int64">>, scale_double |-> <<"double", "double">>,
     fanout_sum |-> <<"int64", "int64">>, park_ms |-> <<"int64">>,
     chain_sum_loop |-> <<"int64", "int64", "int64">>,
     chain_sum_then |-> <<"int64", "int64", "int64">>,
     chain_fanout |-> <<"int64", "int64", "int64", "int64">>,
     barrier_fanin |-> <<"int64", "int64", "int64">>,
     diamond_fanin |-> <<"int64", "int64">>,
     overlap_probe |-> <<"int64", "int64", "int64">>]

\* The range checks of an operation, on arguments of the declared types.
OpRanges(op_id, v) ==
    CASE op_id = "busy_sum" -> <<Require(v[1] >= 0, "ValueError")>>
      [] op_id = "fanout_sum" -> <<Require(v[1] >= 0, "ValueError"),
                                   Within(v[2], 1, PARTS_MAX)>>
      [] op_id = "park_ms" -> <<Within(v[1], 0, PARK_MS_MAX)>>
      [] op_id \in {"chain_sum_loop", "chain_sum_then"} ->
           <<Within(v[2], 0, CHAIN_STEPS_MAX), Within(v[3], 0, CHAIN_QUANTUM_MAX)>>
      [] op_id = "chain_fanout" ->
           <<Within(v[2], 1, CHAIN_FANOUT_K_MAX), Within(v[3], 0, CHAIN_STEPS_MAX),
             Within(v[4], 0, CHAIN_QUANTUM_MAX)>>
      [] op_id = "barrier_fanin" -> <<Within(v[2], 1, FANIN_LEAVES_MAX),
                                      Within(v[3], 0, CHAIN_QUANTUM_MAX)>>
      [] op_id = "diamond_fanin" -> <<Within(v[2], 0, CHAIN_QUANTUM_MAX)>>
      [] op_id = "overlap_probe" -> <<Within(v[2], 0, CHAIN_QUANTUM_MAX),
                                      Require(v[3] \in {0, 1}, "ValueError")>>
      [] OTHER -> <<>>

validate_call(op_id, args) ==
    IF op_id \notin DOMAIN _OP_TABLE THEN "ValueError"
    ELSE LET typed == _validate_typed_args(args, _OP_TABLE[op_id])
         IN IF typed # "ok" THEN typed
            ELSE FirstError(OpRanges(op_id, [i \in DOMAIN args |-> ValueOf(args[i])]))

\* The registered actor types: their constructor's and their methods' types.
_ACTOR_TABLE ==
    [counter |-> [init |-> <<"int64">>,
                  methods |-> [add |-> <<"int64">>, get |-> <<>>, reset |-> <<"int64">>,
                              busy_get |-> <<"int64">>]]]

validate_actor_create(actor_type, args) ==
    IF actor_type \notin DOMAIN _ACTOR_TABLE THEN "ValueError"
    ELSE _validate_typed_args(args, _ACTOR_TABLE[actor_type].init)

validate_actor_call(actor_type, method_id, args) ==
    LET methods == _ACTOR_TABLE[actor_type].methods
    IN IF method_id \notin DOMAIN methods THEN "ValueError"
       ELSE LET typed == _validate_typed_args(args, methods[method_id])
            IN IF typed # "ok" THEN typed
               ELSE Require(method_id = "busy_get" => ValueOf(args[1]) >= 0, "ValueError")

\* The serial default has one slot per lane; max_inflight needs the flag.
validate_nonblocking_options(flag, max_inflight) ==
    FirstError(<<Require(TypeOf(flag) = "bool", "TypeError"),
                 IF TypeOf(max_inflight) = "none" THEN "ok"
                 ELSE FirstError(<<Require(TypeOf(max_inflight) = "int", "TypeError"),
                                   Require(ValueOf(max_inflight) >= 1, "ValueError")>>),
                 Require(ValueOf(flag) = 1 \/ TypeOf(max_inflight) = "none",
                         "ValueError")>>)

-----------------------------------------------------------------------------
(* The keyword arguments shared by both facades                               *)

_validate_label(x) == Require(TypeOf(x) \in {"none", "str"}, "TypeError")

_validate_max_queue_depth_per_lane(x) ==
    IF TypeOf(x) = "none" THEN "ok"
    ELSE FirstError(<<Require(TypeOf(x) = "int", "TypeError"),
                      Require(ValueOf(x) >= 1, "ValueError")>>)

_validate_lane_impl(x) ==
    FirstError(<<Require(TypeOf(x) = "str", "TypeError"),
                 Require(ValueOf(x) \in {"std", "hpx"}, "ValueError")>>)

_validate_work_mode(x) ==
    FirstError(<<Require(TypeOf(x) = "str", "TypeError"),
                 Require(ValueOf(x) \in {"sleep", "spin"}, "ValueError")>>)

_validate_chunks(x) ==
    FirstError(<<Require(TypeOf(x) = "int", "TypeError"),
                 Require(ValueOf(x) >= 1, "ValueError")>>)

_validate_chunk_delay_ms(x) ==
    FirstError(<<Require(TypeOf(x) \in {"int", "float"}, "TypeError"),
                 Require(ValueOf(x) # NonFinite /\ ValueOf(x) >= 0, "ValueError")>>)

\* The varied batch: every entry a positive number, and count their number.
_validate_batch_service_ms(xs, count) ==
    FirstError(<<Require(xs # <<>>, "ValueError")>> \o
               [i \in DOMAIN xs |->
                  FirstError(<<Require(TypeOf(xs[i]) \in {"int", "float"}, "TypeError"),
                               Require(ValueOf(xs[i]) # NonFinite /\ ValueOf(xs[i]) > 0,
                                       "ValueError")>>)] \o
               <<Require(TypeOf(count) = "none" \/ ValueOf(count) = Len(xs),
                         "ValueError")>>)

validate_timeout(x) ==
    FirstError(<<Require(TypeOf(x) \in {"int", "float"}, "TypeError"),
                 Require(ValueOf(x) # NonFinite /\ ValueOf(x) >= 0, "ValueError")>>)

-----------------------------------------------------------------------------
(* What the native bodies check again: a request that gets this far with      *)
(* arguments outside these bounds resolves as a failed row.                   *)
NativeAccepts(op_id, v) ==
    /\ op_id = "fanout_sum" => v[1] >= 0 /\ v[2] >= 1 /\ v[2] <= 1024
    /\ op_id = "park_ms" => v[1] >= 0 /\ v[1] <= 60000
    /\ op_id \in {"chain_sum_loop", "chain_sum_then"} =>
         v[2] >= 0 /\ v[2] <= 10000 /\ v[3] >= 0 /\ v[3] <= 100000
    /\ op_id = "chain_fanout" => /\ v[2] >= 1 /\ v[2] <= 256 /\ v[3] >= 0 /\ v[3] <= 10000
                                 /\ v[4] >= 0 /\ v[4] <= 100000
    /\ op_id = "barrier_fanin" => v[2] >= 1 /\ v[2] <= 64 /\ v[3] >= 0 /\ v[3] <= 100000
    /\ op_id = "diamond_fanin" => v[2] >= 0 /\ v[2] <= 100000
    /\ op_id = "overlap_probe" => v[2] >= 0 /\ v[2] <= 100000 /\ v[3] \in {0, 1}

=============================================================================
