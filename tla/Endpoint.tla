------------------------------ MODULE Endpoint ------------------------------
(* rayx.endpoint: endpoints of one peer process, the listener that serves     *)
(* them, and a client (in the same process or in another one of the node)     *)
(* that connects with metadata it was handed earlier, pings, and calls a      *)
(* bridged operation.  The metadata is a snapshot: the endpoint may be        *)
(* closed, the process gone, or its pid and socket path taken over by a new   *)
(* process before it is used.                                                 *)
EXTENDS Validate, FiniteSets

CONSTANTS Ids,         \* endpoint ids, minted once each
          MaxFaults    \* crashes and thread-creation failures

VARIABLES
  near,   \* the client runs in the peer process
  reg,    \* id -> "none", "live", "closed", "lost" (its process is gone)
  wired,  \* ids constructed with transport=True
  tomb,   \* tombstones in the registry of the current process
  rc,     \* endpoint_transport_rc()
  lst,    \* the listener: "off", "up", "broken" (running_ set, no thread)
  rt,     \* the Runtime of the peer process: "absent" or "live"
  conn,   \* the client's Connection
  cli,    \* the client's call in progress
  out,    \* how the last call ended, and the truth when it was answered
  epFaults

epVars == <<near, reg, wired, tomb, rc, lst, rt, conn, cli, out, epFaults>>

NoConn == [id |-> "none", remote |-> FALSE, open |-> FALSE]
NoFrame == [magic |-> "none"]
NoCall == [op |-> "none", at |-> "idle", frame |-> NoFrame, truth |-> "none"]
Nothing == [call |-> "none", what |-> "none", truth |-> "none", id |-> "none"]

EpInit ==
    /\ near \in BOOLEAN
    /\ reg = [i \in Ids |-> "none"] /\ wired = {} /\ tomb = {}
    /\ rc = 0 /\ lst = "off" /\ rt = "absent"
    /\ conn = NoConn /\ cli = NoCall /\ out = Nothing /\ epFaults = 0

Live == {i \in Ids : reg[i] = "live"}
Spare == epFaults < MaxFaults

\* A request the transport itself gives up, with the status it then returns.
Failed(status) == [cli EXCEPT !.at = "answered",
                              !.frame = [magic |-> "none", status |-> status]]

-----------------------------------------------------------------------------
(* The peer process                                                           *)

\* Endpoint(transport): registered first; then the listener is started, or its
\* running one shared.  A failed start unregisters the id, which leaves a
\* tombstone, and running_ is already set when the thread cannot be created.
OpenEndpoint(i, transport) ==
    /\ reg[i] = "none"
    /\ \/ /\ reg' = [reg EXCEPT ![i] = "live"]
          /\ wired' = IF transport THEN wired \cup {i} ELSE wired
          /\ rc' = IF transport THEN rc + 1 ELSE rc
          /\ lst' = IF transport /\ lst = "off" THEN "up" ELSE lst
          /\ tomb' = tomb \ {i}
          /\ UNCHANGED epFaults
       \/ /\ transport /\ lst = "off" /\ Spare
          /\ reg' = [reg EXCEPT ![i] = "closed"]
          /\ tomb' = tomb \cup {i}
          /\ lst' \in {"off", "broken"}
          /\ epFaults' = epFaults + 1
          /\ UNCHANGED <<wired, rc>>
    /\ UNCHANGED <<near, rt, conn, cli, out>>

\* Faulty variant: the endpoint keeps its share of the listener.
CloseKeepsShare(i) ==
    /\ reg[i] = "live"
    /\ reg' = [reg EXCEPT ![i] = "closed"]
    /\ tomb' = IF Live = {i} THEN {} ELSE tomb \cup {i}
    /\ UNCHANGED <<near, wired, rc, lst, rt, conn, cli, out, epFaults>>

\* Endpoint.close: the last transport endpoint stops the listener (which waits
\* for the request it is serving), the last endpoint clears the tombstones.
CloseEndpoint(i) ==
    /\ reg[i] = "live"
    /\ i \in wired /\ rc = 1 => cli.at # "served"
    /\ reg' = [reg EXCEPT ![i] = "closed"]
    /\ rc' = IF i \in wired THEN rc - 1 ELSE rc
    /\ lst' = IF i \in wired /\ rc = 1 THEN "off" ELSE lst
    /\ tomb' = IF Live = {i} THEN {} ELSE tomb \cup {i}
    /\ UNCHANGED <<near, wired, rt, conn, cli, out, epFaults>>

\* rayx.endpoint.shutdown(): only when no endpoint is left.
Shutdown ==
    /\ Live = {} /\ (tomb # {} \/ lst # "off")
    /\ cli.at # "served"
    /\ lst' = IF rc = 0 THEN "off" ELSE lst
    /\ tomb' = {}
    /\ UNCHANGED <<near, reg, wired, rc, rt, conn, cli, out, epFaults>>

RuntimeUp == rt = "absent" /\ rt' = "live" /\ UNCHANGED <<near, reg, wired, tomb, rc, lst, conn, cli, out, epFaults>>
RuntimeDown ==
    /\ rt = "live" /\ cli.at # "served" /\ rt' = "absent"
    /\ UNCHANGED <<near, reg, wired, tomb, rc, lst, conn, cli, out, epFaults>>

\* The process dies and another one takes over its pid, and with it the path of
\* its socket; the ids die with the process.
PeerReplaced ==
    /\ ~near /\ Spare
    /\ reg' = [i \in Ids |-> IF reg[i] = "none" THEN "none" ELSE "lost"]
    /\ tomb' = {} /\ rc' = 0 /\ lst' = "off" /\ rt' = "absent"
    /\ epFaults' = epFaults + 1
    /\ cli' = IF cli.at \in {"sent", "served"} THEN Failed("CONN_CLOSED") ELSE cli
    /\ UNCHANGED <<near, wired, conn, out>>

-----------------------------------------------------------------------------
(* The frames.  A frame has a fixed layout: the argument slots a call does    *)
(* not use are zero, and the count says how many the reader takes.            *)

WIRE_MAX_CALL_ARGS == 2
ZeroSlot == <<0, 0>>

encode_request(proto, target, nonce) ==
    [magic |-> "RAYX", proto |-> proto, msg |-> "ping", target |-> target, nonce |-> nonce]

decode_request(f) == IF f.magic = "RAYX" THEN <<f.proto, f.msg, f.target, f.nonce>> ELSE <<>>

encode_call_op(proto, target, op_code, args) ==
    [magic |-> "RAYX", proto |-> proto, msg |-> "call_op", target |-> target,
     op_code |-> op_code, argc |-> Len(args),
     slots |-> args \o [i \in 1..(WIRE_MAX_CALL_ARGS - Len(args)) |-> ZeroSlot]]

decode_call_op(f) ==
    LET argc == IF f.argc < WIRE_MAX_CALL_ARGS THEN f.argc ELSE WIRE_MAX_CALL_ARGS
    IN IF f.magic = "RAYX"
       THEN <<f.proto, f.msg, f.target, f.op_code, SubSeq(f.slots, 1, argc)>> ELSE <<>>

encode_response(proto, status, val) ==
    [magic |-> "RAYX", proto |-> proto, status |-> status, value |-> val]

decode_response(f) == IF f.magic = "RAYX" THEN <<f.proto, f.status, f.value>> ELSE <<>>

encode_call_resp(proto, status, tag, bits) ==
    [magic |-> "RAYX", proto |-> proto, status |-> status, value |-> <<tag, bits>>]

decode_call_resp(f) ==
    IF f.magic = "RAYX" THEN <<f.proto, f.status, f.value[1], f.value[2]>> ELSE <<>>

-----------------------------------------------------------------------------
(* The client                                                                 *)

\* validate_metadata, on what connect() is handed.
validate_metadata(m) ==
    FirstError(<<Require(m.dict, "TypeError"), Require(m.keys, "ValueError"),
                 Require(TypeOf(m.id) = "str", "TypeError"),
                 Require(ValueOf(m.id) = "well-formed", "ValueError"),
                 Require(TypeOf(m.pid) = "int", "TypeError"),
                 Require(ValueOf(m.pid) >= 0, "ValueError"),
                 Require(m.host # "", "ValueError"),
                 Require(TypeOf(m.proto) = "int", "TypeError"),
                 Require(ValueOf(m.proto) >= 0, "ValueError"),
                 Require(m.kind \in {"none", "unix", "tcp"}, "ValueError"),
                 Require((m.kind = "none") = (m.addr = ""), "ValueError")>>)

ENDPOINT_PROTO_VERSION == 2

\* metadata() of a live endpoint; handed on, it may be used at any later time.
metadata(i) ==
    [dict |-> TRUE, keys |-> TRUE, id |-> <<"str", "well-formed">>, pid |-> <<"int", 1>>,
     host |-> "here", proto |-> <<"int", ENDPOINT_PROTO_VERSION>>,
     kind |-> IF i \in wired THEN "unix" ELSE "none",
     addr |-> IF i \in wired THEN "path" ELSE ""]

Finish(call, what, truth, id) ==
    out' = [call |-> call, what |-> what, truth |-> truth, id |-> id]

\* The errors connect() raises before it touches the peer.
connect_refusal(m) ==
    IF validate_metadata(m) # "ok" THEN "EndpointValidationError"
    ELSE IF ValueOf(m.proto) # ENDPOINT_PROTO_VERSION THEN "EndpointProtocolError"
    ELSE IF m.host # "here" \/ (~near /\ m.kind # "unix") THEN "EndpointUnreachableError"
    ELSE "none"

\* connect(): in the process, the registry is asked; across, the socket is
\* only probed, so the id is first looked up by the first request.
Connect(i, m) ==
    /\ cli = NoCall /\ ~conn.open /\ reg[i] # "none"
    /\ LET refusal == connect_refusal(m)
           found == IF near THEN reg[i] = "live" ELSE lst # "off"
           what == IF refusal # "none" THEN refusal
                   ELSE IF found THEN "ok"
                   ELSE IF near THEN "EndpointNotFoundError" ELSE "EndpointUnreachableError"
       IN /\ Finish("connect", what, reg[i], i)
          /\ conn' = IF what = "ok" THEN [id |-> i, remote |-> ~near, open |-> TRUE] ELSE conn
    /\ UNCHANGED <<near, reg, wired, tomb, rc, lst, rt, cli, epFaults>>

CloseConnection ==
    /\ cli = NoCall /\ conn.open
    /\ conn' = [conn EXCEPT !.open = FALSE]
    /\ UNCHANGED <<near, reg, wired, tomb, rc, lst, rt, cli, out, epFaults>>

\* The bridged operations: their code and arity.
_BRIDGE_OPS == [square |-> <<1, 1>>, add |-> <<2, 2>>, fanout_sum |-> <<3, 2>>]
BRIDGE_FANOUT_N_MAX == 1000000

\* The arguments of _call_op are checked before the connection is.
bridge_refusal(op, args) ==
    \/ op \notin DOMAIN _BRIDGE_OPS
    \/ Len(args) # _BRIDGE_OPS[op][2]
    \/ \E i \in DOMAIN args : _validate_int64(args[i]) # "ok"

\* ping() and _call_op(): a local request is answered inline, a remote one is
\* written to the socket; each call dials anew.
Sent(op, frame) ==
    /\ cli' = IF conn.open /\ (~conn.remote \/ lst # "off")
              THEN [op |-> op, at |-> "sent", frame |-> frame, truth |-> "none"]
              ELSE [Failed("CONN_CLOSED") EXCEPT !.op = op]
    /\ UNCHANGED <<near, reg, wired, tomb, rc, lst, rt, conn, out, epFaults>>

Ping(nonce) ==
    /\ cli = NoCall /\ conn # NoConn
    /\ _validate_int64(nonce) = "ok"
    /\ Sent("ping", encode_request(ENDPOINT_PROTO_VERSION, conn.id, ValueOf(nonce)))

CallOp(op, args) ==
    /\ cli = NoCall /\ conn # NoConn
    /\ ~bridge_refusal(op, args)
    /\ Sent("call_op", encode_call_op(ENDPOINT_PROTO_VERSION, conn.id, _BRIDGE_OPS[op][1],
                                      [i \in DOMAIN args |-> <<0, ValueOf(args[i])>>]))

\* Faulty variant: any endpoint of the process answers for the id.
LookupAny(i) == IF Live # {} THEN "LIVE" ELSE IF i \in tomb THEN "CLOSED" ELSE "ABSENT"

\* What the registry says of the id in the request.
lookup(i) == IF i \in Live THEN "LIVE" ELSE IF i \in tomb THEN "CLOSED" ELSE "ABSENT"

Reach(i) == IF conn.remote THEN lookup(i) ELSE IF i \in Live THEN "LIVE" ELSE "CLOSED"

\* bridge_dispatch: the arguments, then the Runtime, then the operation.
bridge_dispatch(code, args) ==
    IF code = 3 /\ args[1][2] > BRIDGE_FANOUT_N_MAX THEN "OP_BADARGS"
    ELSE IF rt = "absent" THEN "RUNTIME_ABSENT"
    ELSE IF code = 3 /\ ~NativeAccepts("fanout_sum", <<args[1][2], args[2][2]>>)
    THEN "OP_FAILED" ELSE "OK"

\* serve_ping: the answer is a function of the nonce and of the id.
serve_ping(f) ==
    LET r == decode_request(f) IN
    encode_response(ENDPOINT_PROTO_VERSION,
                    CASE Reach(r[3]) = "LIVE" -> "OK"
                      [] Reach(r[3]) = "CLOSED" -> "PEER_CLOSED"
                      [] OTHER -> "NOT_FOUND",
                    <<r[3], r[4]>>)

serve_call_op(f) ==
    LET r == decode_call_op(f) IN
    encode_call_resp(ENDPOINT_PROTO_VERSION,
                     CASE Reach(r[3]) = "LIVE" -> bridge_dispatch(r[4], r[5])
                       [] Reach(r[3]) = "CLOSED" -> "PEER_CLOSED"
                       [] OTHER -> "NOT_FOUND",
                     0, 0)

\* On the accept thread; on the client's own thread within the process.
Serve ==
    /\ cli.at = "sent" /\ (conn.remote => lst = "up")
    /\ cli' = [cli EXCEPT !.at = "served", !.truth = reg[conn.id],
                          !.frame = IF cli.op = "ping" THEN serve_ping(cli.frame)
                                    ELSE serve_call_op(cli.frame)]
    /\ UNCHANGED <<near, reg, wired, tomb, rc, lst, rt, conn, out, epFaults>>

Respond ==
    /\ cli.at = "served"
    /\ cli' = [cli EXCEPT !.at = "answered"]
    /\ UNCHANGED <<near, reg, wired, tomb, rc, lst, rt, conn, out, epFaults>>

\* Faulty variant: only the listener's going away ends a request, no deadline.
ExpireWhenGone ==
    /\ conn.remote /\ cli.at \in {"sent", "served"} /\ lst = "off"
    /\ cli' = Failed("CONN_CLOSED")
    /\ UNCHANGED <<near, reg, wired, tomb, rc, lst, rt, conn, out, epFaults>>

\* The one deadline of dial, send and receive passes, or the listener goes away
\* under the request; the peer may still have served it.
Expire ==
    /\ conn.remote /\ cli.at \in {"sent", "served"}
    /\ cli' = Failed(IF lst = "off" THEN "CONN_CLOSED" ELSE "TIMEOUT")
    /\ UNCHANGED <<near, reg, wired, tomb, rc, lst, rt, conn, out, epFaults>>

\* The status of ping() as Python raises it.
ping(status) ==
    CASE status = "OK" -> "value"
      [] status \in {"PEER_CLOSED", "CONN_CLOSED"} -> "EndpointClosedError"
      [] status = "NOT_FOUND" -> "EndpointNotFoundError"
      [] status = "PROTO_ERR" -> "EndpointProtocolError"
      [] status = "TIMEOUT" -> "EndpointTimeoutError"
      [] OTHER -> "EndpointError"

\* The status of _call_op() as Python raises it.
_call_op(status) ==
    CASE status = "OK" -> "value"
      [] status \in {"PEER_CLOSED", "CONN_CLOSED"} -> "EndpointClosedError"
      [] status = "NOT_FOUND" -> "EndpointNotFoundError"
      [] status = "PROTO_ERR" -> "EndpointProtocolError"
      [] status = "TIMEOUT" -> "EndpointTimeoutError"
      [] status \in {"RUNTIME_ABSENT", "RUNTIME_DRAINING"} -> "EndpointRuntimeUnavailableError"
      [] status \in {"OP_UNKNOWN", "OP_FAILED", "INTERNAL"} -> "EndpointOperationError"
      [] status = "OP_BADARGS" -> "EndpointValidationError"
      [] OTHER -> "EndpointError"

\* The status in the frame, when there is one to decode.
Status == IF cli.frame.magic = "none" THEN cli.frame.status
          ELSE IF cli.op = "ping" THEN decode_response(cli.frame)[2]
          ELSE decode_call_resp(cli.frame)[2]

ReadAnswer ==
    /\ cli.at = "answered"
    /\ Finish(cli.op, IF cli.op = "ping" THEN ping(Status) ELSE _call_op(Status),
              cli.truth, conn.id)
    /\ cli' = NoCall
    /\ UNCHANGED <<near, reg, wired, tomb, rc, lst, rt, conn, epFaults>>

Listener == Serve \/ Respond \/ Expire \/ ReadAnswer
=============================================================================
