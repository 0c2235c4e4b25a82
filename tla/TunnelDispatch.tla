---------------------------- MODULE TunnelDispatch ----------------------------
(***************************************************************************)
(* dispatch (sdk/rust/src/tunnels/client/runtime.rs): an envelope of the   *)
(* edge goes to the handler of its kind, a forwarded HTTP request          *)
(* (TunnelForward) or a bridge (TunnelBridge), and any other is replied to *)
(* with an error.  The dispatches of a connection share its sending half,  *)
(* which queues what they send, and nothing else: one is modelled.         *)
(***************************************************************************)
EXTENDS TunnelBridge, TunnelForward

VARIABLE route \* inkbox-route-kind, "answered" once another was replied to

dispatchVars == <<route, vars, forwardVars>>

NoRequest == [path |-> "valid", method |-> "known", size |-> 0, stored |-> FALSE]

DispatchInit ==
    /\ Init /\ ForwardInit
    /\ \/ route \in {"webhook", "unsupported"} /\ bridge = "ws"
       \/ route = "ws-upgrade" /\ bridge = "ws" /\ request = NoRequest
       \/ route = "tcp-stream" /\ bridge = "tcp" /\ request = NoRequest
    /\ route = "unsupported" => request = NoRequest

\* A step of the handler of the envelope's kind.
AsHttp(Step)   == route = "webhook" /\ Step /\ UNCHANGED <<route, vars>>
AsBridge(Step) == route \in {"ws-upgrade", "tcp-stream"} /\ Step /\ UNCHANGED <<route, forwardVars>>

\* post_response with a 502.
DispatchOther ==
    /\ route = "unsupported" /\ route' = "answered"
    /\ at' = "over" /\ out' = [status |-> 502, size |-> 0, reason |-> "unsupported"]
    /\ posted' = out' /\ UNCHANGED <<vars, envVars, upstreamVars, buf>>

\* What the executor polls.
DispatchTask == AsHttp(ForwardTask) \/ AsBridge(Task) \/ DispatchOther

DispatchNext ==
    \/ AsHttp(ForwardNext) \/ AsBridge(Next) \/ DispatchOther
    \/ route = "answered" /\ UNCHANGED dispatchVars

DispatchSpec ==
    /\ DispatchInit /\ [][DispatchNext]_dispatchVars
    /\ WF_dispatchVars(DispatchTask)
    /\ WF_dispatchVars(AsBridge(upEnd = "open" /\ UpstreamReads))

-----------------------------------------------------------------------------
\* Either handler keeps to its types.
DispatchTypeOK == TypeOK /\ ForwardTypeOK

\* A forwarded request is over at last, whatever the upstream does: the time
\* limit of the HTTP client covers the whole of the upstream's answer.  A bridge
\* is over at last once either side has ended.
DispatchEnds ==
    \/ route = "webhook" /\ at # "over"
    \/ pc = "pump" /\ (edgeEnd # "open" \/ upEnd # "open")
    ~> at = "over" \/ pc = "done"
=============================================================================
