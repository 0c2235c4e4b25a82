----------------------------- MODULE TunnelBridge -----------------------------
(***************************************************************************)
(* One bridge of the tunnel (sdk/rust/src/tunnels/client/bridges.rs): the  *)
(* dispatch task that connects a stream of the edge, opened with extended  *)
(* CONNECT, to a socket of the local upstream.  A "ws" bridge joins two    *)
(* WebSocket hops: the edge's carries length-prefixed envelopes, the       *)
(* upstream's RFC 6455 messages.  A "tcp" bridge ends the third party's    *)
(* TLS: the edge's stream carries its records, the upstream's the          *)
(* plaintext.                                                              *)
(*                                                                         *)
(* A message is its number.  It travels whole or as a head and a tail:     *)
(* two frames of the edge, which split the bytes of an envelope (ws) or    *)
(* are fragments of one message (tcp), or two fragments of the upstream.   *)
(* The first message of the edge of a tcp bridge is the TLS handshake.     *)
(* Buffers that await room are bounded; h2 queues what we send.            *)
(***************************************************************************)
EXTENDS Integers, Sequences, Selection

CONSTANTS
    MaxIn,      \* bound on the messages the edge sends
    MaxOut,     \* bound on the messages the upstream sends
    MaxControl, \* bound on the control and unexpected frames, of both
    Room,       \* messages the upstream's receive buffer holds
    EarlyLimit  \* messages the TLS engine buffers before the handshake

ASSUME BridgeAssumption ==
    MaxIn \in Nat /\ MaxOut \in Nat /\ MaxControl \in Nat /\ Room \in Nat \ {0} /\ EarlyLimit \in Nat

\* Frames: parts of a message; "inner", which begins a message inside another and has
\* its number; "bye", a close envelope, with the number of the message before it;
\* control frames and others, with a number of 0.
Parts   == {"whole", "head", "tail"}
Control == {"ping", "close", "other"}
F(k, m) == [kind |-> k, msg |-> m]
FramesOf(kinds) == [kind : kinds, msg : Nat]

\* The close reasons of a tcp bridge and bridge_close_code.
CloseCode(reason) == CASE reason = "clean-eof" -> 1000
                       [] reason = "protocol-error" -> 1002
                       [] OTHER -> 1011

VARIABLES
    bridge,   \* "ws" or "tcp"
    pc,       \* where the dispatch task is
    reply,    \* status of the reply posted for the request, 0 for none
    \* the edge's stream
    wire,     \* frames of the edge not yet received
    edgeEnd,  \* the edge's half: open, ended, or the stream was reset by it
    ours,     \* our half: none, open, ended
    rst,      \* we reset the stream
    edgeGot,  \* frames the edge received, but for PONGs
    sentIn, begunIn, \* messages of the edge sent; one was begun
    \* the upstream's socket
    socket,   \* none, open, shut (our half ended) or closed
    upEnd,    \* the upstream's half: open, eof or error
    leftover, \* what it sent along with its 101 head
    upOut,    \* frames of the upstream not yet read
    upIn,     \* its receive buffer
    upGot,    \* messages it read
    sentOut, begunOut,
    control,  \* control frames sent so far
    \* locals of the pump
    b2u,      \* what is in hand of the edge: recv, drain, write or done
    u2b,      \* upstream_to_bridge: read, pong or done
    envBuf,   \* parts of envelopes received
    fragIn, fragOut, \* message being reassembled or written, 0 for none
    tls,      \* the handshake is over
    early,    \* plaintext written to the TLS engine before that
    reason,   \* close_reason
    lapsed    \* the wait for the edge's end ran out

edgeVars == <<wire, edgeEnd, sentIn, begunIn>>
ourVars  == <<ours, rst, edgeGot>>
upVars   == <<upEnd, upIn, upGot, sentOut, begunOut>>
sockVars == <<socket, leftover, upOut>>
pumpVars == <<b2u, u2b, envBuf, fragIn, fragOut, tls, early, reason, lapsed>>
vars == <<bridge, pc, reply, edgeVars, ourVars, upVars, sockVars, control, pumpVars>>

Init ==
    /\ bridge \in {"ws", "tcp"}
    /\ pc = IF bridge = "ws" THEN "upgrade" ELSE "connect"
    /\ reply = 0
    /\ wire = <<>> /\ edgeEnd = "open" /\ ours = "none" /\ rst = FALSE /\ edgeGot = <<>>
    /\ sentIn = 0 /\ begunIn = FALSE
    /\ socket = "none" /\ upEnd = "open" /\ leftover = <<>> /\ upOut = <<>> /\ upIn = <<>>
    /\ upGot = <<>> /\ sentOut = 0 /\ begunOut = FALSE /\ control = 0
    /\ b2u = "recv" /\ u2b = "read" /\ envBuf = <<>> /\ fragIn = 0 /\ fragOut = 0
    /\ tls = FALSE /\ early = <<>> /\ reason = "clean-eof" /\ lapsed = FALSE

-----------------------------------------------------------------------------
(* dispatch_ws_upgrade: the upstream first, then the reply, then the       *)
(* stream.  dispatch_tcp_stream has no reply and no upstream yet.          *)

Goto(l) == pc' = l /\ UNCHANGED <<bridge, control>>

\* The task returns: its locals are gone, its socket is closed, and dropping a
\* stream whose other half is still open resets it.
Finish ==
    /\ Goto("done")
    /\ b2u' = "recv" /\ u2b' = "read" /\ envBuf' = <<>> /\ fragIn' = 0 /\ fragOut' = 0
    /\ tls' = FALSE /\ early' = <<>> /\ reason' = "clean-eof" /\ lapsed' = FALSE
    /\ leftover' = <<>> /\ upOut' = <<>>
    /\ socket' = IF socket = "none" THEN "none" ELSE "closed"
    /\ rst' = (rst \/ (ours # "none" /\ edgeEnd = "open"))
    /\ UNCHANGED <<reply, edgeVars, ours, edgeGot, upVars>>

\* A request without an id, or with a path that is refused.
RejectEnvelope ==
    /\ pc = "upgrade" /\ Goto("done") /\ reply' = 400
    /\ UNCHANGED <<edgeVars, ourVars, upVars, sockVars, pumpVars>>

\* open_ws_upstream: connected, and the 101 head passed its checks.
UpstreamAccepts ==
    /\ pc = "upgrade" /\ Goto("reply")
    /\ socket' = "open"
    /\ \/ UNCHANGED <<leftover, sentOut>>
       \/ MaxOut > 0 /\ leftover' = <<F("whole", 1)>> /\ sentOut' = 1
    /\ UNCHANGED <<reply, edgeVars, ourVars, upEnd, upIn, upGot, begunOut, upOut, pumpVars>>

\* It failed: 502, 504, or the status the upstream answered other than 101,
\* which the reply repeats.
UpstreamRefuses(status) ==
    /\ pc = "upgrade" /\ Goto("done") /\ reply' = status
    /\ UNCHANGED <<edgeVars, ourVars, upVars, sockVars, pumpVars>>

PostAccept ==
    /\ pc = "reply" /\ Goto("connect") /\ reply' = 200
    /\ UNCHANGED <<edgeVars, ourVars, upVars, sockVars, pumpVars>>

\* The reply or the CONNECT request cannot be sent.
SendFails == pc \in {"reply", "connect"} /\ Finish

\* open_connect_bridge.
Connect ==
    /\ pc = "connect" /\ Goto("await") /\ ours' = "open"
    /\ UNCHANGED <<reply, edgeVars, rst, edgeGot, upVars, sockVars, pumpVars>>

\* await_connect_200; the pump starts with what was read past the 101 head.
Accepted ==
    /\ pc = "await" /\ Goto(IF bridge = "ws" THEN "pump" ELSE "dial")
    /\ upOut' = leftover \o upOut /\ leftover' = <<>>
    /\ UNCHANGED <<reply, edgeVars, ourVars, upVars, socket, pumpVars>>

\* Not 200 in time (send_reset), or no terminator can be built.
NotAccepted == pc = "await" /\ Finish

\* The upstream of a tcp bridge.
DialUpstream ==
    /\ pc = "dial" /\ Goto("pump") /\ socket' = "open"
    /\ UNCHANGED <<reply, edgeVars, ourVars, upVars, leftover, upOut, pumpVars>>

DialFails ==
    /\ pc = "dial" /\ Goto("notify") /\ reason' = "outbound-error"
    /\ UNCHANGED <<reply, edgeVars, ourVars, upVars, sockVars, b2u, u2b, envBuf, fragIn,
                   fragOut, tls, early, lapsed>>

\* The runtime aborts the task where it awaits.
Abort == pc # "done" /\ Finish

Opening ==
    \/ RejectEnvelope \/ UpstreamAccepts \/ PostAccept \/ SendFails \/ Connect
    \/ \E status \in {200, 403, 502, 504} : UpstreamRefuses(status)
    \/ Accepted \/ NotAccepted \/ DialUpstream \/ DialFails

-----------------------------------------------------------------------------
(* Sending.                                                                *)

\* send_data with frames fs: it fails once the edge has reset the stream.
Send(fs) == edgeGot' = IF edgeEnd = "reset" THEN edgeGot ELSE edgeGot \o fs
Sendable == edgeEnd # "reset"

\* write_all to the upstream waits for room, and fails when the upstream is
\* gone.  One that has ended its own half may still read.
Writable == upEnd # "error" /\ Len(upIn) < Room
Broken   == upEnd # "open"

-----------------------------------------------------------------------------
(* pump_ws_url_bridge.                                                     *)

WsPump == bridge = "ws" /\ pc = "pump"

\* What bridge_to_upstream changes.
B2uStep == UNCHANGED <<bridge, pc, reply, edgeEnd, sentIn, begunIn, ours, rst, upEnd, upGot,
                       sentOut, begunOut, sockVars, control, u2b, fragIn, fragOut, tls,
                       early, reason, lapsed>>

Data       == FramesOf(Parts \cup {"bye"})
IsClose(f) == f.kind = "close"

\* The frames of a chunk up to the first CLOSE.
BeforeClose(fs) ==
    LET closes == {i \in DOMAIN fs : IsClose(fs[i])}
    IN  IF closes = {} THEN fs
        ELSE SubSeq(fs, 1, (CHOOSE i \in closes : \A j \in closes : i <= j) - 1)

\* One DATA chunk with n whole frames: parts of envelopes are kept; with a CLOSE
\* the direction ends, and the envelopes of the same chunk are not looked at.
B2uRecv(n) ==
    /\ WsPump /\ b2u = "recv" /\ n <= Len(wire)
    /\ LET chunk == SubSeq(wire, 1, n)
           seen  == BeforeClose(chunk)
       IN  /\ envBuf' = envBuf \o Those(seen, Data)
           /\ b2u' = IF seen = chunk THEN "drain" ELSE "done"
    /\ wire' = SubSeq(wire, n + 1, Len(wire))
    /\ UNCHANGED <<edgeGot, upIn>> /\ B2uStep

B2uEnds ==
    /\ WsPump /\ b2u = "recv"
    /\ \/ edgeEnd = "reset"
       \/ edgeEnd = "ended" /\ wire = <<>>
    /\ b2u' = "done"
    /\ UNCHANGED <<wire, edgeGot, envBuf, upIn>> /\ B2uStep

\* How many frames the envelope at the head of envBuf takes, 0 while it is not
\* complete: its length prefix tells.
EnvelopeFrames ==
    IF envBuf = <<>> THEN 0
    ELSE IF Head(envBuf).kind # "head" THEN 1 ELSE IF Len(envBuf) > 1 THEN 2 ELSE 0

DrainTo(next) ==
    /\ b2u' = next
    /\ envBuf' = SubSeq(envBuf, EnvelopeFrames + 1, Len(envBuf))
    /\ UNCHANGED <<wire, edgeGot>> /\ B2uStep

\* Mutant: one envelope is taken per chunk.
DrainOne ==
    /\ WsPump /\ b2u = "drain" /\ EnvelopeFrames > 0 /\ Head(envBuf).kind # "bye"
    /\ \/ Writable /\ upIn' = Append(upIn, Head(envBuf).msg) /\ DrainTo("recv")
       \/ Broken /\ UNCHANGED upIn /\ DrainTo("done")

\* A complete envelope is written to the upstream as one message.
Drain ==
    /\ WsPump /\ b2u = "drain" /\ EnvelopeFrames > 0 /\ Head(envBuf).kind # "bye"
    /\ \/ Writable /\ upIn' = Append(upIn, Head(envBuf).msg) /\ DrainTo("drain")
       \/ Broken /\ UNCHANGED upIn /\ DrainTo("done")

\* A close envelope: a CLOSE frame is written, whatever comes of it.
DrainClose ==
    /\ WsPump /\ b2u = "drain" /\ EnvelopeFrames > 0 /\ Head(envBuf).kind = "bye"
    /\ Writable \/ Broken
    /\ UNCHANGED upIn /\ DrainTo("done")

DrainOver ==
    /\ WsPump /\ b2u = "drain" /\ EnvelopeFrames = 0
    /\ UNCHANGED upIn /\ DrainTo("recv")

\* What upstream_to_bridge changes.
U2bStep == UNCHANGED <<bridge, pc, reply, edgeVars, rst, upEnd, upGot, sentOut, begunOut,
                       socket, leftover, control, b2u, envBuf, fragIn, tls, early, reason,
                       lapsed>>

\* A message is complete: its envelope goes to the edge.
U2bForward(m) ==
    /\ u2b' = IF Sendable THEN "read" ELSE "done"
    /\ fragOut' = 0 /\ Send(<<F("whole", m)>>) /\ UNCHANGED ours

\* The next frame of the upstream.  Control frames may stand between the
\* fragments of a message; another message may not.
U2bFrame ==
    /\ WsPump /\ u2b = "read" /\ upOut # <<>>
    /\ upOut' = Tail(upOut)
    /\ LET f == Head(upOut) IN
       \/ f.kind = "ping" /\ u2b' = "pong" /\ UNCHANGED <<fragOut, ours, edgeGot>>
       \/ f.kind = "other" /\ UNCHANGED <<u2b, fragOut, ours, edgeGot>>
       \/ f.kind = "close" /\ u2b' = "done" /\ ours' = "ended" /\ Send(<<F("bye", 0)>>)
                           /\ UNCHANGED fragOut
       \/ f.kind \in {"whole", "inner"} /\ fragOut = 0 /\ U2bForward(f.msg)
       \/ f.kind = "tail" /\ fragOut # 0 /\ U2bForward(fragOut)
       \/ f.kind = "head" /\ fragOut = 0 /\ fragOut' = f.msg /\ UNCHANGED <<u2b, ours, edgeGot>>
       \/ /\ f.kind \in (IF fragOut # 0 THEN {"whole", "inner", "head"} ELSE {"tail"})
          /\ u2b' = "done" /\ UNCHANGED <<fragOut, ours, edgeGot>>
    /\ UNCHANGED upIn /\ U2bStep

\* The answer to its PING.
U2bPong ==
    /\ WsPump /\ u2b = "pong"
    /\ \/ Writable /\ upIn' = Append(upIn, 0) /\ u2b' = "read"
       \/ Broken /\ u2b' = "done" /\ UNCHANGED upIn
    /\ UNCHANGED <<upOut, fragOut, ours, edgeGot>> /\ U2bStep

U2bEnds ==
    /\ WsPump /\ u2b = "read" /\ upOut = <<>> /\ upEnd # "open" /\ u2b' = "done"
    /\ UNCHANGED <<upIn, upOut, fragOut, ours, edgeGot>> /\ U2bStep

\* Mutant: both directions are awaited.
WsEndsBoth ==
    /\ WsPump /\ b2u = "done" /\ u2b = "done"
    /\ ours' = "ended" /\ Goto("leave")
    /\ UNCHANGED <<reply, edgeVars, rst, edgeGot, upVars, sockVars, pumpVars>>

\* The select ends with the first direction, whatever the other was doing: the
\* stream is ended, then the socket closed.
WsEnds ==
    /\ WsPump
    /\ b2u = "done" \/ u2b = "done"
    /\ ours' = "ended" /\ Goto("leave")
    /\ UNCHANGED <<reply, edgeVars, rst, edgeGot, upVars, sockVars, pumpVars>>

Leave == pc = "leave" /\ Finish

WsPumping ==
    \/ \E n \in 1..MaxIn + MaxControl : B2uRecv(n)
    \/ B2uEnds \/ Drain \/ DrainClose \/ DrainOver
    \/ U2bFrame \/ U2bPong \/ U2bEnds

-----------------------------------------------------------------------------
(* run_tcp_bridge: one loop, which awaits the edge and the upstream, and    *)
(* neither while a write to the upstream is under way.                     *)

TcpPump == bridge = "tcp" /\ pc = "pump"

TcpStep == UNCHANGED <<bridge, reply, edgeEnd, sentIn, begunIn, ours, rst, upEnd, upGot,
                       sentOut, begunOut, socket, leftover, control, u2b, envBuf, fragOut,
                       lapsed>>

\* The loop is left.
Stop(why) == reason' = why /\ pc' = "shut" /\ UNCHANGED <<b2u, fragIn, tls, early>>
Stay      == UNCHANGED <<pc, reason>>

\* feed_tls with message m.  The first completes the handshake, and what the
\* engine buffered goes out with its answer; a later one is written out.
Feed(m) ==
    \/ /\ m = 1 /\ fragIn' = 0
       /\ Send(<<F("hello", 0)>> \o [i \in DOMAIN early |-> F("whole", early[i])])
       /\ tls' = TRUE /\ early' = <<>> /\ UNCHANGED b2u
    \/ m # 1 /\ fragIn' = m /\ b2u' = "write" /\ UNCHANGED <<edgeGot, tls, early>>

\* Mutant: a PING between two fragments is taken for the end of the message.
TcpFramePingCompletes ==
    /\ TcpPump /\ b2u = "recv" /\ wire # <<>> /\ edgeEnd # "reset"
    /\ wire' = Tail(wire)
    /\ LET f == Head(wire) IN
       \/ f.kind = "ping" /\ fragIn = 0 /\ Stay /\ UNCHANGED <<edgeGot, b2u, fragIn, tls, early>>
       \/ f.kind = "ping" /\ fragIn # 0 /\ Feed(fragIn) /\ Stay
       \/ f.kind = "whole" /\ fragIn = 0 /\ Feed(f.msg) /\ Stay
       \/ f.kind = "tail" /\ Feed(f.msg) /\ Stay
       \/ f.kind = "head" /\ fragIn' = f.msg /\ Stay /\ UNCHANGED <<edgeGot, b2u, tls, early>>
    /\ UNCHANGED <<upIn, upOut>> /\ TcpStep

\* The next frame of the edge.
TcpFrame ==
    /\ TcpPump /\ b2u = "recv" /\ wire # <<>>
    /\ wire' = Tail(wire)
    /\ LET f == Head(wire) IN
       \/ f.kind = "ping" /\ Stay /\ UNCHANGED <<edgeGot, b2u, fragIn, tls, early>>
       \/ f.kind = "close" /\ Stop("clean-eof") /\ UNCHANGED edgeGot
       \/ f.kind = "whole" /\ fragIn = 0 /\ Feed(f.msg) /\ Stay
       \/ f.kind = "tail" /\ fragIn # 0 /\ Feed(fragIn) /\ Stay
       \/ /\ f.kind = "head" /\ fragIn = 0 /\ fragIn' = f.msg
          /\ Stay /\ UNCHANGED <<edgeGot, b2u, tls, early>>
       \/ /\ f.kind \in {"other"} \cup (IF fragIn # 0 THEN {"whole", "head"} ELSE {"tail"})
          /\ Stop("protocol-error") /\ UNCHANGED edgeGot
    /\ UNCHANGED <<upIn, upOut>> /\ TcpStep

\* The engine refuses a record.
TcpFeedFails ==
    /\ TcpPump /\ b2u = "recv" /\ wire # <<>> /\ Head(wire).kind \in {"whole", "tail"}
    /\ wire' = Tail(wire) /\ Stop("tls-error")
    /\ UNCHANGED <<edgeGot, upIn, upOut>> /\ TcpStep

\* Mutant: a write that fails ends the bridge as if nothing had been lost.
TcpWriteUnchecked ==
    /\ TcpPump /\ b2u = "write"
    /\ \/ /\ Writable /\ upIn' = Append(upIn, fragIn) /\ b2u' = "recv" /\ fragIn' = 0
          /\ Stay /\ UNCHANGED <<tls, early>>
       \/ Broken /\ Stop("clean-eof") /\ UNCHANGED upIn
    /\ UNCHANGED <<wire, edgeGot, upOut>> /\ TcpStep

\* write_all of the plaintext.
TcpWrite ==
    /\ TcpPump /\ b2u = "write"
    /\ \/ /\ Writable /\ upIn' = Append(upIn, fragIn) /\ b2u' = "recv" /\ fragIn' = 0
          /\ Stay /\ UNCHANGED <<tls, early>>
       \/ Broken /\ Stop("outbound-error") /\ UNCHANGED upIn
    /\ UNCHANGED <<wire, edgeGot, upOut>> /\ TcpStep

TcpEdgeEnds ==
    /\ TcpPump /\ b2u = "recv"
    /\ \/ edgeEnd = "ended" /\ wire = <<>> /\ Stop("clean-eof")
       \/ edgeEnd = "reset" /\ Stop("inbound-error")
    /\ UNCHANGED <<wire, edgeGot, upIn, upOut>> /\ TcpStep

\* Mutant: what waits for the handshake is not limited.
TcpReadUnlimited ==
    /\ TcpPump /\ b2u = "recv" /\ upOut # <<>>
    /\ upOut' = Tail(upOut) /\ Stay
    /\ LET m == Head(upOut).msg IN
       \/ tls /\ Send(<<F("whole", m)>>) /\ UNCHANGED <<b2u, fragIn, tls, early>>
       \/ ~tls /\ early' = Append(early, m) /\ UNCHANGED <<edgeGot, b2u, fragIn, tls>>
    /\ UNCHANGED <<wire, upIn>> /\ TcpStep

\* Plaintext of the upstream: encrypted and sent, or held by the engine until
\* the handshake is over.
TcpRead ==
    /\ TcpPump /\ b2u = "recv" /\ upOut # <<>>
    /\ upOut' = Tail(upOut)
    /\ LET m == Head(upOut).msg IN
       \/ /\ tls /\ Send(<<F("whole", m)>>) /\ UNCHANGED <<b2u, fragIn, tls, early>>
          /\ pc' = (IF Sendable THEN "pump" ELSE "shut")
          /\ reason' = IF Sendable THEN reason ELSE "outbound-error"
       \/ /\ ~tls /\ Len(early) < EarlyLimit /\ early' = Append(early, m)
          /\ Stay /\ UNCHANGED <<edgeGot, b2u, fragIn, tls>>
       \/ ~tls /\ Len(early) >= EarlyLimit /\ Stop("tls-error") /\ UNCHANGED edgeGot
    /\ UNCHANGED <<wire, upIn>> /\ TcpStep

TcpUpstreamEnds ==
    /\ TcpPump /\ b2u = "recv"
    /\ \/ upEnd = "eof" /\ upOut = <<>> /\ Stop("clean-eof")
       \/ upEnd = "error" /\ Stop("outbound-error")
    /\ UNCHANGED <<wire, edgeGot, upIn, upOut>> /\ TcpStep

TcpPumping == TcpFrame \/ TcpFeedFails \/ TcpWrite \/ TcpEdgeEnds \/ TcpRead \/ TcpUpstreamEnds

-----------------------------------------------------------------------------
(* The end of run_tcp_bridge and finish_tcp_bridge.                        *)

\* Shut down our half towards the upstream, which is not read any more.
TcpShut ==
    /\ pc = "shut" /\ Goto("notify") /\ socket' = "shut"
    /\ UNCHANGED <<reply, edgeVars, ourVars, upVars, leftover, upOut, pumpVars>>

TcpNotify ==
    /\ pc = "notify" /\ Goto("close") /\ Send(<<F("notify", 0)>>)
    /\ UNCHANGED <<reply, edgeVars, ours, rst, upVars, sockVars, pumpVars>>

\* The CLOSE frame with the code of the reason, and the end of our half.  A
\* bridge that never reached its upstream does not wait for the edge.
TcpClose ==
    /\ pc = "close" /\ Goto(IF socket = "none" THEN "leave" ELSE "linger")
    /\ Send(<<F("close", CloseCode(reason))>>) /\ ours' = "ended"
    /\ UNCHANGED <<reply, edgeVars, rst, upVars, sockVars, pumpVars>>

\* Mutant: the edge's end is not waited for.
TcpLingerNot ==
    /\ pc = "linger" /\ Goto("leave")
    /\ UNCHANGED <<reply, edgeVars, ourVars, upVars, sockVars, pumpVars>>

\* The edge's frames are read to their end, for a while.
TcpLinger ==
    /\ pc = "linger" /\ Goto("leave")
    /\ lapsed' = (edgeEnd = "open")
    /\ UNCHANGED <<reply, edgeVars, ourVars, upVars, sockVars, b2u, u2b, envBuf, fragIn, fragOut,
                   tls, early, reason>>

Closing == WsEnds \/ Leave \/ TcpShut \/ TcpNotify \/ TcpClose \/ TcpLinger

-----------------------------------------------------------------------------
(* The edge and the upstream.                                              *)

\* What they do after the task has returned does not matter any more.
Outside ==
    /\ pc # "done"
    /\ UNCHANGED <<bridge, pc, reply, ours, rst, edgeGot, socket, leftover, pumpVars>>

\* Frames one side may send next, of n messages so far, begun if a head is out.
NextFrames(n, begun, max) ==
    IF begun THEN {F("tail", n + 1)}
    ELSE IF n < max THEN {F("whole", n + 1), F("head", n + 1)} ELSE {}

Completed(f, n) == IF f.kind \in {"whole", "tail"} THEN n + 1 ELSE n

\* The stream was accepted and neither half has ended.
EdgeSends ==
    /\ ours = "open" /\ pc # "await" /\ edgeEnd = "open"
    /\ \/ \E f \in NextFrames(sentIn, begunIn, MaxIn) :
            /\ wire' = Append(wire, f) /\ begunIn' = (f.kind = "head")
            /\ sentIn' = Completed(f, sentIn) /\ UNCHANGED control
       \/ \E k \in {"ping", "close", "other", "bye"} :
            /\ control < MaxControl /\ control' = control + 1
            /\ k = "bye" => bridge = "ws" /\ ~begunIn
            /\ wire' = Append(wire, F(k, IF k = "bye" THEN sentIn ELSE 0))
            /\ UNCHANGED <<sentIn, begunIn>>
    /\ UNCHANGED <<edgeEnd, upVars, upOut>> /\ Outside

EdgeEnds ==
    /\ ours # "none" /\ pc # "await" /\ edgeEnd = "open"
    /\ edgeEnd' \in {"ended", "reset"}
    /\ UNCHANGED <<wire, sentIn, begunIn, upVars, upOut, control>> /\ Outside

\* A ws upstream fragments and sends control frames; a tcp upstream has bytes.
UpstreamSends ==
    /\ socket = "open" /\ upEnd = "open"
    /\ \/ \E f \in NextFrames(sentOut, begunOut, MaxOut) :
            /\ bridge = "tcp" => f.kind = "whole"
            /\ upOut' = Append(upOut, f) /\ begunOut' = (f.kind = "head")
            /\ sentOut' = Completed(f, sentOut) /\ UNCHANGED control
       \/ \E k \in {"ping", "close", "other"} :
            /\ bridge = "ws" /\ control < MaxControl /\ control' = control + 1
            /\ upOut' = Append(upOut, F(k, 0)) /\ UNCHANGED <<sentOut, begunOut>>
       \/ \* a message begun inside another
          /\ bridge = "ws" /\ begunOut /\ control < MaxControl /\ control' = control + 1
          /\ upOut' = Append(upOut, F("inner", sentOut + 1)) /\ UNCHANGED <<sentOut, begunOut>>
    /\ UNCHANGED <<edgeVars, upEnd, upIn, upGot>> /\ Outside

UpstreamReads ==
    /\ upIn # <<>> /\ upEnd # "error"
    /\ upIn' = Tail(upIn)
    /\ upGot' = IF Head(upIn) = 0 THEN upGot ELSE Append(upGot, Head(upIn))
    /\ UNCHANGED <<edgeVars, upEnd, sentOut, begunOut, upOut, control>> /\ Outside

UpstreamEnds ==
    /\ socket \in {"open", "shut"} /\ upEnd = "open"
    /\ upEnd' \in {"eof", "error"}
    /\ UNCHANGED <<edgeVars, upIn, upGot, sentOut, begunOut, upOut, control>> /\ Outside

-----------------------------------------------------------------------------
Task == Opening \/ WsPumping \/ TcpPumping \/ Closing

Next ==
    \/ Task \/ Abort
    \/ EdgeSends \/ EdgeEnds \/ UpstreamSends \/ UpstreamReads \/ UpstreamEnds
    \/ pc = "done" /\ UNCHANGED vars

\* The executor polls the task, its timers fire, and the upstream reads what it
\* is sent or goes away.  Nothing else is assumed of the edge or the upstream.
Fairness == WF_vars(Task) /\ WF_vars(upEnd = "open" /\ UpstreamReads)

Spec == Init /\ [][Next]_vars /\ Fairness

-----------------------------------------------------------------------------
(* Properties.                                                             *)

TypeOK ==
    /\ bridge \in {"ws", "tcp"}
    /\ pc \in {"upgrade", "reply", "connect", "await", "dial", "pump", "shut", "notify", "close",
               "linger", "leave", "done"}
    /\ reply \in {0, 200, 400, 403, 502, 504}
    /\ edgeEnd \in {"open", "ended", "reset"} /\ ours \in {"none", "open", "ended"}
    /\ rst \in BOOLEAN /\ sentIn \in 0..MaxIn /\ begunIn \in BOOLEAN
    /\ socket \in {"none", "open", "shut", "closed"} /\ upEnd \in {"open", "eof", "error"}
    /\ sentOut \in 0..MaxOut /\ begunOut \in BOOLEAN /\ control \in 0..MaxControl
    /\ Len(upIn) <= Room /\ Len(early) <= EarlyLimit
    /\ b2u \in {"recv", "drain", "write", "done"} /\ u2b \in {"read", "pong", "done"}
    /\ fragIn \in 0..MaxIn /\ fragOut \in 0..MaxOut /\ tls \in BOOLEAN
    /\ reason \in {"clean-eof", "protocol-error", "outbound-error", "inbound-error", "tls-error"}
    /\ lapsed \in BOOLEAN

\* The messages of the edge the upstream has, read or not; those of the
\* upstream the edge has.
AtUpstream == Those(upGot \o upIn, Nat \ {0})
AtEdge     == LET whole == Those(edgeGot, FramesOf({"whole"}))
              IN  [i \in DOMAIN whole |-> whole[i].msg]

\* The first message of the edge that is for the upstream.
FirstIn == IF bridge = "ws" THEN 1 ELSE 2

\* Each side receives a prefix of what the other sent: in order, each message
\* once, none joined to another, however they are cut into frames and whatever
\* control frames come in between.
StreamsInOrder ==
    /\ LET got == AtUpstream IN \A i \in DOMAIN got : got[i] = i + FirstIn - 1
    /\ LET got == AtEdge IN \A i \in DOMAIN got : got[i] = i

\* Messages that have been taken in whole from one side.
Lasts    == FramesOf({"whole", "tail"})
TakenIn  == sentIn - Len(Those(wire, Lasts))
TakenOut == sentOut - Len(Those(leftover \o upOut, Lasts))

\* While the pump waits for either side it holds nothing back: every message it
\* has received is on its way (or waits for the TLS handshake).
NothingHeldBack ==
    pc = "pump" /\ b2u = "recv" /\ u2b = "read" =>
        /\ (bridge = "ws" \/ tls) => Len(AtUpstream) = TakenIn - FirstIn + 1
        /\ edgeEnd = "open" => Len(AtEdge) + Len(early) = TakenOut

\* A tcp bridge tells the edge that it closed cleanly only if everything it had
\* received from either side was passed on.
CleanIsComplete ==
    bridge = "tcp" /\ pc = "close" /\ reason = "clean-eof" /\ tls =>
        /\ Len(AtUpstream) = TakenIn - 1
        /\ edgeEnd # "reset" => Len(AtEdge) = TakenOut

\* What the comment at the end of run_tcp_bridge is about: the edge's stream is
\* not reset under the close_notify and CLOSE of a bridge, unless the edge kept
\* it open beyond the grace period or the task was aborted.
NoResetAfterClose ==
    [][bridge = "tcp" /\ pc = "leave" /\ socket # "none" /\ rst' /\ ~rst => lapsed]_vars

\* When either side has ended, the task ends.
BridgeEnds == pc = "pump" /\ (edgeEnd # "open" \/ upEnd # "open") ~> pc = "done"
=============================================================================
