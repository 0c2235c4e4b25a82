------------------------- MODULE TunnelDispatchProofs -------------------------
(***************************************************************************)
(* What the runs of Dispatch.cfg show of a dispatch, proved for every      *)
(* number of messages and every bound.                                     *)
(*                                                                         *)
(* Either direction of a bridge is a pipe: the messages that were passed   *)
(* on are 1, 2, 3 ..., and the frames still on their way go on from there. *)
(* Flow states that of a sequence of frames; a frame that is sent is       *)
(* appended to it (FlowAppend), one that is received is its head           *)
(* (FlowTake).  A direction that was given up only keeps its order.        *)
(***************************************************************************)
EXTENDS TunnelDispatch, SelectionTheorems, TLAPS

\* Every frame.
Frames == [kind : Parts \cup Control \cup {"bye", "inner", "hello", "notify"}, msg : Nat]

\* The messages that have gone by once f has, and whether one is left open.
OpenAfter(f) == f.kind \in {"head", "inner"}
DoneAfter(f) == IF OpenAfter(f) THEN f.msg - 1 ELSE f.msg

\* f may come next after so many messages, one of them open.
Fits(f, done, open) ==
    /\ f.msg = IF f.kind = "bye" THEN done ELSE done + 1
    /\ open <=> f.kind \in {"tail", "inner"}

\* The frames q lead from the first position to the second.
Chain(q, done, open, sent, begun) ==
    /\ q = <<>> => done = sent /\ (open <=> begun)
    /\ q # <<>> => /\ Fits(q[1], done, open)
                   /\ DoneAfter(q[Len(q)]) = sent /\ (OpenAfter(q[Len(q)]) <=> begun)
    /\ \A i \in 1..Len(q) - 1 : Fits(q[i + 1], DoneAfter(q[i]), OpenAfter(q[i]))

\* So do those of the kinds K, and each message between has its last frame in q.
Flow(q, K, done, open, sent, begun) ==
    /\ Chain(Those(q, FramesOf(K)), done, open, sent, begun)
    /\ Len(Those(q, Lasts)) = sent - done

Kinds == Parts \cup {"bye", "inner"}

\* A frame that fits the end of a chain prolongs it.
LEMMA ChainAppend ==
    ASSUME NEW q \in Seq(Frames), NEW f \in Frames, NEW done, NEW open, NEW sent, NEW begun,
           Chain(q, done, open, sent, begun), Fits(f, sent, begun)
    PROVE  Chain(Append(q, f), done, open, DoneAfter(f), OpenAfter(f))
<1> DEFINE p == Append(q, f)
<1>1. /\ p \in Seq(Frames) /\ p # <<>> /\ Len(q) \in Nat /\ Len(p) = Len(q) + 1
      /\ p[Len(q) + 1] = f /\ \A i \in 1..Len(q) : p[i] = q[i]
  OBVIOUS
<1>2. q = <<>> <=> Len(q) = 0
  OBVIOUS
<1> HIDE DEF p
<1>3. Fits(p[1], done, open)
  <2>1. CASE q = <<>>
    <3>1. p[1] = f /\ done = sent /\ (open <=> begun)
      BY <1>1, <1>2, <2>1 DEF Chain
    <3>2. QED
      BY <3>1 DEF Fits
  <2>2. CASE q # <<>>
    <3>1. p[1] = q[1]
      BY <1>1, <1>2, <2>2
    <3>2. QED
      BY <2>2, <3>1 DEF Chain
  <2>3. QED
    BY <2>1, <2>2
<1>4. ASSUME NEW i \in 1..Len(p) - 1 PROVE Fits(p[i + 1], DoneAfter(p[i]), OpenAfter(p[i]))
  <2>1. CASE i = Len(q)
    <3>1. p[i + 1] = f /\ p[i] = q[Len(q)] /\ q # <<>>
      BY <1>1, <1>2, <2>1
    <3>2. DoneAfter(p[i]) = sent /\ (OpenAfter(p[i]) <=> begun)
      BY <3>1 DEF Chain
    <3>3. QED
      BY <3>1, <3>2 DEF Fits
  <2>2. CASE i # Len(q)
    <3>1. i \in 1..Len(q) - 1 /\ p[i + 1] = q[i + 1] /\ p[i] = q[i]
      BY <1>1, <2>2
    <3>2. QED
      BY <3>1 DEF Chain
  <2>3. QED
    BY <2>1, <2>2
<1>5. p[Len(p)] = f
  BY <1>1
<1>6. Chain(p, done, open, DoneAfter(f), OpenAfter(f))
  BY <1>1, <1>3, <1>4, <1>5 DEF Chain
<1>7. QED
  BY <1>6 DEF p

\* The rest of a chain is one from where its first frame leads.
LEMMA ChainTail ==
    ASSUME NEW q \in Seq(Frames), q # <<>>, NEW done, NEW open, NEW sent, NEW begun,
           Chain(q, done, open, sent, begun)
    PROVE  /\ Fits(Head(q), done, open)
           /\ Chain(Tail(q), DoneAfter(Head(q)), OpenAfter(Head(q)), sent, begun)
<1> DEFINE p == Tail(q)
<1>1. /\ p \in Seq(Frames) /\ Len(p) \in Nat /\ Len(q) = Len(p) + 1 /\ Head(q) = q[1]
      /\ \A i \in 1..Len(p) : p[i] = q[i + 1]
  OBVIOUS
<1> HIDE DEF p
<1>2. p = <<>> <=> Len(p) = 0
  BY <1>1, EmptySeq
<1>3. Fits(q[1], done, open)
  BY DEF Chain
<1>4. CASE p = <<>>
  <2>1. Len(q) = 1
    BY <1>1, <1>2, <1>4
  <2>2. DoneAfter(q[1]) = sent /\ (OpenAfter(q[1]) <=> begun)
    BY <2>1 DEF Chain
  <2>3. Chain(p, DoneAfter(q[1]), OpenAfter(q[1]), sent, begun)
    BY <1>1, <1>2, <1>4, <2>2 DEF Chain
  <2>4. QED
    BY <1>1, <1>3, <2>3 DEF p
<1>5. CASE p # <<>>
  <2>1. p[1] = q[1 + 1] /\ p[Len(p)] = q[Len(q)] /\ 1 \in 1..Len(q) - 1
    BY <1>1, <1>2, <1>5
  <2>2. Fits(p[1], DoneAfter(q[1]), OpenAfter(q[1]))
    BY <2>1 DEF Chain
  <2>3. DoneAfter(p[Len(p)]) = sent /\ (OpenAfter(p[Len(p)]) <=> begun)
    BY <2>1 DEF Chain
  <2>4. ASSUME NEW i \in 1..Len(p) - 1 PROVE Fits(p[i + 1], DoneAfter(p[i]), OpenAfter(p[i]))
    <3>1. i + 1 \in 1..Len(q) - 1 /\ p[i] = q[i + 1] /\ p[i + 1] = q[(i + 1) + 1]
      BY <1>1
    <3>2. QED
      BY <3>1 DEF Chain
  <2>5. Chain(p, DoneAfter(q[1]), OpenAfter(q[1]), sent, begun)
    BY <1>5, <2>2, <2>3, <2>4 DEF Chain
  <2>6. QED
    BY <1>1, <1>3, <2>5 DEF p
<1>6. QED
  BY <1>4, <1>5

\* Frames by their kinds.
LEMMA FrameKinds ==
    ASSUME NEW f \in Frames
    PROVE  /\ \A K : f \in FramesOf(K) <=> f.kind \in K
           /\ f \in Lasts <=> f.kind \in {"whole", "tail"}
           /\ f.msg \in Nat
BY DEF Frames, FramesOf, Lasts

\* A frame that fits is sent.
LEMMA FlowAppend ==
    ASSUME NEW q \in Seq(Frames), NEW f \in Frames, NEW K, Parts \subseteq K, K \subseteq Kinds,
           NEW done \in Nat, NEW open, NEW sent \in Nat, NEW begun,
           Flow(q, K, done, open, sent, begun)
    PROVE  /\ f.kind \notin K => Flow(Append(q, f), K, done, open, sent, begun)
           /\ f.kind \in K /\ Fits(f, sent, begun) =>
                 Flow(Append(q, f), K, done, open, DoneAfter(f), OpenAfter(f))
<1> DEFINE S == FramesOf(K)
           p == Append(q, f)
<1>1. Those(p, S) = IF f \in S THEN Append(Those(q, S), f) ELSE Those(q, S)
  BY ThoseAppend
<1>2. Those(p, Lasts) = IF f \in Lasts THEN Append(Those(q, Lasts), f) ELSE Those(q, Lasts)
  BY ThoseAppend
<1>3. Those(q, S) \in Seq(Frames) /\ Those(q, Lasts) \in Seq(Frames)
  BY ThoseIn
<1>4. /\ f \in S <=> f.kind \in K
      /\ f \in Lasts <=> f.kind \in {"whole", "tail"}
      /\ f.msg \in Nat
  BY FrameKinds
<1>5. Chain(Those(q, S), done, open, sent, begun) /\ Len(Those(q, Lasts)) = sent - done
  BY DEF Flow
<1> HIDE DEF p, S
<1>6. ASSUME f.kind \notin K PROVE Flow(p, K, done, open, sent, begun)
  <2>1. Those(p, S) = Those(q, S) /\ Those(p, Lasts) = Those(q, Lasts)
    BY <1>1, <1>2, <1>4, <1>6 DEF Parts
  <2>2. QED
    BY <1>5, <2>1 DEF Flow, S
<1>7. ASSUME f.kind \in K, Fits(f, sent, begun)
      PROVE  Flow(p, K, done, open, DoneAfter(f), OpenAfter(f))
  <2>1. Chain(Those(p, S), done, open, DoneAfter(f), OpenAfter(f))
    <3> DEFINE u == Those(q, S)
    <3>1. u \in Seq(Frames) /\ Those(p, S) = Append(u, f) /\ Chain(u, done, open, sent, begun)
      BY <1>1, <1>3, <1>4, <1>5, <1>7
    <3> HIDE DEF u
    <3>2. QED
      BY <1>7, <3>1, ChainAppend
  <2>2. Len(Those(p, Lasts)) = DoneAfter(f) - done
    <3>1. CASE f.kind \in {"whole", "tail"}
      <4>1. Len(Those(p, Lasts)) = Len(Those(q, Lasts)) + 1
        BY <1>2, <1>3, <1>4, <3>1
      <4>2. DoneAfter(f) = sent + 1
        BY <1>7, <3>1 DEF Fits, DoneAfter, OpenAfter
      <4>3. QED
        BY <1>5, <4>1, <4>2
    <3>2. CASE f.kind \notin {"whole", "tail"}
      <4>1. f.kind \in {"head", "bye", "inner"}
        BY <1>7, <3>2 DEF Kinds, Parts
      <4>2. DoneAfter(f) = sent
        BY <1>4, <1>7, <4>1 DEF Fits, DoneAfter, OpenAfter
      <4>3. QED
        BY <1>2, <1>4, <1>5, <3>2, <4>2
    <3>3. QED
      BY <3>1, <3>2
  <2>3. QED
    BY <2>1, <2>2 DEF Flow, S
<1>8. QED
  BY <1>6, <1>7 DEF p

\* The next frame is the one that fits.
LEMMA FlowTake ==
    ASSUME NEW q \in Seq(Frames), q # <<>>, NEW K, Parts \subseteq K, K \subseteq Kinds,
           NEW done \in Nat, NEW open, NEW sent \in Nat, NEW begun,
           Flow(q, K, done, open, sent, begun)
    PROVE  /\ Head(q).kind \notin K => Flow(Tail(q), K, done, open, sent, begun)
           /\ Head(q).kind \in K =>
                 /\ Fits(Head(q), done, open)
                 /\ Flow(Tail(q), K, DoneAfter(Head(q)), OpenAfter(Head(q)), sent, begun)
<1> DEFINE S == FramesOf(K)
           h == Head(q)
           p == Tail(q)
<1>0. h \in Frames /\ p \in Seq(Frames)
  OBVIOUS
<1>1. Those(q, S) = IF h \in S THEN <<h>> \o Those(p, S) ELSE Those(p, S)
  BY ThoseHead
<1>2. Those(q, Lasts) = IF h \in Lasts THEN <<h>> \o Those(p, Lasts) ELSE Those(p, Lasts)
  BY ThoseHead
<1> HIDE DEF h, p
<1>3. Those(p, S) \in Seq(Frames) /\ Those(p, Lasts) \in Seq(Frames)
  BY <1>0, ThoseIn
<1>4. /\ h \in S <=> h.kind \in K
      /\ h \in Lasts <=> h.kind \in {"whole", "tail"}
      /\ h.msg \in Nat
  BY <1>0, FrameKinds
<1>5. Chain(Those(q, S), done, open, sent, begun) /\ Len(Those(q, Lasts)) = sent - done
  BY DEF Flow
<1> HIDE DEF S
<1>6. ASSUME h.kind \notin K PROVE Flow(p, K, done, open, sent, begun)
  <2>1. Those(p, S) = Those(q, S) /\ Those(p, Lasts) = Those(q, Lasts)
    BY <1>1, <1>2, <1>4, <1>6 DEF Parts
  <2>2. QED
    BY <1>5, <2>1 DEF Flow, S
<1>7. ASSUME h.kind \in K
      PROVE  Fits(h, done, open) /\ Flow(p, K, DoneAfter(h), OpenAfter(h), sent, begun)
  <2>1. Fits(h, done, open) /\ Chain(Those(p, S), DoneAfter(h), OpenAfter(h), sent, begun)
    <3> DEFINE u == Those(q, S)
    <3>1. /\ u \in Seq(Frames) /\ u # <<>> /\ Head(u) = h /\ Tail(u) = Those(p, S)
          /\ Chain(u, done, open, sent, begun)
      BY <1>0, <1>1, <1>3, <1>4, <1>5, <1>7
    <3> HIDE DEF u
    <3>2. QED
      BY <3>1, ChainTail
  <2>2. Len(Those(p, Lasts)) = sent - DoneAfter(h)
    <3>1. CASE h.kind \in {"whole", "tail"}
      <4>1. Len(Those(q, Lasts)) = Len(Those(p, Lasts)) + 1
        BY <1>0, <1>2, <1>3, <1>4, <3>1
      <4>2. DoneAfter(h) = done + 1
        BY <2>1, <3>1 DEF Fits, DoneAfter, OpenAfter
      <4>3. Len(Those(p, Lasts)) \in Nat
        BY <1>3
      <4>4. QED
        BY <1>5, <4>1, <4>2, <4>3
    <3>2. CASE h.kind \notin {"whole", "tail"}
      <4>1. h.kind \in {"head", "bye", "inner"}
        BY <1>7, <3>2 DEF Kinds, Parts
      <4>2. DoneAfter(h) = done
        BY <1>4, <2>1, <4>1 DEF Fits, DoneAfter, OpenAfter
      <4>3. QED
        BY <1>2, <1>4, <1>5, <3>2, <4>2
    <3>3. QED
      BY <3>1, <3>2
  <2>3. QED
    BY <2>1, <2>2 DEF Flow, S
<1>8. QED
  BY <1>6, <1>7 DEF h, p

\* Nothing on its way.
LEMMA FlowEmpty ==
    ASSUME NEW K, NEW done \in Nat, NEW open, NEW sent \in Nat, NEW begun
    PROVE  Flow(<<>>, K, done, open, sent, begun) <=> done = sent /\ (open <=> begun)
<1>1. Those(<<>>, FramesOf(K)) = <<>> /\ Those(<<>>, Lasts) = <<>>
  BY ThoseEmpty
<1>2. Len(<<>>) = 0 /\ 1..Len(<<>>) - 1 = {}
  OBVIOUS
<1>3. Chain(<<>>, done, open, sent, begun) <=> done = sent /\ (open <=> begun)
  BY <1>2 DEF Chain
<1>4. QED
  BY <1>1, <1>2, <1>3 DEF Flow

\* What the edge and the upstream send, and what goes to the edge.
EdgeFrames == [kind : Parts \cup Control \cup {"bye"}, msg : 0..MaxIn]
UpFrames   == [kind : Parts \cup Control \cup {"inner"}, msg : 0..MaxOut]

InKinds  == Parts \cup {"bye"}
InFrames == [kind : InKinds, msg : 0..MaxIn]
OutKinds == Parts \cup {"inner"}

QueueTypes ==
    /\ wire \in Seq(EdgeFrames)
    /\ leftover \in Seq(UpFrames) /\ upOut \in Seq(UpFrames)
    /\ edgeGot \in Seq(Frames) /\ upGot \in Seq(Nat) /\ upIn \in Seq(Nat)
    /\ early \in Seq(Nat)
    /\ begunIn => sentIn < MaxIn
    /\ begunOut => sentOut < MaxOut

\* Before the pump begins, what the upstream sent along with its head waits.
OpeningInv ==
    /\ pc = "upgrade" => /\ socket = "none" /\ leftover = <<>> /\ upOut = <<>>
                         /\ sentOut = 0 /\ ~begunOut
    /\ pc \notin {"upgrade", "reply", "connect", "await"} => leftover = <<>>
    /\ bridge = "tcp" => /\ pc \notin {"upgrade", "reply"} /\ leftover = <<>> /\ ~begunOut
                         /\ upOut \in Seq(FramesOf({"whole"}))
                         /\ b2u \in {"recv", "write"}
    /\ bridge = "ws" => pc \in {"upgrade", "reply", "connect", "await", "pump", "leave", "done"}
                        /\ early = <<>> /\ b2u # "write"

\* The pump has no reason to close yet; a tcp bridge that stopped while it wrote has one.
ReasonInv ==
    /\ pc \notin {"shut", "notify", "close", "linger", "leave"} => reason = "clean-eof"
    /\ bridge = "tcp" /\ b2u = "write" /\ pc # "pump" => reason # "clean-eof"

Typed == TypeOK /\ QueueTypes /\ OpeningInv

InMessages  == Len(AtUpstream)
OutMessages == Len(AtEdge)

\* StreamsInOrder, for either side.
InOrder  == \A i \in DOMAIN AtUpstream : AtUpstream[i] = i + FirstIn - 1
OutOrder == \A i \in DOMAIN AtEdge : AtEdge[i] = i

\* From the edge to the upstream, through envelopes.
\* The stream is given up where the dispatch ends or, of a ws bridge, its direction does.
WsIn ==
    bridge = "ws" /\ pc # "done" /\ b2u # "done" =>
        /\ envBuf \in Seq(InFrames)
        /\ b2u = "recv" => EnvelopeFrames = 0
        /\ Flow(envBuf \o wire, InKinds, InMessages, FALSE, sentIn, begunIn)

\* The same through the terminator, whose handshake is message 1.
TcpIn ==
    bridge = "tcp" /\ pc # "done" /\ reason = "clean-eof" =>
        IF b2u = "write"
        THEN /\ tls /\ fragIn = InMessages + 2
             /\ Flow(wire, InKinds, fragIn, FALSE, sentIn, begunIn)
        ELSE LET done == IF tls THEN InMessages + 1 ELSE 0
             IN  /\ ~tls => InMessages = 0
                 /\ fragIn # 0 => fragIn = done + 1
                 /\ Flow(wire, InKinds, done, fragIn # 0, sentIn, begunIn)

WsOut ==
    bridge = "ws" /\ pc # "done" /\ u2b # "done" =>
        /\ fragOut # 0 => fragOut = OutMessages + 1
        /\ Flow(leftover \o upOut, OutKinds, OutMessages, fragOut # 0, sentOut, begunOut)

TcpOut ==
    bridge = "tcp" /\ pc # "done" /\ reason = "clean-eof" /\ edgeEnd # "reset" =>
        /\ tls => early = <<>>
        /\ \A i \in DOMAIN early : early[i] = OutMessages + i
        /\ Flow(upOut, OutKinds, OutMessages + Len(early), FALSE, sentOut, FALSE)

LingerInv ==
    bridge = "tcp" /\ pc = "leave" /\ socket # "none" /\ edgeEnd = "open" => lapsed

InInv  == InOrder /\ WsIn /\ TcpIn
OutInv == OutOrder /\ WsOut /\ TcpOut

BridgeInv == Typed /\ ReasonInv /\ InInv /\ OutInv /\ LingerInv

\* TypeOK by kinds: flags, labels and counts.
FlagTypes ==
    /\ rst \in BOOLEAN /\ begunIn \in BOOLEAN /\ begunOut \in BOOLEAN /\ tls \in BOOLEAN
    /\ lapsed \in BOOLEAN

LabelTypes ==
    /\ bridge \in {"ws", "tcp"}
    /\ pc \in {"upgrade", "reply", "connect", "await", "dial", "pump", "shut", "notify", "close",
               "linger", "leave", "done"}
    /\ edgeEnd \in {"open", "ended", "reset"} /\ ours \in {"none", "open", "ended"}
    /\ socket \in {"none", "open", "shut", "closed"} /\ upEnd \in {"open", "eof", "error"}
    /\ b2u \in {"recv", "drain", "write", "done"} /\ u2b \in {"read", "pong", "done"}
    /\ reason \in {"clean-eof", "protocol-error", "outbound-error", "inbound-error", "tls-error"}

CountTypes ==
    /\ reply \in {0, 200, 400, 403, 502, 504}
    /\ sentIn \in 0..MaxIn /\ sentOut \in 0..MaxOut /\ control \in 0..MaxControl
    /\ Len(upIn) <= Room /\ Len(early) <= EarlyLimit
    /\ fragIn \in 0..MaxIn /\ fragOut \in 0..MaxOut

\* The provers take flags, labels and counts apart.
LEMMA TypeParts == TypeOK <=> FlagTypes /\ LabelTypes /\ CountTypes
BY DEF TypeOK, FlagTypes, LabelTypes, CountTypes

\* Frames and their kinds.
LEMMA FrameFacts ==
    /\ \A k, m : F(k, m).kind = k /\ F(k, m).msg = m
    /\ \A k \in Parts \cup Control \cup {"bye"}, m \in 0..MaxIn : F(k, m) \in EdgeFrames
    /\ \A k \in Parts \cup Control \cup {"inner"}, m \in 0..MaxOut : F(k, m) \in UpFrames
    /\ EdgeFrames \subseteq Frames /\ UpFrames \subseteq Frames /\ InFrames \subseteq EdgeFrames
    /\ \A k \in Parts \cup Control \cup {"bye", "hello", "notify"}, m \in Nat : F(k, m) \in Frames
<1>1. MaxIn \in Nat /\ MaxOut \in Nat
  BY BridgeAssumption
<1>2. QED
  BY <1>1 DEF F, EdgeFrames, UpFrames, InFrames, InKinds, Frames

\* What Finish leaves.
LEMMA FinishTypes ==
    ASSUME TypeOK, QueueTypes, OpeningInv, Finish PROVE TypeOK' /\ QueueTypes' /\ OpeningInv'
<1>1. TypeOK'
  <2>1. /\ pc' = "done" /\ b2u' = "recv" /\ u2b' = "read" /\ fragIn' = 0 /\ fragOut' = 0
        /\ tls' = FALSE /\ early' = <<>> /\ reason' = "clean-eof" /\ lapsed' = FALSE
        /\ socket' \in {"none", "closed"}
        /\ UNCHANGED <<bridge, control, reply, edgeVars, ours, upVars>>
    BY DEF Finish, Goto
  <2>2. rst' \in BOOLEAN
    BY DEF Finish, TypeOK
  <2>3. 0 \in 0..MaxIn /\ 0 \in 0..MaxOut /\ Len(<<>>) <= EarlyLimit
    BY BridgeAssumption
  <2>4. FlagTypes /\ LabelTypes /\ CountTypes
    BY TypeParts
  <2>5. FlagTypes'
    BY <2>1, <2>2, <2>4 DEF FlagTypes, edgeVars, upVars
  <2>6. LabelTypes'
    BY <2>1, <2>4 DEF LabelTypes, edgeVars, upVars
  <2>7. CountTypes'
    BY <2>1, <2>3, <2>4 DEF CountTypes, edgeVars, upVars
  <2>8. QED
    BY <2>5, <2>6, <2>7, TypeParts DEF TypeOK, FlagTypes, LabelTypes, CountTypes
<1>2. /\ pc' = "done" /\ leftover' = <<>> /\ upOut' = <<>> /\ early' = <<>> /\ b2u' = "recv"
      /\ UNCHANGED <<bridge, wire, sentIn, begunIn, edgeGot, upGot, upIn, sentOut, begunOut>>
  BY DEF Finish, Goto, edgeVars, upVars
<1>3. <<>> \in Seq(UpFrames) /\ <<>> \in Seq(Nat) /\ <<>> \in Seq(FramesOf({"whole"}))
  OBVIOUS
<1>4. QueueTypes'
  BY <1>2, <1>3 DEF QueueTypes
<1>5. OpeningInv'
  BY <1>2, <1>3 DEF OpeningInv
<1>6. QED
  BY <1>1, <1>4, <1>5

\* The steps up to the pump keep the types.
LEMMA OpeningTypes ==
    ASSUME TypeOK, QueueTypes, OpeningInv, Opening \/ Abort PROVE TypeOK' /\ QueueTypes' /\ OpeningInv'
<1>1. CASE Abort \/ SendFails \/ NotAccepted
  BY <1>1, FinishTypes DEF Abort, SendFails, NotAccepted
<1>2. CASE RejectEnvelope \/ PostAccept \/ Connect \/ DialUpstream \/ DialFails
           \/ \E code \in {200, 403, 502, 504} : UpstreamRefuses(code)
  <2>1. TypeOK'
    BY <1>2 DEF TypeOK, RejectEnvelope, PostAccept, Connect, DialUpstream, DialFails,
       UpstreamRefuses, Goto, edgeVars, ourVars, upVars, sockVars, pumpVars
  <2>2. UNCHANGED <<bridge, wire, sentIn, begunIn, edgeGot, upGot, upIn, sentOut, begunOut,
                    leftover, upOut, early, b2u>>
    BY <1>2 DEF RejectEnvelope, PostAccept, Connect, DialUpstream, DialFails,
       UpstreamRefuses, Goto, edgeVars, ourVars, upVars, sockVars, pumpVars
  <2>3. QueueTypes'
    BY <2>2 DEF QueueTypes
  <2>4. /\ pc' # "upgrade" /\ pc \in {"upgrade", "reply", "connect", "dial"}
        /\ pc' \in {"done", "connect", "await", "pump", "notify"}
        /\ pc \in {"upgrade", "reply"} => pc' \in {"done", "connect"}
        /\ pc = "connect" => pc' = "await"
        /\ pc = "dial" => pc' \in {"pump", "notify"}
    BY <1>2 DEF RejectEnvelope, PostAccept, Connect, DialUpstream, DialFails,
       UpstreamRefuses, Goto
  <2>5. pc \in {"upgrade", "dial"} => leftover = <<>>
    BY DEF OpeningInv
  <2>6. pc' = "connect" => pc = "reply"
    BY <1>2 DEF RejectEnvelope, PostAccept, Connect, DialUpstream, DialFails,
       UpstreamRefuses, Goto
  <2>7. pc = "upgrade" => pc' = "done"
    BY <2>4, <2>6
  <2>8. pc = "reply" => pc' # "done"
    BY <1>2 DEF RejectEnvelope, PostAccept, Connect, DialUpstream, DialFails,
       UpstreamRefuses, Goto
  <2>9. OpeningInv'
    BY <2>2, <2>4, <2>5, <2>7, <2>8 DEF OpeningInv
  <2>10. QED
    BY <2>1, <2>3, <2>9
<1>3. CASE UpstreamAccepts
  <2>1. /\ pc = "upgrade" /\ pc' = "reply" /\ socket' = "open" /\ leftover = <<>>
        /\ \/ UNCHANGED <<leftover, sentOut>>
           \/ MaxOut > 0 /\ leftover' = <<F("whole", 1)>> /\ sentOut' = 1
        /\ UNCHANGED <<bridge, control, reply, edgeVars, ourVars, upEnd, upIn, upGot, begunOut,
                       upOut, pumpVars>>
    BY <1>3 DEF UpstreamAccepts, Goto, OpeningInv
  <2>2. TypeOK'
    BY <2>1, BridgeAssumption DEF TypeOK, edgeVars, ourVars, pumpVars
  <2>3. leftover' \in Seq(UpFrames)
    <3>1. CASE MaxOut > 0 /\ leftover' = <<F("whole", 1)>>
      <4>1. F("whole", 1) \in UpFrames
        BY <3>1, BridgeAssumption, FrameFacts DEF Parts
      <4>2. QED
        BY <3>1, <4>1
    <3>2. QED
      BY <2>1, <3>1 DEF QueueTypes
  <2>4. ~begunOut /\ bridge = "ws"
    BY <2>1 DEF OpeningInv, TypeOK
  <2>5. QueueTypes'
    BY <2>1, <2>3, <2>4 DEF QueueTypes, edgeVars, ourVars, pumpVars
  <2>6. OpeningInv'
    BY <2>1, <2>4 DEF OpeningInv, pumpVars
  <2>7. QED
    BY <2>2, <2>5, <2>6
<1>4. CASE Accepted
  <2>1. /\ pc = "await" /\ pc' = (IF bridge = "ws" THEN "pump" ELSE "dial")
        /\ upOut' = leftover \o upOut /\ leftover' = <<>>
        /\ UNCHANGED <<bridge, control, reply, edgeVars, ourVars, upVars, socket, pumpVars>>
    BY <1>4 DEF Accepted, Goto
  <2>2. TypeOK'
    BY <2>1 DEF TypeOK, edgeVars, ourVars, upVars, pumpVars
  <2>3. upOut' \in Seq(UpFrames) /\ leftover' \in Seq(UpFrames)
    BY <2>1 DEF QueueTypes
  <2>4. bridge = "tcp" => upOut' = upOut
    BY <2>1, <2>3 DEF OpeningInv, QueueTypes
  <2>5. QueueTypes'
    BY <2>1, <2>3 DEF QueueTypes, edgeVars, ourVars, upVars, pumpVars
  <2>6. OpeningInv'
    BY <2>1, <2>4, ZenonT(30) DEF OpeningInv, TypeOK, upVars, pumpVars
  <2>7. QED
    BY <2>2, <2>5, <2>6
<1>5. QED
  BY <1>1, <1>2, <1>3, <1>4 DEF Opening

\* The receive buffer has room for a further message.
LEMMA RoomFor ==
    ASSUME NEW s \in Seq(Nat), Len(s) < Room, NEW m \in Nat
    PROVE  Append(s, m) \in Seq(Nat) /\ Len(Append(s, m)) <= Room
<1>1. Len(Append(s, m)) = Len(s) + 1 /\ Len(s) \in Nat
  OBVIOUS
<1>2. QED
  BY <1>1, BridgeAssumption

\* What a ws bridge is doing while it pumps.
LEMMA WsPumpTypes ==
    ASSUME TypeOK, QueueTypes, OpeningInv, WsIn, WsPumping
    PROVE  TypeOK' /\ QueueTypes' /\ OpeningInv'
<1>0. /\ bridge = "ws" /\ pc = "pump" /\ leftover = <<>> /\ early = <<>>
      /\ UNCHANGED <<bridge, pc, leftover, early, begunIn, begunOut, sentIn, sentOut, upGot>>
  BY DEF WsPumping, WsPump, B2uRecv, B2uEnds, Drain, DrainClose, DrainOver, DrainTo, B2uStep,
     U2bFrame, U2bPong, U2bEnds, U2bStep, OpeningInv, sockVars, edgeVars
<1>1. ASSUME NEW n \in 1..MaxIn + MaxControl, B2uRecv(n) PROVE TypeOK' /\ QueueTypes' /\ OpeningInv'
  <2>1. /\ b2u' \in {"drain", "done"} /\ wire' = SubSeq(wire, n + 1, Len(wire))
        /\ UNCHANGED <<edgeGot, upIn>> /\ B2uStep
    BY <1>1 DEF B2uRecv
  <2>2. TypeOK'
    BY <2>1 DEF TypeOK, B2uStep, sockVars
  <2>3. wire' \in Seq(EdgeFrames)
    <3>1. Len(wire) \in Nat /\ n + 1 \in 1..Len(wire) + 1
      BY <1>1, BridgeAssumption DEF B2uRecv, QueueTypes
    <3>2. QED
      BY <2>1, <3>1 DEF QueueTypes
  <2>4. QueueTypes'
    BY <1>0, <2>1, <2>3 DEF QueueTypes, B2uStep, sockVars
  <2>5. OpeningInv'
    BY <1>0, <2>1 DEF OpeningInv
  <2>6. QED
    BY <2>2, <2>4, <2>5
<1>2. CASE B2uEnds \/ DrainClose \/ DrainOver
  <2>1. /\ b2u' \in {"recv", "done"} /\ UNCHANGED <<edgeGot, upIn, wire>> /\ B2uStep
    BY <1>2 DEF B2uEnds, DrainClose, DrainOver, DrainTo
  <2>2. TypeOK'
    BY <2>1 DEF TypeOK, B2uStep, sockVars
  <2>3. QueueTypes' /\ OpeningInv'
    BY <1>0, <2>1 DEF QueueTypes, OpeningInv, B2uStep, sockVars
  <2>4. QED
    BY <2>2, <2>3
<1>3. CASE Drain
  <2>1. /\ b2u' \in {"drain", "done"} /\ UNCHANGED <<edgeGot, wire>> /\ B2uStep
        /\ UNCHANGED upIn \/ (upIn' = Append(upIn, Head(envBuf).msg) /\ Len(upIn) < Room)
        /\ EnvelopeFrames > 0 /\ b2u = "drain"
    BY <1>3 DEF Drain, DrainTo, Writable
  <2>2. Head(envBuf).msg \in Nat
    <3>1. envBuf # <<>>
      BY <2>1 DEF EnvelopeFrames
    <3>2. envBuf \in Seq(InFrames)
      BY <1>0, <2>1 DEF WsIn
    <3>3. Head(envBuf) \in InFrames
      BY <3>1, <3>2
    <3>4. QED
      BY <3>3, BridgeAssumption DEF InFrames
  <2>3. upIn' \in Seq(Nat) /\ Len(upIn') <= Room
    <3>1. upIn \in Seq(Nat) /\ Len(upIn) <= Room
      BY DEF QueueTypes, TypeOK
    <3>2. QED
      BY <2>1, <2>2, <3>1, RoomFor
  <2>4. TypeOK'
    BY <2>1, <2>3 DEF TypeOK, B2uStep, sockVars
  <2>5. QueueTypes' /\ OpeningInv'
    BY <1>0, <2>1, <2>3 DEF QueueTypes, OpeningInv, B2uStep, sockVars
  <2>6. QED
    BY <2>4, <2>5
<1>4. CASE U2bFrame
  <2>1. /\ upOut # <<>> /\ upOut' = Tail(upOut) /\ u2b' \in {"read", "pong", "done"}
        /\ ours' \in {ours, "ended"} /\ UNCHANGED upIn /\ U2bStep
        /\ fragOut' \in {fragOut, 0, Head(upOut).msg}
    BY <1>4 DEF U2bFrame, U2bForward
  <2>2. upOut' \in Seq(UpFrames) /\ Head(upOut) \in UpFrames
    BY <2>1 DEF QueueTypes
  <2>3. fragOut' \in 0..MaxOut
    BY <2>1, <2>2, BridgeAssumption DEF UpFrames, TypeOK
  <2>4. TypeOK'
    BY <2>1, <2>3 DEF TypeOK, U2bStep, edgeVars
  <2>5. edgeGot' \in Seq(Frames)
    <3>1. F("bye", 0) \in Frames /\ F("whole", fragOut) \in Frames
          /\ F("whole", Head(upOut).msg) \in Frames
      BY <2>2, FrameFacts DEF Parts, UpFrames, TypeOK
    <3>2. /\ <<F("bye", 0)>> \in Seq(Frames) /\ <<F("whole", fragOut)>> \in Seq(Frames)
          /\ <<F("whole", Head(upOut).msg)>> \in Seq(Frames) /\ edgeGot \in Seq(Frames)
      BY <3>1 DEF QueueTypes
    <3>3. \/ UNCHANGED edgeGot \/ edgeGot' = edgeGot \o <<F("bye", 0)>>
          \/ edgeGot' = edgeGot \o <<F("whole", fragOut)>>
          \/ edgeGot' = edgeGot \o <<F("whole", Head(upOut).msg)>>
      BY <1>4 DEF U2bFrame, U2bForward, Send
    <3>4. QED
      <4>1. \A t \in Seq(Frames) : edgeGot \o t \in Seq(Frames)
        BY <3>2
      <4>2. QED
        BY <3>2, <3>3, <4>1
  <2>6. QueueTypes' /\ OpeningInv'
    BY <1>0, <2>1, <2>2, <2>5 DEF QueueTypes, OpeningInv, U2bStep, edgeVars
  <2>7. QED
    BY <2>4, <2>6
<1>5. CASE U2bPong \/ U2bEnds
  <2>1. /\ u2b' \in {"read", "done"} /\ UNCHANGED <<upOut, fragOut, ours, edgeGot>> /\ U2bStep
        /\ UNCHANGED upIn \/ (upIn' = Append(upIn, 0) /\ Len(upIn) < Room)
    BY <1>5 DEF U2bPong, U2bEnds, Writable
  <2>2. upIn' \in Seq(Nat) /\ Len(upIn') <= Room
    <3>1. upIn \in Seq(Nat) /\ Len(upIn) <= Room /\ 0 \in Nat
      BY DEF QueueTypes, TypeOK
    <3>2. QED
      BY <2>1, <3>1, RoomFor
  <2>3. TypeOK'
    BY <2>1, <2>2 DEF TypeOK, U2bStep, edgeVars
  <2>4. QueueTypes' /\ OpeningInv'
    BY <1>0, <2>1, <2>2 DEF QueueTypes, OpeningInv, U2bStep, edgeVars
  <2>5. QED
    BY <2>3, <2>4
<1>6. QED
  BY <1>1, <1>2, <1>3, <1>4, <1>5 DEF WsPumping

\* What a tcp bridge is doing while it pumps.
LEMMA TcpPumpTypes ==
    ASSUME TypeOK, QueueTypes, OpeningInv, TcpPumping
    PROVE  TypeOK' /\ QueueTypes' /\ OpeningInv'
<1>0. /\ bridge = "tcp" /\ pc = "pump" /\ leftover = <<>> /\ upOut \in Seq(FramesOf({"whole"}))
      /\ b2u \in {"recv", "write"} /\ ~begunOut
      /\ UNCHANGED <<bridge, leftover, begunIn, begunOut, sentIn, sentOut, upGot>>
  BY DEF TcpPumping, TcpPump, TcpFrame, TcpFeedFails, TcpWrite, TcpEdgeEnds, TcpRead,
     TcpUpstreamEnds, TcpStep, OpeningInv
<1>1. CASE TcpFrame
  <2>1. /\ wire # <<>> /\ wire' = Tail(wire) /\ fragIn' \in {fragIn, 0, Head(wire).msg}
        /\ pc' \in {"pump", "shut"} /\ b2u' \in {"recv", "write"}
        /\ reason' \in {reason, "clean-eof", "protocol-error"}
        /\ UNCHANGED <<upIn, upOut>> /\ TcpStep
    BY <1>0, <1>1 DEF TcpFrame, Feed, Stay, Stop
  <2>2. early' \in {early, <<>>} /\ tls' \in {tls, TRUE}
    BY <1>1 DEF TcpFrame, Feed, Stop
  <2>3. wire' \in Seq(EdgeFrames) /\ Head(wire) \in EdgeFrames
    BY <2>1 DEF QueueTypes
  <2>4. fragIn' \in 0..MaxIn
    BY <2>1, <2>3, BridgeAssumption DEF EdgeFrames, TypeOK
  <2>5. early' \in Seq(Nat) /\ Len(early') <= EarlyLimit
    <3>1. early \in Seq(Nat) /\ Len(early) <= EarlyLimit /\ <<>> \in Seq(Nat) /\ Len(<<>>) = 0
      BY DEF QueueTypes, TypeOK
    <3>2. CASE early' = early
      BY <3>1, <3>2
    <3>3. CASE early' = <<>>
      <4>1. Len(early') = 0
        BY <3>1, <3>3
      <4>2. QED
        BY <3>1, <3>3, <4>1, BridgeAssumption
    <3>4. QED
      BY <2>2, <3>2, <3>3
  <2>6. TypeOK'
    <3>1. FlagTypes /\ LabelTypes /\ CountTypes
      BY TypeParts
    <3>2. FlagTypes'
      BY <2>1, <2>2, <3>1 DEF FlagTypes, TcpStep
    <3>3. LabelTypes'
      BY <2>1, <3>1 DEF LabelTypes, TcpStep
    <3>4. CountTypes'
      BY <2>1, <2>4, <2>5, <3>1 DEF CountTypes, TcpStep
    <3>5. QED
      BY <3>2, <3>3, <3>4, TypeParts DEF TypeOK, FlagTypes, LabelTypes, CountTypes
  <2>7. edgeGot' \in Seq(Frames)
    <3> DEFINE held == [i \in DOMAIN early |-> F("whole", early[i])]
    <3>1. early \in Seq(Nat) /\ edgeGot \in Seq(Frames)
      BY DEF QueueTypes
    <3>2. F("hello", 0) \in Frames /\ \A m \in Nat : F("whole", m) \in Frames
      BY FrameFacts DEF Parts
    <3>3. held \in Seq(Frames)
      BY <3>1, <3>2
    <3>4. edgeGot' = edgeGot \/ edgeGot' = edgeGot \o (<<F("hello", 0)>> \o held)
      BY <1>1 DEF TcpFrame, Feed, Send
    <3> HIDE DEF held
    <3>5. <<F("hello", 0)>> \o held \in Seq(Frames)
      BY <3>2, <3>3
    <3>6. \A t \in Seq(Frames) : edgeGot \o t \in Seq(Frames)
      BY <3>1
    <3>7. QED
      BY <3>1, <3>4, <3>5, <3>6
  <2>8. QueueTypes' /\ OpeningInv'
    BY <1>0, <2>1, <2>3, <2>5, <2>7 DEF QueueTypes, OpeningInv, TcpStep
  <2>9. QED
    BY <2>6, <2>8
<1>2. CASE TcpFeedFails \/ TcpEdgeEnds \/ TcpUpstreamEnds
  <2>1. /\ wire' \in {wire, Tail(wire)} /\ (wire' = wire \/ wire # <<>>) /\ pc' = "shut"
        /\ reason' \in {"clean-eof", "outbound-error", "inbound-error", "tls-error"}
        /\ UNCHANGED <<edgeGot, upIn, upOut, b2u, fragIn, tls, early>> /\ TcpStep
    BY <1>2 DEF TcpFeedFails, TcpEdgeEnds, TcpUpstreamEnds, Stop
  <2>2. TypeOK'
    BY <2>1 DEF TypeOK, TcpStep
  <2>3. wire' \in Seq(EdgeFrames)
    <3>1. wire \in Seq(EdgeFrames) /\ (wire # <<>> => Tail(wire) \in Seq(EdgeFrames))
      BY DEF QueueTypes
    <3>2. QED
      BY <2>1, <3>1
  <2>4. QueueTypes' /\ OpeningInv'
    BY <1>0, <2>1, <2>3 DEF QueueTypes, OpeningInv, TcpStep
  <2>5. QED
    BY <2>2, <2>4
<1>3. CASE TcpWrite
  <2>1. /\ b2u' \in {"recv", "write"} /\ fragIn' \in {fragIn, 0}
        /\ UNCHANGED upIn \/ (upIn' = Append(upIn, fragIn) /\ Len(upIn) < Room)
        /\ pc' \in {"pump", "shut"} /\ reason' \in {reason, "outbound-error"}
        /\ UNCHANGED <<wire, edgeGot, upOut, tls, early>> /\ TcpStep
    BY <1>0, <1>3 DEF TcpWrite, Stay, Stop, Writable
  <2>2. upIn' \in Seq(Nat) /\ Len(upIn') <= Room
    <3>1. upIn \in Seq(Nat) /\ Len(upIn) <= Room /\ fragIn \in Nat
      BY DEF QueueTypes, TypeOK
    <3>2. QED
      BY <2>1, <3>1, RoomFor
  <2>3. TypeOK'
    BY <1>0, <2>1, <2>2, BridgeAssumption DEF TypeOK, TcpStep
  <2>4. QueueTypes' /\ OpeningInv'
    BY <1>0, <2>1, <2>2 DEF QueueTypes, OpeningInv, TcpStep
  <2>5. QED
    BY <2>3, <2>4
<1>4. CASE TcpRead
  <2>1. /\ upOut # <<>> /\ upOut' = Tail(upOut) /\ pc' \in {"pump", "shut"}
        /\ reason' \in {reason, "outbound-error", "tls-error"}
        /\ UNCHANGED <<wire, upIn, b2u, fragIn, tls>> /\ TcpStep
        /\ UNCHANGED early \/ (early' = Append(early, Head(upOut).msg) /\ Len(early) < EarlyLimit)
    BY <1>0, <1>4 DEF TcpRead, Stay, Stop
  <2>2. /\ Head(upOut) \in UpFrames /\ upOut' \in Seq(UpFrames)
        /\ upOut' \in Seq(FramesOf({"whole"}))
    BY <1>0, <2>1 DEF QueueTypes
  <2>3. Head(upOut).msg \in Nat
    BY <2>2, BridgeAssumption DEF UpFrames
  <2>4. early' \in Seq(Nat) /\ Len(early') <= EarlyLimit
    <3>1. early \in Seq(Nat) /\ Len(early) <= EarlyLimit
      BY DEF QueueTypes, TypeOK
    <3>2. CASE early' = Append(early, Head(upOut).msg) /\ Len(early) < EarlyLimit
      <4>1. early' \in Seq(Nat) /\ Len(early') = Len(early) + 1 /\ Len(early) \in Nat
        BY <2>3, <3>1, <3>2
      <4>2. QED
        BY <3>2, <4>1, BridgeAssumption
    <3>3. QED
      BY <2>1, <3>1, <3>2
  <2>5. TypeOK'
    BY <1>0, <2>1, <2>4 DEF TypeOK, TcpStep
  <2>6. edgeGot' \in Seq(Frames)
    <3>1. F("whole", Head(upOut).msg) \in Frames /\ edgeGot \in Seq(Frames)
      BY <2>3, FrameFacts DEF Parts, QueueTypes
    <3>2. edgeGot' = edgeGot \/ edgeGot' = edgeGot \o <<F("whole", Head(upOut).msg)>>
      BY <1>4 DEF TcpRead, Send
    <3>3. <<F("whole", Head(upOut).msg)>> \in Seq(Frames)
      BY <3>1
    <3>4. \A t \in Seq(Frames) : edgeGot \o t \in Seq(Frames)
      BY <3>1
    <3>5. QED
      BY <3>1, <3>2, <3>3, <3>4
  <2>7. QueueTypes' /\ OpeningInv'
    BY <1>0, <2>1, <2>2, <2>4, <2>6 DEF QueueTypes, OpeningInv, TcpStep
  <2>8. QED
    BY <2>5, <2>7
<1>5. QED
  BY <1>1, <1>2, <1>3, <1>4 DEF TcpPumping

\* How a bridge ends.
LEMMA ClosingTypes ==
    ASSUME TypeOK, QueueTypes, OpeningInv, Closing
    PROVE  TypeOK' /\ QueueTypes' /\ OpeningInv'
<1>1. CASE Leave
  BY <1>1, FinishTypes DEF Leave
<1>2. CASE WsEnds
  <2>1. /\ bridge = "ws" /\ pc = "pump" /\ pc' = "leave" /\ ours' = "ended"
        /\ UNCHANGED <<bridge, control, reply, edgeVars, rst, edgeGot, upVars, sockVars, pumpVars>>
    BY <1>2 DEF WsEnds, WsPump, Goto
  <2>2. TypeOK'
    BY <2>1 DEF TypeOK, edgeVars, upVars, sockVars, pumpVars
  <2>3. QueueTypes' /\ OpeningInv'
    BY <2>1 DEF QueueTypes, OpeningInv, edgeVars, upVars, sockVars, pumpVars
  <2>4. QED
    BY <2>2, <2>3
<1>3. CASE TcpShut \/ TcpNotify \/ TcpClose \/ TcpLinger
  <2>1. /\ pc \in {"shut", "notify", "close", "linger"}
        /\ pc' \in {"notify", "close", "linger", "leave"}
        /\ socket' \in {socket, "shut"} /\ ours' \in {ours, "ended"}
        /\ UNCHANGED <<bridge, control, reply, edgeVars, rst, upVars, leftover, upOut, b2u, u2b,
                       envBuf, fragIn, fragOut, tls, early, reason>>
    BY <1>3 DEF TcpShut, TcpNotify, TcpClose, TcpLinger, Goto, sockVars, ourVars, pumpVars
  <2>2. lapsed' = lapsed \/ lapsed' = (edgeEnd = "open")
    BY <1>3 DEF TcpShut, TcpNotify, TcpClose, TcpLinger, pumpVars
  <2>3. lapsed' \in BOOLEAN
    BY <2>2 DEF TypeOK
  <2>4. TypeOK'
    BY <2>1, <2>3 DEF TypeOK, edgeVars, upVars
  <2>5. edgeGot' \in Seq(Frames)
    <3>1. CloseCode(reason) \in Nat
      BY DEF CloseCode
    <3>2. F("notify", 0) \in Frames /\ F("close", CloseCode(reason)) \in Frames
      BY <3>1, FrameFacts DEF Control
    <3>3. \/ edgeGot' = edgeGot \/ edgeGot' = edgeGot \o <<F("notify", 0)>>
          \/ edgeGot' = edgeGot \o <<F("close", CloseCode(reason))>>
      BY <1>3 DEF TcpShut, TcpNotify, TcpClose, TcpLinger, Send, ourVars
    <3>4. <<F("notify", 0)>> \in Seq(Frames) /\ <<F("close", CloseCode(reason))>> \in Seq(Frames)
      BY <3>2
    <3>5. edgeGot \in Seq(Frames) /\ \A t \in Seq(Frames) : edgeGot \o t \in Seq(Frames)
      BY DEF QueueTypes
    <3>6. QED
      BY <3>3, <3>4, <3>5
  <2>6. bridge = "tcp"
    BY <2>1 DEF OpeningInv, TypeOK
  <2>7. QueueTypes' /\ OpeningInv'
    BY <2>1, <2>5, <2>6 DEF QueueTypes, OpeningInv, edgeVars, upVars
  <2>8. QED
    BY <2>4, <2>7
<1>4. QED
  BY <1>1, <1>2, <1>3 DEF Closing

\* What the edge and the upstream do.
LEMMA OutsideTypes ==
    ASSUME TypeOK, QueueTypes, OpeningInv,
           EdgeSends \/ EdgeEnds \/ UpstreamSends \/ UpstreamReads \/ UpstreamEnds
    PROVE  TypeOK' /\ QueueTypes' /\ OpeningInv'
<1>0. UNCHANGED <<bridge, pc, reply, ours, rst, edgeGot, socket, leftover, pumpVars>>
  BY DEF EdgeSends, EdgeEnds, UpstreamSends, UpstreamReads, UpstreamEnds, Outside
<1>1. CASE EdgeSends
  <2>1. UNCHANGED <<edgeEnd, upVars, upOut>>
    BY <1>1 DEF EdgeSends
  <2>2. /\ wire' \in Seq(EdgeFrames) /\ sentIn' \in 0..MaxIn /\ begunIn' \in BOOLEAN
        /\ control' \in 0..MaxControl /\ (begunIn' => sentIn' < MaxIn)
    <3>1. CASE \E f \in NextFrames(sentIn, begunIn, MaxIn) :
                  /\ wire' = Append(wire, f) /\ begunIn' = (f.kind = "head")
                  /\ sentIn' = Completed(f, sentIn) /\ UNCHANGED control
      <4>1. PICK f \in NextFrames(sentIn, begunIn, MaxIn) :
                  /\ wire' = Append(wire, f) /\ begunIn' = (f.kind = "head")
                  /\ sentIn' = Completed(f, sentIn) /\ UNCHANGED control
        BY <3>1
      <4>2. sentIn + 1 \in 0..MaxIn /\ sentIn < MaxIn
        BY <4>1, BridgeAssumption DEF NextFrames, TypeOK, QueueTypes
      <4>3. f = F(f.kind, sentIn + 1) /\ f.kind \in Parts
        BY <4>1, FrameFacts DEF NextFrames, Parts
      <4>4. f \in EdgeFrames
        BY <4>2, <4>3, FrameFacts
      <4>5. /\ f.kind = "head" => sentIn' = sentIn
            /\ sentIn' \in 0..MaxIn
        BY <4>1, <4>2 DEF Completed, TypeOK
      <4>6. wire' \in Seq(EdgeFrames)
        BY <4>1, <4>4 DEF QueueTypes
      <4>7. QED
        BY <4>1, <4>2, <4>5, <4>6 DEF TypeOK
    <3>2. CASE \E k \in {"ping", "close", "other", "bye"} :
                  /\ control < MaxControl /\ control' = control + 1
                  /\ wire' = Append(wire, F(k, IF k = "bye" THEN sentIn ELSE 0))
                  /\ UNCHANGED <<sentIn, begunIn>>
      <4>1. PICK k \in {"ping", "close", "other", "bye"} :
                  /\ control < MaxControl /\ control' = control + 1
                  /\ wire' = Append(wire, F(k, IF k = "bye" THEN sentIn ELSE 0))
                  /\ UNCHANGED <<sentIn, begunIn>>
        BY <3>2
      <4>2. F(k, IF k = "bye" THEN sentIn ELSE 0) \in EdgeFrames
        <5>1. sentIn \in 0..MaxIn /\ 0 \in 0..MaxIn
          BY BridgeAssumption DEF TypeOK
        <5>2. \A m \in 0..MaxIn : F(k, m) \in EdgeFrames
          BY FrameFacts DEF Control
        <5>3. QED
          BY <5>1, <5>2
      <4>3. wire' \in Seq(EdgeFrames)
        BY <4>1, <4>2 DEF QueueTypes
      <4>4. control' \in 0..MaxControl
        BY <4>1, BridgeAssumption DEF TypeOK
      <4>5. QED
        BY <4>1, <4>3, <4>4 DEF TypeOK, QueueTypes
    <3>3. QED
      BY <1>1, <3>1, <3>2 DEF EdgeSends
  <2>3. TypeOK'
    BY <1>0, <2>1, <2>2 DEF TypeOK, upVars, pumpVars
  <2>4. QueueTypes' /\ OpeningInv'
    BY <1>0, <2>1, <2>2 DEF QueueTypes, OpeningInv, upVars, pumpVars
  <2>5. QED
    BY <2>3, <2>4
<1>2. CASE UpstreamSends
  <2>1. UNCHANGED <<edgeVars, upEnd, upIn, upGot>> /\ socket = "open"
    BY <1>2 DEF UpstreamSends
  <2>2. /\ upOut' \in Seq(UpFrames) /\ sentOut' \in 0..MaxOut /\ begunOut' \in BOOLEAN
        /\ control' \in 0..MaxControl /\ (begunOut' => sentOut' < MaxOut)
        /\ bridge = "tcp" => upOut' \in Seq(FramesOf({"whole"})) /\ ~begunOut'
    <3>1. CASE \E f \in NextFrames(sentOut, begunOut, MaxOut) :
                  /\ bridge = "tcp" => f.kind = "whole"
                  /\ upOut' = Append(upOut, f) /\ begunOut' = (f.kind = "head")
                  /\ sentOut' = Completed(f, sentOut) /\ UNCHANGED control
      <4>1. PICK f \in NextFrames(sentOut, begunOut, MaxOut) :
                  /\ bridge = "tcp" => f.kind = "whole"
                  /\ upOut' = Append(upOut, f) /\ begunOut' = (f.kind = "head")
                  /\ sentOut' = Completed(f, sentOut) /\ UNCHANGED control
        BY <3>1
      <4>2. sentOut + 1 \in 0..MaxOut /\ sentOut < MaxOut
        BY <4>1, BridgeAssumption DEF NextFrames, TypeOK, QueueTypes
      <4>3. f = F(f.kind, sentOut + 1) /\ f.kind \in Parts
        BY <4>1, FrameFacts DEF NextFrames, Parts
      <4>4. f \in UpFrames
        BY <4>2, <4>3, FrameFacts
      <4>5. /\ f.kind = "head" => sentOut' = sentOut
            /\ sentOut' \in 0..MaxOut
        BY <4>1, <4>2 DEF Completed, TypeOK
      <4>6. upOut' \in Seq(UpFrames)
        BY <4>1, <4>4 DEF QueueTypes
      <4>7. ASSUME bridge = "tcp" PROVE upOut' \in Seq(FramesOf({"whole"})) /\ ~begunOut'
        <5>1. f \in FramesOf({"whole"})
          BY <4>1, <4>2, <4>3, <4>7 DEF FramesOf, F
        <5>2. upOut \in Seq(FramesOf({"whole"}))
          BY <4>7 DEF OpeningInv
        <5>3. Append(upOut, f) \in Seq(FramesOf({"whole"}))
          BY <5>1, <5>2
        <5>4. f.kind # "head"
          BY <4>1, <4>7
        <5>5. QED
          BY <4>1, <5>3, <5>4
      <4>8. QED
        BY <4>1, <4>2, <4>5, <4>6, <4>7 DEF TypeOK
    <3>2. CASE /\ bridge = "ws" /\ control < MaxControl /\ control' = control + 1
               /\ UNCHANGED <<sentOut, begunOut>>
               /\ \/ \E k \in {"ping", "close", "other"} : upOut' = Append(upOut, F(k, 0))
                  \/ begunOut /\ upOut' = Append(upOut, F("inner", sentOut + 1))
      <4>1. \A k \in {"ping", "close", "other"} : F(k, 0) \in UpFrames
        BY FrameFacts, BridgeAssumption DEF Control
      <4>2. begunOut => F("inner", sentOut + 1) \in UpFrames
        <5>1. begunOut => sentOut + 1 \in 0..MaxOut
          BY BridgeAssumption DEF TypeOK, QueueTypes
        <5>2. QED
          BY <5>1, FrameFacts
      <4>3. \A f \in UpFrames : Append(upOut, f) \in Seq(UpFrames)
        BY DEF QueueTypes
      <4>4. upOut' \in Seq(UpFrames)
        BY <3>2, <4>1, <4>2, <4>3
      <4>5. control' \in 0..MaxControl
        BY <3>2, BridgeAssumption DEF TypeOK
      <4>6. QED
        BY <3>2, <4>4, <4>5 DEF TypeOK, QueueTypes
    <3>3. QED
      BY <1>2, <3>1, <3>2 DEF UpstreamSends
  <2>3. TypeOK'
    BY <1>0, <2>1, <2>2 DEF TypeOK, edgeVars, pumpVars
  <2>4. QueueTypes' /\ OpeningInv'
    BY <1>0, <2>1, <2>2 DEF QueueTypes, OpeningInv, edgeVars, pumpVars
  <2>5. QED
    BY <2>3, <2>4
<1>3. CASE EdgeEnds \/ UpstreamReads \/ UpstreamEnds
  <2>1. /\ UNCHANGED <<wire, sentIn, begunIn, sentOut, begunOut, upOut, control>>
        /\ edgeEnd' \in {edgeEnd, "ended", "reset"} /\ upEnd' \in {upEnd, "eof", "error"}
    BY <1>3 DEF EdgeEnds, UpstreamReads, UpstreamEnds, upVars, edgeVars
  <2>2. upIn' \in Seq(Nat) /\ Len(upIn') <= Room /\ upGot' \in Seq(Nat)
    <3>1. CASE UpstreamReads
      <4>1. upIn # <<>> /\ upIn \in Seq(Nat) /\ upGot \in Seq(Nat) /\ Len(upIn) <= Room
            /\ upIn' = Tail(upIn)
        BY <3>1 DEF UpstreamReads, QueueTypes, TypeOK
      <4>2. Head(upIn) \in Nat /\ upIn' \in Seq(Nat) /\ Len(upIn') = Len(upIn) - 1 /\ Len(upIn) \in Nat
        BY <4>1
      <4>3. upGot' = upGot \/ upGot' = Append(upGot, Head(upIn))
        BY <3>1 DEF UpstreamReads
      <4>4. Append(upGot, Head(upIn)) \in Seq(Nat)
        BY <4>1, <4>2
      <4>5. Len(upIn') <= Room
        BY <4>1, <4>2, BridgeAssumption
      <4>6. upGot' \in Seq(Nat)
        BY <4>1, <4>3, <4>4
      <4>7. QED
        BY <4>2, <4>5, <4>6
    <3>2. CASE EdgeEnds \/ UpstreamEnds
      BY <3>2 DEF EdgeEnds, UpstreamEnds, upVars, QueueTypes, TypeOK
    <3>3. QED
      BY <1>3, <3>1, <3>2
  <2>3. TypeOK'
    BY <1>0, <2>1, <2>2 DEF TypeOK, pumpVars
  <2>4. QueueTypes' /\ OpeningInv'
    BY <1>0, <2>1, <2>2 DEF QueueTypes, OpeningInv, pumpVars
  <2>5. QED
    BY <2>3, <2>4
<1>4. QED
  BY <1>1, <1>2, <1>3

\* The types hold at first and are kept.
LEMMA StartTypes == Init => TypeOK /\ QueueTypes /\ OpeningInv
<1> SUFFICES ASSUME Init PROVE TypeOK /\ QueueTypes /\ OpeningInv
  OBVIOUS
<1>1. 0 \in 0..MaxIn /\ 0 \in 0..MaxOut /\ 0 \in 0..MaxControl /\ Len(<<>>) = 0
  BY BridgeAssumption
<1>2. TypeOK
  <2>1. FlagTypes
    BY DEF Init, FlagTypes
  <2>2. LabelTypes
    BY DEF Init, LabelTypes
  <2>3. CountTypes
    BY <1>1, BridgeAssumption DEF Init, CountTypes
  <2>4. QED
    BY <2>1, <2>2, <2>3, TypeParts
<1>3. <<>> \in Seq(EdgeFrames) /\ <<>> \in Seq(UpFrames) /\ <<>> \in Seq(Frames) /\ <<>> \in Seq(Nat)
      /\ <<>> \in Seq(FramesOf({"whole"}))
  OBVIOUS
<1>4. QueueTypes
  BY <1>3 DEF Init, QueueTypes
<1>5. OpeningInv
  BY <1>3 DEF Init, OpeningInv
<1>6. QED
  BY <1>2, <1>4, <1>5

\* So does every step; what is drained of an envelope has a type by WsIn.
LEMMA TypesKept ==
    ASSUME TypeOK, QueueTypes, OpeningInv, WsIn, Next PROVE TypeOK' /\ QueueTypes' /\ OpeningInv'
<1>1. CASE UNCHANGED vars
  BY <1>1 DEF vars, edgeVars, ourVars, upVars, sockVars, pumpVars, TypeOK, QueueTypes, OpeningInv
<1>2. QED
  BY <1>1, OpeningTypes, WsPumpTypes, TcpPumpTypes, ClosingTypes, OutsideTypes DEF Next, Task

-----------------------------------------------------------------------------
(* What either side has received.                                          *)

\* The messages in frames that went to the edge.
Numbers(q)      == [i \in DOMAIN q |-> q[i].msg]
EdgeMessages(q) == Numbers(Those(q, FramesOf({"whole"})))

\* The numbers of frames are a sequence of the same length.
LEMMA NumbersSeq ==
    ASSUME NEW q \in Seq(Frames)
    PROVE  /\ Numbers(q) \in Seq(Nat) /\ Len(Numbers(q)) = Len(q)
           /\ \A i \in 1..Len(q) : Numbers(q)[i] = q[i].msg
<1>1. DOMAIN q = 1..Len(q) /\ Len(q) \in Nat /\ \A i \in 1..Len(q) : q[i] \in Frames
  OBVIOUS
<1>2. \A i \in 1..Len(q) : q[i].msg \in Nat
  BY <1>1 DEF Frames
<1>3. Numbers(q) = [i \in 1..Len(q) |-> q[i].msg]
  BY <1>1 DEF Numbers
<1>4. QED
  BY <1>1, <1>2, <1>3

\* The numbers of two sequences of frames one after the other.
LEMMA NumbersConcat ==
    ASSUME NEW q \in Seq(Frames), NEW r \in Seq(Frames)
    PROVE  Numbers(q \o r) = Numbers(q) \o Numbers(r)
<1> DEFINE s == q \o r
           a == Numbers(q)
           b == Numbers(r)
           c == Numbers(s)
<1>1. s \in Seq(Frames) /\ Len(s) = Len(q) + Len(r) /\ Len(q) \in Nat /\ Len(r) \in Nat
  OBVIOUS
<1>2. \A i \in 1..Len(q) + Len(r) : s[i] = IF i <= Len(q) THEN q[i] ELSE r[i - Len(q)]
  BY ConcatProperties
<1> HIDE DEF s
<1>3. c \in Seq(Nat) /\ Len(c) = Len(s) /\ \A i \in 1..Len(s) : c[i] = s[i].msg
  BY <1>1, NumbersSeq
<1>4. a \in Seq(Nat) /\ Len(a) = Len(q) /\ \A i \in 1..Len(q) : a[i] = q[i].msg
  BY NumbersSeq
<1>5. b \in Seq(Nat) /\ Len(b) = Len(r) /\ \A i \in 1..Len(r) : b[i] = r[i].msg
  BY NumbersSeq
<1> HIDE DEF a, b, c
<1>6. /\ a \o b \in Seq(Nat) /\ Len(a \o b) = Len(a) + Len(b)
      /\ \A i \in 1..Len(a) + Len(b) : (a \o b)[i] = IF i <= Len(a) THEN a[i] ELSE b[i - Len(a)]
  BY <1>4, <1>5, ConcatProperties
<1>7. ASSUME NEW i \in 1..Len(c) PROVE c[i] = (a \o b)[i]
  <2>1. CASE i <= Len(q)
    <3>1. i \in 1..Len(q) /\ i \in 1..Len(a) + Len(b) /\ i <= Len(a)
      BY <1>1, <1>3, <1>4, <1>5, <2>1
    <3>2. (a \o b)[i] = a[i] /\ s[i] = q[i]
      BY <1>1, <1>2, <1>3, <1>6, <2>1, <3>1
    <3>3. QED
      BY <1>3, <1>4, <3>1, <3>2
  <2>2. CASE ~(i <= Len(q))
    <3>1. i - Len(q) \in 1..Len(r)
      BY <1>1, <1>3, <2>2
    <3>2. (a \o b)[i] = b[i - Len(q)] /\ s[i] = r[i - Len(q)]
      BY <1>1, <1>2, <1>3, <1>4, <1>5, <1>6, <2>2
    <3>3. QED
      BY <1>3, <1>5, <3>1, <3>2
  <2>3. QED
    BY <2>1, <2>2
<1>8. c = a \o b
  <2> DEFINE d == a \o b
  <2>1. d \in Seq(Nat) /\ Len(d) = Len(c) /\ \A i \in 1..Len(c) : c[i] = d[i]
    BY <1>1, <1>3, <1>4, <1>5, <1>6, <1>7
  <2> HIDE DEF d
  <2>2. QED
    BY <1>3, <2>1, SeqEqual DEF d
<1>9. QED
  BY <1>8 DEF a, b, c, s

\* The messages at the upstream are a sequence of numbers.
LEMMA InSeq == QueueTypes => AtUpstream \in Seq(Nat)
<1> SUFFICES ASSUME QueueTypes PROVE AtUpstream \in Seq(Nat)
  OBVIOUS
<1> DEFINE s == upGot \o upIn
<1>1. s \in Seq(Nat)
  BY DEF QueueTypes
<1> HIDE DEF s
<1>2. Those(s, Nat \ {0}) \in Seq(Nat)
  BY <1>1, ThoseIn
<1>3. QED
  BY <1>2 DEF AtUpstream, s

\* A message that is written to the upstream is received, a PONG is not one.
LEMMA InAppends ==
    ASSUME QueueTypes, NEW m \in Nat, UNCHANGED upGot, upIn' = Append(upIn, m)
    PROVE  AtUpstream' = IF m = 0 THEN AtUpstream ELSE Append(AtUpstream, m)
<1> DEFINE s == upGot \o upIn
           S == Nat \ {0}
<1>1. upGot \in Seq(Nat) /\ upIn \in Seq(Nat) /\ s \in Seq(Nat) /\ (m \in S <=> m # 0)
  BY DEF QueueTypes
<1>2. upGot \o Append(upIn, m) = Append(s, m)
  BY <1>1, ConcatAppend
<1>3. AtUpstream' = Those(upGot \o Append(upIn, m), S)
  BY DEF AtUpstream
<1>4. AtUpstream = Those(s, S)
  BY DEF AtUpstream
<1> HIDE DEF s, S
<1>5. Those(Append(s, m), S) = IF m \in S THEN Append(Those(s, S), m) ELSE Those(s, S)
  BY <1>1, ThoseAppend
<1>6. QED
  BY <1>1, <1>2, <1>3, <1>4, <1>5

\* Reading does not change what was received.
LEMMA InReads == QueueTypes /\ UpstreamReads => AtUpstream' = AtUpstream
<1> SUFFICES ASSUME QueueTypes, UpstreamReads PROVE AtUpstream' = AtUpstream
  OBVIOUS
<1> DEFINE S == Nat \ {0}
           h == Head(upIn)
           t == Tail(upIn)
<1>1. /\ upIn \in Seq(Nat) /\ upGot \in Seq(Nat) /\ upIn # <<>> /\ upIn' = t
      /\ upGot' = IF h = 0 THEN upGot ELSE Append(upGot, h)
  BY DEF QueueTypes, UpstreamReads
<1>2. h \in Nat /\ t \in Seq(Nat) /\ upGot' \in Seq(Nat)
  BY <1>1
<1>3. AtUpstream = Those(upGot, S) \o Those(upIn, S)
  BY <1>1, ThoseConcat DEF AtUpstream
<1>4. AtUpstream' = Those(upGot', S) \o Those(t, S)
  <2>1. Those(upGot' \o t, S) = Those(upGot', S) \o Those(t, S)
    <3> DEFINE g == upGot'
    <3>1. g \in Seq(Nat) /\ t \in Seq(Nat)
      BY <1>2
    <3> HIDE DEF g, t, S
    <3>2. Those(g \o t, S) = Those(g, S) \o Those(t, S)
      BY <3>1, ThoseConcat
    <3>3. QED
      BY <3>2 DEF g
  <2>2. QED
    BY <1>1, <2>1 DEF AtUpstream
<1>5. Those(upIn, S) = IF h \in S THEN <<h>> \o Those(t, S) ELSE Those(t, S)
  BY <1>1, ThoseHead, ZenonT(30)
<1>11. h \in S <=> h # 0
  BY <1>2
<1> HIDE DEF h, t, S
<1>6. Those(Append(upGot, h), S) = IF h \in S THEN Append(Those(upGot, S), h) ELSE Those(upGot, S)
  BY <1>1, <1>2, ThoseAppend
<1>7. Those(upGot, S) \in Seq(Nat) /\ Those(t, S) \in Seq(Nat)
  BY <1>1, <1>2, ThoseIn
<1>8. CASE h = 0
  BY <1>1, <1>3, <1>4, <1>5, <1>11, <1>8
<1>9. CASE h # 0
  <2>1. h \in S
    BY <1>11, <1>9
  <2> DEFINE a == Those(upGot, S)
             b == Those(t, S)
  <2>2. AtUpstream = a \o (<<h>> \o b) /\ AtUpstream' = Append(a, h) \o b
    BY <1>1, <1>3, <1>4, <1>5, <1>6, <1>9, <2>1
  <2>3. a \in Seq(Nat) /\ b \in Seq(Nat)
    BY <1>7
  <2> HIDE DEF a, b
  <2>4. a \o (<<h>> \o b) = Append(a, h) \o b
    <3>1. h \in Nat
      BY <1>2
    <3>2. \A e \in Nat : \A u, v \in Seq(Nat) : u \o (<<e>> \o v) = Append(u, e) \o v
      BY ConcatAppend, SMTT(60)
    <3>3. QED
      BY <2>3, <3>1, <3>2, ZenonT(30)
  <2>5. QED
    BY <2>2, <2>4
<1>10. QED
  BY <1>8, <1>9

\* What is sent to the edge is added to what it has.
LEMMA EdgeSeq == \A q \in Seq(Frames) : EdgeMessages(q) \in Seq(Nat)
<1> SUFFICES ASSUME NEW q \in Seq(Frames) PROVE EdgeMessages(q) \in Seq(Nat)
  OBVIOUS
<1>1. Those(q, FramesOf({"whole"})) \in Seq(Frames)
  BY ThoseIn
<1>2. QED
  BY <1>1, NumbersSeq DEF EdgeMessages

\* Of one frame.
LEMMA EdgeOne ==
    ASSUME NEW f \in Frames
    PROVE  EdgeMessages(<<f>>) = IF f.kind = "whole" THEN <<f.msg>> ELSE <<>>
<1> DEFINE S == FramesOf({"whole"})
           w == Those(<<f>>, S)
<1>1. w = IF f \in S THEN <<f>> ELSE <<>>
  BY ThoseOne
<1>2. f \in S <=> f.kind = "whole"
  BY FrameKinds
<1>3. EdgeMessages(<<f>>) = Numbers(w)
  BY DEF EdgeMessages
<1>4. Numbers(<<f>>) = <<f.msg>> /\ Numbers(<<>>) = <<>>
  BY DEF Numbers
<1> HIDE DEF w, S
<1>5. QED
  BY <1>1, <1>2, <1>3, <1>4

\* Of frames one after the other.
LEMMA EdgeConcat ==
    ASSUME NEW q \in Seq(Frames), NEW r \in Seq(Frames)
    PROVE  EdgeMessages(q \o r) = EdgeMessages(q) \o EdgeMessages(r)
<1> DEFINE S == FramesOf({"whole"})
           u == Those(q, S)
           v == Those(r, S)
           w == Those(q \o r, S)
<1>1. w = u \o v
  BY ThoseConcat
<1>2. u \in Seq(Frames) /\ v \in Seq(Frames)
  BY ThoseIn
<1>3. /\ EdgeMessages(q) = Numbers(u) /\ EdgeMessages(r) = Numbers(v)
      /\ EdgeMessages(q \o r) = Numbers(w)
  BY DEF EdgeMessages
<1> HIDE DEF u, v, w
<1>4. QED
  BY <1>1, <1>2, <1>3, NumbersConcat

\* The handshake's answer carries what the engine held.
LEMMA EdgeHeld ==
    ASSUME NEW s \in Seq(Nat)
    PROVE  /\ <<F("hello", 0)>> \o [i \in DOMAIN s |-> F("whole", s[i])] \in Seq(Frames)
           /\ EdgeMessages(<<F("hello", 0)>> \o [i \in DOMAIN s |-> F("whole", s[i])]) = s
<1> DEFINE S == FramesOf({"whole"})
           X == Frames \cap S
           held == [i \in DOMAIN s |-> F("whole", s[i])]
           hello == <<F("hello", 0)>>
<1>1. \A m \in Nat : F("whole", m) \in X /\ F("whole", m).msg = m
  BY FrameFacts, FrameKinds DEF Parts
<1>2. F("hello", 0) \in Frames /\ F("hello", 0).kind # "whole"
  <2>1. F("hello", 0).kind = "hello"
    BY FrameFacts
  <2>2. F("hello", 0) \in Frames
    BY FrameFacts
  <2>3. QED
    BY <2>1, <2>2
<1>3. held \in Seq(X) /\ held \in Seq(Frames) /\ hello \in Seq(Frames)
  <2>1. DOMAIN s = 1..Len(s) /\ Len(s) \in Nat /\ \A i \in 1..Len(s) : s[i] \in Nat
    OBVIOUS
  <2>2. \A i \in 1..Len(s) : F("whole", s[i]) \in X
    BY <1>1, <2>1
  <2>3. held = [i \in 1..Len(s) |-> F("whole", s[i])]
    BY <2>1
  <2> HIDE DEF X
  <2>4. held \in Seq(X)
    BY <2>1, <2>2, <2>3
  <2>5. held \in Seq(Frames)
    BY <2>4, SeqMonotonic DEF X
  <2>6. QED
    BY <1>2, <2>4, <2>5
<1>4. Those(held, S) = held
  <2>1. X \subseteq S
    OBVIOUS
  <2> HIDE DEF held, S, X
  <2>2. QED
    BY <1>3, <2>1, ThoseAll
<1>5. EdgeMessages(held) = s
  <2>1. EdgeMessages(held) = [i \in DOMAIN held |-> held[i].msg]
    BY <1>4 DEF EdgeMessages, Numbers
  <2>2. DOMAIN held = DOMAIN s /\ \A i \in DOMAIN s : held[i].msg = s[i]
    BY <1>1
  <2> HIDE DEF held
  <2>3. [i \in DOMAIN held |-> held[i].msg] = s
    BY <2>2
  <2>4. QED
    BY <2>1, <2>3
<1>6. EdgeMessages(hello) = <<>>
  BY <1>2, EdgeOne
<1> HIDE DEF held, hello
<1>7. EdgeMessages(hello \o held) = EdgeMessages(hello) \o EdgeMessages(held)
  BY <1>3, EdgeConcat
<1>8. EdgeMessages(hello \o held) = s
  BY <1>5, <1>6, <1>7
<1>9. hello \o held \in Seq(Frames)
  BY <1>3
<1>10. QED
  BY <1>8, <1>9 DEF held, hello

\* AtEdge is the messages of what the edge received, and Send adds to them.
LEMMA OutSends ==
    ASSUME QueueTypes, NEW r \in Seq(Frames), edgeGot' = edgeGot \o r
    PROVE  AtEdge' = AtEdge \o EdgeMessages(r)
<1>1. edgeGot \in Seq(Frames)
  BY DEF QueueTypes
<1>2. AtEdge = EdgeMessages(edgeGot) /\ AtEdge' = EdgeMessages(edgeGot \o r)
  BY DEF AtEdge, EdgeMessages, Numbers
<1>3. QED
  BY <1>1, <1>2, EdgeConcat

\* The messages at the edge are a sequence of numbers.
LEMMA OutSeq == QueueTypes => AtEdge \in Seq(Nat)
<1>1. AtEdge = EdgeMessages(edgeGot)
  BY DEF AtEdge, EdgeMessages, Numbers
<1>2. QED
  BY <1>1, EdgeSeq DEF QueueTypes

\* What either side has depends on its buffers only.
LEMMA Unchanged ==
    /\ UNCHANGED <<upGot, upIn>> => AtUpstream' = AtUpstream
    /\ UNCHANGED edgeGot => AtEdge' = AtEdge
BY DEF AtUpstream, AtEdge

-----------------------------------------------------------------------------
(* From the edge to the upstream.                                          *)

\* Flow tells only whether a message is open.
LEMMA FlowSame ==
    ASSUME NEW q, NEW K, NEW done, NEW open, NEW sent, NEW begun, NEW open2, NEW begun2,
           Flow(q, K, done, open, sent, begun), open <=> open2, begun <=> begun2
    PROVE  Flow(q, K, done, open2, sent, begun2)
BY DEF Flow, Chain, Fits

\* Kinds of either direction.
LEMMA KindFacts ==
    /\ Parts \subseteq InKinds /\ InKinds \subseteq Kinds
    /\ Parts \subseteq OutKinds /\ OutKinds \subseteq Kinds
BY DEF InKinds, OutKinds, Kinds

\* A further number in turn keeps the order.
LEMMA OrderAppend ==
    ASSUME NEW s \in Seq(Nat), NEW k \in Int, \A i \in DOMAIN s : s[i] = i + k,
           NEW m \in Nat, m = Len(s) + 1 + k
    PROVE  /\ Len(Append(s, m)) = Len(s) + 1
           /\ \A i \in DOMAIN Append(s, m) : Append(s, m)[i] = i + k
<1> DEFINE t == Append(s, m)
<1>1. /\ DOMAIN t = 1..Len(s) + 1 /\ DOMAIN s = 1..Len(s) /\ Len(s) \in Nat
      /\ Len(t) = Len(s) + 1 /\ t[Len(s) + 1] = m /\ \A i \in 1..Len(s) : t[i] = s[i]
  OBVIOUS
<1> HIDE DEF t
<1>2. \A i \in DOMAIN t : t[i] = i + k
  BY <1>1
<1>3. QED
  BY <1>1, <1>2 DEF t

\* The edge sends what fits, or what carries no message.
LEMMA SentFits ==
    ASSUME TypeOK, QueueTypes, EdgeSends
    PROVE  \E f \in EdgeFrames :
              /\ wire' = Append(wire, f)
              /\ \/ f.kind \notin InKinds /\ UNCHANGED <<sentIn, begunIn>>
                 \/ /\ f.kind \in InKinds /\ Fits(f, sentIn, begunIn)
                    /\ sentIn' = DoneAfter(f) /\ (begunIn' <=> OpenAfter(f))
<1>1. CASE \E f \in NextFrames(sentIn, begunIn, MaxIn) :
              /\ wire' = Append(wire, f) /\ begunIn' = (f.kind = "head")
              /\ sentIn' = Completed(f, sentIn) /\ UNCHANGED control
  <2>1. PICK f \in NextFrames(sentIn, begunIn, MaxIn) :
              /\ wire' = Append(wire, f) /\ begunIn' = (f.kind = "head")
              /\ sentIn' = Completed(f, sentIn)
    BY <1>1
  <2>2. sentIn + 1 \in 0..MaxIn
    BY <2>1, BridgeAssumption DEF NextFrames, TypeOK, QueueTypes
  <2>3. f.kind \in Parts /\ f.msg = sentIn + 1 /\ f = F(f.kind, f.msg) /\ (begunIn <=> f.kind = "tail")
    BY <2>1, FrameFacts DEF NextFrames, Parts
  <2>4. f \in EdgeFrames
    BY <2>2, <2>3, FrameFacts
  <2>5. f.kind \in InKinds /\ Fits(f, sentIn, begunIn)
    BY <2>3 DEF InKinds, Parts, Fits
  <2>6. sentIn' = DoneAfter(f) /\ (begunIn' <=> OpenAfter(f))
    <3>1. sentIn \in Int /\ f.kind \in {"whole", "head", "tail"} /\ (OpenAfter(f) <=> f.kind = "head")
      BY <2>3 DEF TypeOK, OpenAfter, Parts
    <3>2. begunIn' <=> OpenAfter(f)
      BY <2>1, <3>1
    <3>3. sentIn' = DoneAfter(f)
      BY <2>1, <2>3, <3>1 DEF Completed, DoneAfter
    <3>4. QED
      BY <3>2, <3>3
  <2>7. QED
    BY <2>1, <2>4, <2>5, <2>6
<1>2. CASE \E k \in {"ping", "close", "other", "bye"} :
              /\ k = "bye" => bridge = "ws" /\ ~begunIn
              /\ wire' = Append(wire, F(k, IF k = "bye" THEN sentIn ELSE 0))
              /\ UNCHANGED <<sentIn, begunIn>>
  <2>1. PICK k \in {"ping", "close", "other", "bye"} :
              /\ k = "bye" => ~begunIn
              /\ wire' = Append(wire, F(k, IF k = "bye" THEN sentIn ELSE 0))
              /\ UNCHANGED <<sentIn, begunIn>>
    BY <1>2
  <2>2. sentIn \in 0..MaxIn /\ 0 \in 0..MaxIn
    BY BridgeAssumption DEF TypeOK
  <2>3. \A m \in 0..MaxIn : F(k, m) \in EdgeFrames /\ F(k, m).kind = k /\ F(k, m).msg = m
    BY FrameFacts DEF Control
  <2>4. CASE k = "bye"
    <3>1. Fits(F(k, sentIn), sentIn, begunIn)
      BY <2>1, <2>2, <2>3, <2>4 DEF Fits
    <3>2. DoneAfter(F(k, sentIn)) = sentIn /\ ~OpenAfter(F(k, sentIn))
      BY <2>2, <2>3, <2>4 DEF DoneAfter, OpenAfter
    <3>3. QED
      BY <2>1, <2>2, <2>3, <2>4, <3>1, <3>2 DEF InKinds
  <2>5. CASE k # "bye"
    BY <2>1, <2>2, <2>3, <2>5 DEF InKinds, Parts
  <2>6. QED
    BY <2>4, <2>5
<1>3. QED
  BY <1>1, <1>2 DEF EdgeSends

\* What is sent follows what is on its way.
LEMMA EdgeSendsIn == Typed /\ InInv /\ EdgeSends => InInv'
<1> SUFFICES ASSUME Typed, InInv, EdgeSends PROVE InInv'
  OBVIOUS
<1>1. PICK f \in EdgeFrames :
              /\ wire' = Append(wire, f)
              /\ \/ f.kind \notin InKinds /\ UNCHANGED <<sentIn, begunIn>>
                 \/ /\ f.kind \in InKinds /\ Fits(f, sentIn, begunIn)
                    /\ sentIn' = DoneAfter(f) /\ (begunIn' <=> OpenAfter(f))
  BY SentFits DEF Typed
<1>2. /\ UNCHANGED <<bridge, pc, reason, b2u, envBuf, tls, fragIn>> /\ AtUpstream' = AtUpstream
  BY Unchanged DEF EdgeSends, Outside, pumpVars, upVars
<1>3. f \in Frames /\ wire \in Seq(EdgeFrames) /\ wire \in Seq(Frames) /\ sentIn \in Nat
      /\ InMessages \in Nat /\ fragIn \in Nat
  <2>1. wire \in Seq(EdgeFrames) /\ AtUpstream \in Seq(Nat)
    BY InSeq DEF Typed, QueueTypes
  <2>2. wire \in Seq(Frames)
    BY <2>1, FrameFacts, SeqMonotonic
  <2>3. QED
    BY <2>1, <2>2, FrameFacts DEF Typed, TypeOK, InMessages
<1>4. ASSUME NEW q \in Seq(Frames), NEW done \in Nat, NEW open,
             Flow(q, InKinds, done, open, sentIn, begunIn)
      PROVE  Flow(Append(q, f), InKinds, done, open, sentIn', begunIn')
  <2>1. /\ f.kind \notin InKinds => Flow(Append(q, f), InKinds, done, open, sentIn, begunIn)
        /\ f.kind \in InKinds /\ Fits(f, sentIn, begunIn) =>
              Flow(Append(q, f), InKinds, done, open, DoneAfter(f), OpenAfter(f))
    BY <1>3, <1>4, KindFacts, FlowAppend
  <2>2. CASE f.kind \notin InKinds
    BY <1>1, <2>1, <2>2
  <2>3. CASE f.kind \in InKinds
    <3>1. Flow(Append(q, f), InKinds, done, open, sentIn', OpenAfter(f))
      BY <1>1, <2>1, <2>3
    <3>2. begunIn' <=> OpenAfter(f)
      BY <1>1, <2>3
    <3>3. QED
      BY <3>1, <3>2 DEF Flow, Chain
  <2>4. QED
    BY <2>2, <2>3
<1>5. WsIn'
  <2> SUFFICES ASSUME bridge = "ws", pc # "done", b2u # "done"
               PROVE  /\ envBuf \in Seq(InFrames)
                      /\ b2u = "recv" => EnvelopeFrames = 0
                      /\ Flow(envBuf \o wire', InKinds, InMessages, FALSE, sentIn', begunIn')
    BY <1>2 DEF WsIn, EnvelopeFrames, InMessages
  <2>1. /\ envBuf \in Seq(InFrames)
        /\ b2u = "recv" => EnvelopeFrames = 0
        /\ Flow(envBuf \o wire, InKinds, InMessages, FALSE, sentIn, begunIn)
    BY DEF InInv, WsIn
  <2>2. envBuf \in Seq(EdgeFrames)
    BY <2>1, FrameFacts, SeqMonotonic
  <2>3. envBuf \in Seq(Frames)
    BY <2>2, FrameFacts, SeqMonotonic
  <2>4. envBuf \o wire' = Append(envBuf \o wire, f)
    BY <1>1, <1>3, <2>3, ConcatAppend
  <2>5. envBuf \o wire \in Seq(Frames)
    BY <1>3, <2>3
  <2>6. Flow(Append(envBuf \o wire, f), InKinds, InMessages, FALSE, sentIn', begunIn')
    BY <1>3, <1>4, <2>1, <2>5
  <2>7. QED
    BY <2>1, <2>4, <2>6
<1>6. TcpIn'
  <2> SUFFICES ASSUME bridge = "tcp", pc # "done", reason = "clean-eof"
               PROVE  IF b2u = "write"
                      THEN /\ tls /\ fragIn = InMessages + 2
                           /\ Flow(wire', InKinds, fragIn, FALSE, sentIn', begunIn')
                      ELSE LET done == IF tls THEN InMessages + 1 ELSE 0
                           IN  /\ ~tls => InMessages = 0
                               /\ fragIn # 0 => fragIn = done + 1
                               /\ Flow(wire', InKinds, done, fragIn # 0, sentIn', begunIn')
    BY <1>2 DEF TcpIn, InMessages
  <2>1. \A open : \A done \in Nat : Flow(wire, InKinds, done, open, sentIn, begunIn) =>
            Flow(wire', InKinds, done, open, sentIn', begunIn')
    BY <1>1, <1>3, <1>4
  <2>2. CASE b2u = "write"
    BY <1>3, <2>1, <2>2 DEF InInv, TcpIn
  <2>3. CASE b2u # "write"
    <3> DEFINE done == IF tls THEN InMessages + 1 ELSE 0
    <3>1. done \in Nat
      BY <1>3
    <3>2. /\ ~tls => InMessages = 0
          /\ fragIn # 0 => fragIn = done + 1
          /\ Flow(wire, InKinds, done, fragIn # 0, sentIn, begunIn)
      BY <2>3 DEF InInv, TcpIn
    <3> HIDE DEF done
    <3>3. Flow(wire', InKinds, done, fragIn # 0, sentIn', begunIn')
      BY <2>1, <3>1, <3>2
    <3>4. QED
      BY <2>3, <3>2, <3>3 DEF done
  <2>4. QED
    BY <2>2, <2>3
<1>7. InOrder'
  BY <1>2 DEF InInv, InOrder, FirstIn
<1>8. QED
  BY <1>5, <1>6, <1>7 DEF InInv

\* A tcp bridge leaves its pump with a reason, and never cleanly out of a write.
LEMMA ReasonKept == Typed /\ ReasonInv /\ Next => ReasonInv'
<1> SUFFICES ASSUME Typed, ReasonInv, Next PROVE ReasonInv'
  OBVIOUS
<1>1. ASSUME Finish PROVE ReasonInv'
  BY <1>1 DEF Finish, Goto, ReasonInv
<1>2. CASE Opening \/ Abort
  <2>1. CASE DialFails
    BY <2>1 DEF DialFails, Goto, ReasonInv
  <2>2. CASE SendFails \/ NotAccepted \/ Abort
    BY <1>1, <2>2 DEF SendFails, NotAccepted, Abort
  <2>3. ASSUME NEW answer, UpstreamRefuses(answer) PROVE ReasonInv'
    BY <2>3 DEF UpstreamRefuses, ReasonInv, Goto, pumpVars
  <2>4. CASE RejectEnvelope \/ UpstreamAccepts \/ PostAccept \/ Connect \/ Accepted \/ DialUpstream
    BY <2>4 DEF RejectEnvelope, UpstreamAccepts, PostAccept, Connect, Accepted, DialUpstream,
       ReasonInv, Goto, pumpVars
  <2>5. QED
    BY <1>2, <2>1, <2>2, <2>3, <2>4 DEF Opening
<1>3. CASE WsPumping
  <2>1. UNCHANGED <<pc, reason, bridge>> /\ bridge = "ws"
    BY <1>3 DEF WsPumping, WsPump, B2uRecv, B2uEnds, Drain, DrainClose, DrainOver, DrainTo, B2uStep,
       U2bFrame, U2bPong, U2bEnds, U2bStep
  <2>2. QED
    BY <2>1 DEF ReasonInv
<1>4. CASE TcpPumping
  <2>1. \/ pc' = "pump" /\ UNCHANGED reason
        \/ pc' = "shut" /\ (b2u' = "recv" \/ reason' # "clean-eof")
    BY <1>4 DEF TcpPumping, TcpFrame, TcpFeedFails, TcpWrite, TcpEdgeEnds, TcpRead,
       TcpUpstreamEnds, Stop, Stay, TcpPump
  <2>2. pc = "pump"
    BY <1>4 DEF TcpPumping, TcpFrame, TcpFeedFails, TcpWrite, TcpEdgeEnds, TcpRead,
       TcpUpstreamEnds, TcpPump
  <2>3. QED
    BY <2>1, <2>2 DEF ReasonInv
<1>5. CASE Closing
  <2>1. CASE Leave
    BY <1>1, <2>1 DEF Leave
  <2>2. CASE WsEnds
    BY <2>2 DEF WsEnds, WsPump, Goto, ReasonInv
  <2>4. CASE TcpShut \/ TcpNotify \/ TcpClose \/ TcpLinger
    <3>1. /\ pc \in {"shut", "notify", "close", "linger"}
          /\ pc' \in {"notify", "close", "linger", "leave"}
          /\ UNCHANGED <<bridge, b2u, reason>>
      BY <2>4 DEF TcpShut, TcpNotify, TcpClose, TcpLinger, Goto, pumpVars
    <3>2. QED
      BY <3>1 DEF ReasonInv
  <2>3. QED
    BY <1>5, <2>1, <2>2, <2>4 DEF Closing
<1>6. CASE EdgeSends \/ EdgeEnds \/ UpstreamSends \/ UpstreamReads \/ UpstreamEnds
  <2>1. UNCHANGED <<pc, reason, bridge, b2u>>
    BY <1>6 DEF EdgeSends, EdgeEnds, UpstreamSends, UpstreamReads, UpstreamEnds, Outside, pumpVars
  <2>2. QED
    BY <2>1 DEF ReasonInv
<1>7. CASE UNCHANGED vars
  BY <1>7 DEF vars, pumpVars, ReasonInv
<1>8. QED
  BY <1>2, <1>3, <1>4, <1>5, <1>6, <1>7 DEF Next, Task

\* Nothing of what goes to the upstream is disturbed.
LEMMA InKept ==
    ASSUME InInv, UNCHANGED <<bridge, b2u, envBuf, wire, sentIn, begunIn, fragIn, tls>>,
           AtUpstream' = AtUpstream, pc' # "done" => pc # "done",
           pc' # "done" /\ reason' = "clean-eof" => reason = "clean-eof"
    PROVE  InInv'
<1>1. InOrder'
  BY DEF InInv, InOrder, FirstIn
<1>2. WsIn'
  BY DEF InInv, WsIn, EnvelopeFrames, InMessages
<1>3. TcpIn'
  BY DEF InInv, TcpIn, InMessages
<1>4. QED
  BY <1>1, <1>2, <1>3 DEF InInv

\* The direction is given up.
LEMMA InOver ==
    ASSUME InInv, UNCHANGED bridge, AtUpstream' = AtUpstream,
           \/ pc' = "done"
           \/ bridge = "ws" /\ b2u' = "done"
           \/ bridge = "tcp" /\ reason' # "clean-eof"
    PROVE  InInv'
<1>1. InOrder'
  BY DEF InInv, InOrder, FirstIn
<1>2. WsIn' /\ TcpIn'
  BY DEF WsIn, TcpIn
<1>3. QED
  BY <1>1, <1>2 DEF InInv

\* What Flow is about is in the selections only.
LEMMA FlowSelects ==
    ASSUME NEW q, NEW p, NEW K, NEW done, NEW open, NEW sent, NEW begun,
           Flow(q, K, done, open, sent, begun),
           Those(p, FramesOf(K)) = Those(q, FramesOf(K)), Those(p, Lasts) = Those(q, Lasts)
    PROVE  Flow(p, K, done, open, sent, begun)
BY DEF Flow

\* A direction of a ws bridge that goes on.
LEMMA WsInGoes ==
    ASSUME Typed, WsIn, WsPump, b2u # "done"
    PROVE  /\ envBuf \in Seq(InFrames) /\ envBuf \in Seq(EdgeFrames) /\ envBuf \in Seq(Frames)
           /\ wire \in Seq(EdgeFrames) /\ wire \in Seq(Frames)
           /\ b2u = "recv" => EnvelopeFrames = 0
           /\ Flow(envBuf \o wire, InKinds, InMessages, FALSE, sentIn, begunIn)
           /\ InMessages \in Nat /\ sentIn \in Nat
<1>1. wire \in Seq(EdgeFrames) /\ AtUpstream \in Seq(Nat) /\ sentIn \in Nat
  BY InSeq DEF Typed, QueueTypes, TypeOK
<1>2. /\ envBuf \in Seq(InFrames) /\ (b2u = "recv" => EnvelopeFrames = 0)
      /\ Flow(envBuf \o wire, InKinds, InMessages, FALSE, sentIn, begunIn)
  BY DEF WsIn, WsPump
<1>3. envBuf \in Seq(EdgeFrames)
  BY <1>2, FrameFacts, SeqMonotonic
<1>4. envBuf \in Seq(Frames) /\ wire \in Seq(Frames)
  BY <1>1, <1>3, FrameFacts, SeqMonotonic
<1>5. InMessages \in Nat
  BY <1>1 DEF InMessages
<1>6. QED
  BY <1>1, <1>2, <1>3, <1>4, <1>5

\* A chunk of the edge.
LEMMA RecvIn ==
    ASSUME Typed, InInv, NEW n \in 1..MaxIn + MaxControl, B2uRecv(n) PROVE InInv'
<1> DEFINE chunk == SubSeq(wire, 1, n)
           rest  == SubSeq(wire, n + 1, Len(wire))
           seen  == BeforeClose(chunk)
<1>1. /\ WsPump /\ bridge = "ws" /\ b2u = "recv" /\ n <= Len(wire) /\ n \in Nat /\ wire' = rest
      /\ envBuf' = envBuf \o Those(seen, Data)
      /\ b2u' = IF seen = chunk THEN "drain" ELSE "done"
      /\ UNCHANGED <<bridge, pc, sentIn, begunIn>> /\ AtUpstream' = AtUpstream
  BY BridgeAssumption, Unchanged DEF B2uRecv, B2uStep, WsPump
<1>2. CASE seen # chunk
  BY <1>1, <1>2, InOver
<1>3. CASE seen = chunk
  <2>1. /\ envBuf \in Seq(InFrames) /\ envBuf \in Seq(EdgeFrames) /\ envBuf \in Seq(Frames)
        /\ wire \in Seq(EdgeFrames) /\ wire \in Seq(Frames)
        /\ Flow(envBuf \o wire, InKinds, InMessages, FALSE, sentIn, begunIn)
    BY <1>1, WsInGoes DEF InInv
  <2>2. /\ chunk \in Seq(EdgeFrames) /\ rest \in Seq(EdgeFrames) /\ wire = chunk \o rest
    <3>1. n \in Nat /\ Len(wire) \in Nat
      BY <1>1, <2>1
    <3>2. chunk \in Seq(EdgeFrames) /\ rest \in Seq(EdgeFrames)
      BY <1>1, <2>1, <3>1
    <3>3. wire = chunk \o rest
      BY <1>1, <2>1, <3>1
    <3>4. QED
      BY <3>2, <3>3
  <2> DEFINE data == Those(chunk, Data)
  <2>3. envBuf' = envBuf \o data /\ b2u' = "drain"
    BY <1>1, <1>3
  <2>4. Data = FramesOf(InKinds) /\ FramesOf(InKinds) \subseteq Data /\ Lasts \subseteq Data
    BY DEF Data, InKinds, Lasts, FramesOf, Parts
  <2>5. data \in Seq(InFrames)
    <3>1. data \in Seq(EdgeFrames \cap Data)
      BY <2>2, ThoseIn
    <3>2. EdgeFrames \cap Data \subseteq InFrames
      BY DEF EdgeFrames, Data, InFrames, InKinds, FramesOf
    <3> HIDE DEF data
    <3>3. QED
      BY <3>1, <3>2, SeqMonotonic
  <2>6. \A R : R \subseteq Data => Those((envBuf \o data) \o rest, R) = Those(envBuf \o wire, R)
    <3> HIDE DEF chunk, rest
    <3>1. \A R : R \subseteq Data =>
             Those((envBuf \o Those(chunk, Data)) \o rest, R) = Those(envBuf \o (chunk \o rest), R)
      BY <2>1, <2>2, ChunkSelects
    <3>2. QED
      BY <2>2, <3>1
  <2> HIDE DEF data, rest
  <2>7. Flow((envBuf \o data) \o rest, InKinds, InMessages, FALSE, sentIn, begunIn)
    <3> DEFINE q == envBuf \o wire
               p == (envBuf \o data) \o rest
    <3>1. Those(p, FramesOf(InKinds)) = Those(q, FramesOf(InKinds)) /\ Those(p, Lasts) = Those(q, Lasts)
      BY <2>4, <2>6
    <3>2. Flow(q, InKinds, InMessages, FALSE, sentIn, begunIn)
      BY <2>1
    <3> HIDE DEF p, q
    <3>3. Flow(p, InKinds, InMessages, FALSE, sentIn, begunIn)
      BY <3>1, <3>2, FlowSelects
    <3>4. QED
      BY <3>3 DEF p
  <2>8. envBuf \o data \in Seq(InFrames)
    BY <2>1, <2>5
  <2>9. WsIn'
    BY <1>1, <2>3, <2>7, <2>8 DEF WsIn, InMessages
  <2>10. InOrder' /\ TcpIn'
    BY <1>1 DEF InInv, InOrder, FirstIn, TcpIn
  <2>11. QED
    BY <2>9, <2>10 DEF InInv
<1>4. QED
  BY <1>2, <1>3

\* A complete envelope is the next message: FlowTake once or twice.
LEMMA DrainIn == ASSUME Typed, InInv, Drain PROVE InInv'
<1> DEFINE h == Head(envBuf)
           t == Tail(envBuf)
<1>1. /\ WsPump /\ bridge = "ws" /\ b2u = "drain" /\ EnvelopeFrames > 0 /\ h.kind # "bye"
      /\ wire' = wire /\ UNCHANGED <<bridge, pc, sentIn, begunIn, upGot>>
  BY DEF Drain, DrainTo, B2uStep, WsPump
<1>2. CASE UNCHANGED upIn /\ b2u' = "done"
  BY <1>1, <1>2, Unchanged, InOver
<1>3. CASE /\ upIn' = Append(upIn, h.msg) /\ b2u' = "drain"
           /\ envBuf' = SubSeq(envBuf, EnvelopeFrames + 1, Len(envBuf))
  <2>1. /\ envBuf \in Seq(InFrames) /\ envBuf \in Seq(Frames) /\ wire \in Seq(Frames)
        /\ Flow(envBuf \o wire, InKinds, InMessages, FALSE, sentIn, begunIn)
        /\ InMessages \in Nat /\ sentIn \in Nat
    BY <1>1, WsInGoes DEF InInv
  <2>2. envBuf # <<>> /\ EnvelopeFrames = IF h.kind # "head" THEN 1 ELSE IF Len(envBuf) > 1 THEN 2 ELSE 0
    BY <1>1 DEF EnvelopeFrames
  <2>3. h \in InFrames /\ t \in Seq(InFrames) /\ h.kind \in InKinds /\ h.msg \in Nat
    <3>1. h \in InFrames /\ t \in Seq(InFrames)
      BY <2>1, <2>2
    <3>2. QED
      BY <3>1, BridgeAssumption DEF InFrames
  <2>4. /\ envBuf \o wire \in Seq(Frames) /\ envBuf \o wire # <<>> /\ Head(envBuf \o wire) = h
        /\ Tail(envBuf \o wire) = t \o wire /\ t \in Seq(Frames)
        /\ SubSeq(envBuf, 2, Len(envBuf)) = t
    BY <2>1, <2>2, TailConcat
  <2>5. Fits(h, InMessages, FALSE) /\ Flow(t \o wire, InKinds, DoneAfter(h), OpenAfter(h), sentIn, begunIn)
    <3> DEFINE q == envBuf \o wire
    <3>1. q \in Seq(Frames) /\ q # <<>> /\ Head(q) = h /\ Tail(q) = t \o wire
          /\ Flow(q, InKinds, InMessages, FALSE, sentIn, begunIn)
      BY <2>1, <2>4
    <3> HIDE DEF q
    <3>2. /\ Fits(Head(q), InMessages, FALSE)
          /\ Flow(Tail(q), InKinds, DoneAfter(Head(q)), OpenAfter(Head(q)), sentIn, begunIn)
      BY <2>1, <2>3, <3>1, KindFacts, FlowTake
    <3>3. QED
      BY <3>1, <3>2
  <2>6. h.msg = InMessages + 1 /\ h.kind \in {"whole", "head"}
    BY <1>1, <2>3, <2>5 DEF Fits, InKinds, Parts
  <2>7. AtUpstream' = Append(AtUpstream, h.msg) /\ AtUpstream \in Seq(Nat)
    <3>1. QueueTypes /\ h.msg \in Nat /\ h.msg # 0
      BY <2>1, <2>3, <2>6 DEF Typed
    <3>2. AtUpstream' = IF h.msg = 0 THEN AtUpstream ELSE Append(AtUpstream, h.msg)
      BY <1>1, <1>3, <3>1, InAppends
    <3>3. AtUpstream \in Seq(Nat)
      BY <3>1, InSeq
    <3>4. QED
      BY <3>1, <3>2, <3>3
  <2>8. InOrder' /\ InMessages' = InMessages + 1
    <3>1. h.msg = Len(AtUpstream) + 1 + 0 /\ h.msg \in Nat /\ \A i \in DOMAIN AtUpstream : AtUpstream[i] = i + 0
      <4>1. DOMAIN AtUpstream = 1..Len(AtUpstream) /\ FirstIn = 1
        BY <1>1, <2>7 DEF FirstIn
      <4>2. QED
        BY <2>3, <2>6, <4>1 DEF InInv, InOrder, InMessages
    <3>2. /\ Len(Append(AtUpstream, h.msg)) = Len(AtUpstream) + 1
          /\ \A i \in DOMAIN Append(AtUpstream, h.msg) : Append(AtUpstream, h.msg)[i] = i + 0
      BY <2>7, <3>1, OrderAppend
    <3>3. FirstIn' = 1
      BY <1>1 DEF FirstIn
    <3>4. DOMAIN AtUpstream' \subseteq Int
      BY <2>3, <2>7
    <3> HIDE DEF h
    <3>5. QED
      BY <2>7, <3>2, <3>3, <3>4 DEF InOrder, InMessages
  <2>9. /\ envBuf' \in Seq(InFrames)
        /\ Flow(envBuf' \o wire, InKinds, InMessages + 1, FALSE, sentIn, begunIn)
    <3>1. CASE h.kind = "whole"
      <4>1. envBuf' = t
        BY <1>3, <2>2, <2>4, <3>1
      <4>2. DoneAfter(h) = InMessages + 1 /\ ~OpenAfter(h)
        BY <2>6, <3>1 DEF DoneAfter, OpenAfter
      <4>3. Flow(t \o wire, InKinds, InMessages + 1, OpenAfter(h), sentIn, begunIn)
        BY <2>5, <4>2
      <4> HIDE DEF h, t
      <4>4. Flow(t \o wire, InKinds, InMessages + 1, FALSE, sentIn, begunIn)
        <5>1. OpenAfter(h) = FALSE
          BY <4>2 DEF OpenAfter
        <5>2. QED
          BY <4>3, <5>1
      <4>5. QED
        BY <2>3, <4>1, <4>4
    <3>2. CASE h.kind = "head"
      <4> DEFINE g == Head(t)
                 u == Tail(t)
      <4>1. Len(envBuf) > 1 /\ EnvelopeFrames = 2
        BY <1>1, <2>2, <3>2
      <4>2. /\ t # <<>> /\ g \in InFrames /\ u \in Seq(InFrames) /\ envBuf' = u
        <5>1. t # <<>> /\ SubSeq(envBuf, 3, Len(envBuf)) = Tail(t)
          BY <2>1, <4>1, TailTail
        <5>2. QED
          BY <1>3, <2>3, <4>1, <5>1
      <4>3. g.kind \in InKinds /\ g.msg \in Nat
        BY <4>2, BridgeAssumption DEF InFrames
      <4>4. DoneAfter(h) = InMessages /\ OpenAfter(h)
        BY <2>1, <2>6, <3>2 DEF DoneAfter, OpenAfter
      <4>5. Flow(t \o wire, InKinds, InMessages, TRUE, sentIn, begunIn)
        <5>1. Flow(t \o wire, InKinds, InMessages, OpenAfter(h), sentIn, begunIn)
          BY <2>5, <4>4
        <5> HIDE DEF h, t
        <5>2. QED
          BY <4>4, <5>1, FlowSame
      <4>6. /\ t \o wire \in Seq(Frames) /\ t \o wire # <<>> /\ Head(t \o wire) = g
            /\ Tail(t \o wire) = u \o wire
        <5>1. t \in Seq(Frames)
          BY <2>4
        <5> HIDE DEF t
        <5>2. QED
          BY <2>1, <4>2, <5>1, TailConcat
      <4>7. Fits(g, InMessages, TRUE) /\ Flow(u \o wire, InKinds, DoneAfter(g), OpenAfter(g), sentIn, begunIn)
        <5> DEFINE q == t \o wire
        <5>1. q \in Seq(Frames) /\ q # <<>> /\ Head(q) = g /\ Tail(q) = u \o wire
              /\ Flow(q, InKinds, InMessages, TRUE, sentIn, begunIn)
          BY <4>5, <4>6
        <5> HIDE DEF q
        <5>2. /\ Fits(Head(q), InMessages, TRUE)
              /\ Flow(Tail(q), InKinds, DoneAfter(Head(q)), OpenAfter(Head(q)), sentIn, begunIn)
          BY <2>1, <4>3, <5>1, KindFacts, FlowTake
        <5>3. QED
          BY <5>1, <5>2
      <4>8. g.kind = "tail" /\ g.msg = InMessages + 1
        BY <4>3, <4>7 DEF Fits, InKinds, Parts
      <4>9. DoneAfter(g) = InMessages + 1 /\ ~OpenAfter(g)
        BY <4>8 DEF DoneAfter, OpenAfter
      <4>10. Flow(u \o wire, InKinds, InMessages + 1, OpenAfter(g), sentIn, begunIn)
        BY <4>7, <4>9
      <4> HIDE DEF g, u, t
      <4>11. Flow(u \o wire, InKinds, InMessages + 1, FALSE, sentIn, begunIn)
        <5>1. OpenAfter(g) = FALSE
          BY <4>9 DEF OpenAfter
        <5>2. QED
          BY <4>10, <5>1
      <4>12. QED
        BY <4>2, <4>11
    <3>3. QED
      BY <2>6, <3>1, <3>2
  <2>10. WsIn'
    BY <1>1, <1>3, <2>8, <2>9 DEF WsIn
  <2>11. TcpIn'
    BY <1>1 DEF TcpIn
  <2>12. QED
    BY <2>8, <2>10, <2>11 DEF InInv
<1>4. QED
  BY <1>2, <1>3 DEF Drain, DrainTo

\* Each step of the pump of a ws bridge passes on the next message of the edge or none.
LEMMA WsPumpIn == Typed /\ InInv /\ WsPumping => InInv'
<1> SUFFICES ASSUME Typed, InInv, WsPumping PROVE InInv'
  OBVIOUS
<1>1. ASSUME NEW n \in 1..MaxIn + MaxControl, B2uRecv(n) PROVE InInv'
  BY <1>1, RecvIn
<1>2. CASE B2uEnds \/ DrainClose
  <2>1. bridge = "ws" /\ b2u' = "done" /\ UNCHANGED <<bridge, upGot, upIn>>
    BY <1>2 DEF B2uEnds, DrainClose, DrainTo, B2uStep, WsPump
  <2>2. QED
    BY <2>1, Unchanged, InOver
<1>3. CASE Drain
  BY <1>3, DrainIn
<1>4. CASE DrainOver
  <2>1. /\ WsPump /\ bridge = "ws" /\ b2u = "drain" /\ EnvelopeFrames = 0 /\ b2u' = "recv"
        /\ envBuf' = SubSeq(envBuf, EnvelopeFrames + 1, Len(envBuf))
        /\ UNCHANGED <<bridge, pc, wire, sentIn, begunIn>> /\ AtUpstream' = AtUpstream
    BY <1>4, Unchanged DEF DrainOver, DrainTo, B2uStep, WsPump
  <2>2. envBuf \in Seq(InFrames)
    BY <2>1, WsInGoes DEF InInv
  <2>3. envBuf' = envBuf
    BY <2>1, <2>2
  <2>4. WsIn' /\ TcpIn'
    BY <2>1, <2>3 DEF InInv, WsIn, TcpIn, EnvelopeFrames, InMessages, WsPump
  <2>5. InOrder'
    BY <2>1 DEF InInv, InOrder, FirstIn
  <2>6. QED
    BY <2>4, <2>5 DEF InInv
<1>5. CASE U2bFrame \/ U2bPong \/ U2bEnds
  <2>1. U2bStep /\ (UNCHANGED upIn \/ upIn' = Append(upIn, 0))
    BY <1>5 DEF U2bFrame, U2bPong, U2bEnds
  <2>2. AtUpstream' = AtUpstream
    <3>1. CASE UNCHANGED upIn
      BY <2>1, <3>1, Unchanged DEF U2bStep
    <3>2. CASE upIn' = Append(upIn, 0)
      <4>1. QueueTypes /\ 0 \in Nat /\ UNCHANGED upGot
        BY <2>1 DEF Typed, U2bStep
      <4>2. QED
        BY <3>2, <4>1, InAppends
    <3>3. QED
      BY <2>1, <3>1, <3>2
  <2>3. UNCHANGED <<bridge, pc, b2u, envBuf, wire, sentIn, begunIn, fragIn, tls, reason>>
    BY <2>1 DEF U2bStep, edgeVars
  <2>4. QED
    BY <2>2, <2>3, InKept
<1>6. QED
  BY <1>1, <1>2, <1>3, <1>4, <1>5 DEF WsPumping

\* What the pump of a tcp bridge has taken in from the edge.
DoneIn == IF tls THEN InMessages + 1 ELSE 0

\* A tcp bridge that pumps has not given up the direction.
LEMMA TcpInGoes ==
    ASSUME Typed, ReasonInv, InInv, TcpPump
    PROVE  /\ bridge = "tcp" /\ pc = "pump" /\ reason = "clean-eof"
           /\ wire \in Seq(EdgeFrames) /\ wire \in Seq(Frames)
           /\ InMessages \in Nat /\ sentIn \in Nat /\ fragIn \in Nat
           /\ tls \in BOOLEAN /\ DoneIn \in Nat
           /\ b2u = "write" => /\ tls /\ fragIn = InMessages + 2
                               /\ Flow(wire, InKinds, fragIn, FALSE, sentIn, begunIn)
           /\ b2u # "write" => /\ ~tls => InMessages = 0
                               /\ fragIn # 0 => fragIn = DoneIn + 1
                               /\ Flow(wire, InKinds, DoneIn, fragIn # 0, sentIn, begunIn)
<1>1. bridge = "tcp" /\ pc = "pump" /\ reason = "clean-eof"
  BY DEF TcpPump, ReasonInv
<1>2. wire \in Seq(EdgeFrames) /\ AtUpstream \in Seq(Nat)
  BY InSeq DEF Typed, QueueTypes
<1>3. sentIn \in Nat /\ fragIn \in Nat /\ tls \in BOOLEAN
  BY DEF Typed, TypeOK
<1>4. wire \in Seq(Frames)
  BY <1>2, FrameFacts, SeqMonotonic
<1>5. InMessages \in Nat
  BY <1>2 DEF InMessages
<1>6. DoneIn \in Nat
  BY <1>5 DEF DoneIn
<1>7. /\ b2u = "write" => /\ tls /\ fragIn = InMessages + 2
                          /\ Flow(wire, InKinds, fragIn, FALSE, sentIn, begunIn)
      /\ b2u # "write" => /\ ~tls => InMessages = 0
                          /\ fragIn # 0 => fragIn = DoneIn + 1
                          /\ Flow(wire, InKinds, DoneIn, fragIn # 0, sentIn, begunIn)
  BY <1>1 DEF InInv, TcpIn, DoneIn
<1>8. QED
  BY <1>1, <1>2, <1>3, <1>4, <1>5, <1>6, <1>7

\* The message that is fed to the TLS engine is the handshake or the next one.
LEMMA FeedIn ==
    ASSUME Typed, ReasonInv, InInv, TcpPump, b2u = "recv", Feed(DoneIn + 1),
           Flow(wire', InKinds, DoneIn + 1, FALSE, sentIn, begunIn),
           UNCHANGED <<bridge, sentIn, begunIn>>, AtUpstream' = AtUpstream
    PROVE  TcpIn'
<1> DEFINE m == DoneIn + 1
<1>1. /\ bridge = "tcp" /\ tls \in BOOLEAN /\ InMessages \in Nat /\ (~tls => InMessages = 0)
  BY TcpInGoes
<1>2. InMessages' = InMessages
  BY DEF InMessages
<1>3. CASE m = 1
  <2>1. ~tls /\ InMessages = 0
    BY <1>1, <1>3 DEF DoneIn
  <2>2. fragIn' = 0 /\ tls' = TRUE /\ b2u' = b2u
    BY <1>3 DEF Feed
  <2>3. InMessages' + 1 = m
    BY <1>2, <1>3, <2>1
  <2>4. Flow(wire', InKinds, InMessages' + 1, FALSE, sentIn', begunIn')
    BY <2>3
  <2>5. (fragIn' # 0) = FALSE
    BY <2>2
  <2>6. Flow(wire', InKinds, InMessages' + 1, fragIn' # 0, sentIn', begunIn')
    BY <2>4, <2>5
  <2>7. QED
    BY <2>2, <2>6 DEF TcpIn
<1>4. CASE m # 1
  <2>1. tls /\ m = InMessages + 2
    BY <1>1, <1>4 DEF DoneIn
  <2>2. fragIn' = m /\ b2u' = "write" /\ UNCHANGED tls
    BY <1>4 DEF Feed
  <2>3. Flow(wire', InKinds, fragIn', FALSE, sentIn', begunIn')
    BY <2>2
  <2>4. tls' /\ fragIn' = InMessages' + 2
    BY <1>2, <2>1, <2>2
  <2>5. QED
    BY <2>2, <2>3, <2>4 DEF TcpIn
<1>5. QED
  BY <1>3, <1>4

\* The next frame of the edge, whole or in fragments, with control frames in between.
LEMMA TcpFrameIn == ASSUME Typed, ReasonInv, InInv, TcpFrame PROVE InInv'
<1> DEFINE f == Head(wire)
<1>1. /\ TcpPump /\ b2u = "recv" /\ wire # <<>> /\ wire' = Tail(wire) /\ UNCHANGED <<upIn, upOut>> /\ TcpStep
      /\ bridge = "tcp"
  BY DEF TcpFrame, TcpPump
<1>2. /\ UNCHANGED <<bridge, sentIn, begunIn, envBuf>> /\ AtUpstream' = AtUpstream
      /\ InMessages' = InMessages
  <2>1. UNCHANGED <<bridge, sentIn, begunIn, envBuf, upIn, upGot>>
    BY <1>1 DEF TcpStep
  <2>2. AtUpstream' = AtUpstream
    BY <2>1, Unchanged
  <2>3. QED
    BY <2>1, <2>2 DEF InMessages
<1>3. /\ wire \in Seq(EdgeFrames) /\ wire \in Seq(Frames)
      /\ InMessages \in Nat /\ sentIn \in Nat /\ fragIn \in Nat
      /\ tls \in BOOLEAN /\ DoneIn \in Nat /\ (~tls => InMessages = 0)
      /\ (fragIn # 0 => fragIn = DoneIn + 1)
      /\ Flow(wire, InKinds, DoneIn, fragIn # 0, sentIn, begunIn)
  BY <1>1, TcpInGoes
<1>4. /\ f.kind \notin InKinds => Flow(wire', InKinds, DoneIn, fragIn # 0, sentIn, begunIn)
      /\ f.kind \in InKinds =>
            /\ Fits(f, DoneIn, fragIn # 0)
            /\ Flow(wire', InKinds, DoneAfter(f), OpenAfter(f), sentIn, begunIn)
  BY <1>1, <1>3, KindFacts, FlowTake
<1>5. InOrder'
  BY <1>2 DEF InInv, InOrder, FirstIn
<1>6. WsIn'
  BY <1>1, <1>2 DEF WsIn
<1>7. ASSUME reason' # "clean-eof" PROVE InInv'
  BY <1>1, <1>2, <1>7, InOver
<1>8. CASE f.kind \in {"ping", "close"} /\ UNCHANGED <<b2u, fragIn, tls>>
  <2>1. f.kind \notin InKinds
    BY <1>8 DEF InKinds, Parts
  <2>2. Flow(wire', InKinds, DoneIn, fragIn # 0, sentIn, begunIn)
    BY <1>4, <2>1
  <2>3. TcpIn'
    <3>1. DoneIn = IF tls THEN InMessages + 1 ELSE 0
      BY DEF DoneIn
    <3>2. QED
      BY <1>1, <1>2, <1>3, <1>8, <2>2, <3>1 DEF TcpIn
  <2>4. QED
    BY <1>5, <1>6, <2>3 DEF InInv
<1>9. CASE (f.kind = "whole" /\ fragIn = 0 /\ Feed(f.msg)) \/ (f.kind = "tail" /\ fragIn # 0 /\ Feed(fragIn))
  <2>1. f.kind \in InKinds /\ f.kind \in {"whole", "tail"}
    BY <1>9 DEF InKinds, Parts
  <2>2. Fits(f, DoneIn, fragIn # 0) /\ Flow(wire', InKinds, DoneAfter(f), OpenAfter(f), sentIn, begunIn)
    BY <1>4, <2>1
  <2>3. f.msg = DoneIn + 1
    BY <2>1, <2>2 DEF Fits
  <2>4. DoneAfter(f) = DoneIn + 1 /\ OpenAfter(f) = FALSE
    BY <2>1, <2>3 DEF DoneAfter, OpenAfter
  <2>5. Flow(wire', InKinds, DoneIn + 1, FALSE, sentIn, begunIn)
    BY <2>2, <2>4
  <2>6. Feed(DoneIn + 1)
    <3>1. CASE f.kind = "whole"
      <4>1. Feed(f.msg)
        BY <1>9, <3>1
      <4>2. QED
        BY <2>3, <4>1
    <3>2. CASE f.kind = "tail"
      <4>1. Feed(fragIn) /\ fragIn = DoneIn + 1
        BY <1>3, <1>9, <3>2
      <4>2. QED
        BY <4>1
    <3>3. QED
      BY <2>1, <3>1, <3>2
  <2>7. TcpIn'
    BY <1>1, <1>2, <2>5, <2>6, FeedIn
  <2>8. QED
    BY <1>5, <1>6, <2>7 DEF InInv
<1>10. CASE f.kind = "head" /\ fragIn = 0 /\ fragIn' = f.msg /\ UNCHANGED <<b2u, tls>>
  <2>1. f.kind \in InKinds
    BY <1>10 DEF InKinds, Parts
  <2>2. Fits(f, DoneIn, fragIn # 0) /\ Flow(wire', InKinds, DoneAfter(f), OpenAfter(f), sentIn, begunIn)
    BY <1>4, <2>1
  <2>3. f.msg = DoneIn + 1
    BY <1>10, <2>2 DEF Fits
  <2>4. DoneAfter(f) = DoneIn /\ OpenAfter(f)
    BY <1>3, <1>10, <2>3 DEF DoneAfter, OpenAfter
  <2>5. fragIn' = DoneIn + 1 /\ OpenAfter(f) = (fragIn' # 0)
    BY <1>3, <1>10, <2>3, <2>4 DEF OpenAfter
  <2>6. Flow(wire', InKinds, DoneIn, fragIn' # 0, sentIn, begunIn)
    BY <2>2, <2>4, <2>5
  <2>7. TcpIn'
    <3>1. DoneIn = IF tls THEN InMessages + 1 ELSE 0
      BY DEF DoneIn
    <3>2. QED
      BY <1>1, <1>2, <1>3, <1>10, <2>5, <2>6, <3>1 DEF TcpIn
  <2>8. QED
    BY <1>5, <1>6, <2>7 DEF InInv
<1>11. QED
  <2>1. \/ f.kind \in {"ping", "close"} /\ UNCHANGED <<b2u, fragIn, tls>>
        \/ (f.kind = "whole" /\ fragIn = 0 /\ Feed(f.msg)) \/ (f.kind = "tail" /\ fragIn # 0 /\ Feed(fragIn))
        \/ f.kind = "head" /\ fragIn = 0 /\ fragIn' = f.msg /\ UNCHANGED <<b2u, tls>>
        \/ reason' # "clean-eof"
    BY DEF TcpFrame, Stop
  <2>2. QED
    BY <1>7, <1>8, <1>9, <1>10, <2>1

\* Each step of the pump of a tcp bridge passes on the next message of the edge or none.
LEMMA TcpPumpIn == Typed /\ ReasonInv /\ InInv /\ TcpPumping => InInv'
<1> SUFFICES ASSUME Typed, ReasonInv, InInv, TcpPumping PROVE InInv'
  OBVIOUS
<1>0. TcpPump /\ TcpStep /\ reason = "clean-eof" /\ pc = "pump" /\ bridge = "tcp"
  BY DEF TcpPumping, TcpFrame, TcpFeedFails, TcpWrite, TcpEdgeEnds, TcpRead, TcpUpstreamEnds,
     TcpPump, ReasonInv
<1>1. CASE TcpFrame
  BY <1>1, TcpFrameIn
<1>2. CASE TcpFeedFails
  <2>1. UNCHANGED <<upIn, upGot, bridge>> /\ reason' # "clean-eof"
    BY <1>2 DEF TcpFeedFails, Stop, TcpStep
  <2>2. QED
    BY <1>0, <2>1, Unchanged, InOver
<1>3. CASE TcpWrite
  <2>1. CASE Stop("outbound-error") /\ UNCHANGED upIn
    <3>1. UNCHANGED <<upIn, upGot, bridge>> /\ reason' # "clean-eof"
      BY <1>0, <2>1 DEF Stop, TcpStep
    <3>2. QED
      BY <1>0, <3>1, Unchanged, InOver
  <2>2. CASE upIn' = Append(upIn, fragIn) /\ b2u' = "recv" /\ fragIn' = 0 /\ UNCHANGED tls
    <3>1. /\ b2u = "write" /\ UNCHANGED <<bridge, wire, sentIn, begunIn, upGot>>
      BY <1>0, <1>3 DEF TcpWrite, TcpStep
    <3>2. /\ InMessages \in Nat /\ tls /\ fragIn = InMessages + 2 /\ fragIn \in Nat
          /\ Flow(wire, InKinds, fragIn, FALSE, sentIn, begunIn)
      BY <1>0, <3>1, TcpInGoes
    <3>3. AtUpstream' = Append(AtUpstream, fragIn) /\ AtUpstream \in Seq(Nat)
      <4>1. QueueTypes /\ fragIn # 0
        BY <3>2 DEF Typed
      <4>2. AtUpstream' = IF fragIn = 0 THEN AtUpstream ELSE Append(AtUpstream, fragIn)
        BY <2>2, <3>1, <3>2, <4>1, InAppends
      <4>3. QED
        BY <4>1, <4>2, InSeq
    <3>4. InOrder' /\ InMessages' = InMessages + 1
      <4>1. fragIn = Len(AtUpstream) + 1 + 1 /\ \A i \in DOMAIN AtUpstream : AtUpstream[i] = i + 1
        <5>1. DOMAIN AtUpstream = 1..Len(AtUpstream) /\ FirstIn = 2
          BY <1>0, <3>3 DEF FirstIn
        <5>2. fragIn = Len(AtUpstream) + 1 + 1
          BY <3>2, <3>3 DEF InMessages
        <5>3. \A i \in DOMAIN AtUpstream : AtUpstream[i] = i + 1
          BY <5>1 DEF InInv, InOrder
        <5>4. QED
          BY <5>2, <5>3
      <4>2. /\ Len(Append(AtUpstream, fragIn)) = Len(AtUpstream) + 1
            /\ \A i \in DOMAIN Append(AtUpstream, fragIn) : Append(AtUpstream, fragIn)[i] = i + 1
        BY <3>2, <3>3, <4>1, OrderAppend
      <4>3. FirstIn' = 2
        BY <1>0, <3>1 DEF FirstIn
      <4>4. DOMAIN AtUpstream' \subseteq Int
        BY <3>2, <3>3
      <4>5. QED
        BY <3>3, <4>2, <4>3, <4>4 DEF InOrder, InMessages
    <3>5. TcpIn'
      <4>1. InMessages' + 1 = fragIn
        BY <3>2, <3>4
      <4>2. Flow(wire', InKinds, InMessages' + 1, FALSE, sentIn', begunIn')
        BY <3>1, <3>2, <4>1
      <4>3. (fragIn' # 0) = FALSE /\ tls'
        BY <2>2, <3>2
      <4>4. Flow(wire', InKinds, InMessages' + 1, fragIn' # 0, sentIn', begunIn')
        BY <4>2, <4>3
      <4>5. QED
        BY <2>2, <4>3, <4>4 DEF TcpIn
    <3>6. WsIn'
      BY <1>0, <3>1 DEF WsIn
    <3>7. QED
      BY <3>4, <3>5, <3>6 DEF InInv
  <2>3. QED
    BY <1>3, <2>1, <2>2 DEF TcpWrite
<1>4. CASE TcpEdgeEnds \/ TcpRead \/ TcpUpstreamEnds
  <2>1. UNCHANGED <<wire, upIn, b2u, fragIn, tls>>
    BY <1>4 DEF TcpEdgeEnds, TcpRead, TcpUpstreamEnds, Stop, Stay
  <2>2. UNCHANGED <<bridge, envBuf, sentIn, begunIn, upGot>>
    BY <1>0 DEF TcpStep
  <2>3. QED
    BY <1>0, <2>1, <2>2, Unchanged, InKept
<1>5. QED
  BY <1>1, <1>2, <1>3, <1>4 DEF TcpPumping

\* Whatever happens, each message of the edge is passed on once and in order.
LEMMA InNext == Typed /\ ReasonInv /\ InInv /\ Next => InInv'
<1> SUFFICES ASSUME Typed, ReasonInv, InInv, Next PROVE InInv'
  OBVIOUS
<1>1. ASSUME Finish PROVE InInv'
  <2>1. pc' = "done" /\ UNCHANGED <<bridge, upGot, upIn>>
    BY <1>1 DEF Finish, Goto, upVars
  <2>2. QED
    BY <2>1, Unchanged, InOver
<1>2. CASE Opening \/ Abort
  <2>1. CASE SendFails \/ NotAccepted \/ Abort
    BY <1>1, <2>1 DEF SendFails, NotAccepted, Abort
  <2>2. CASE DialFails
    <3>1. UNCHANGED <<bridge, b2u, envBuf, wire, sentIn, begunIn, fragIn, tls, upGot, upIn>>
          /\ pc # "done" /\ reason' # "clean-eof"
      BY <2>2 DEF DialFails, Goto, edgeVars, upVars
    <3>2. QED
      BY <3>1, Unchanged, InKept
  <2>3. ASSUME NEW answer, UpstreamRefuses(answer) PROVE InInv'
    <3>1. pc' = "done" /\ UNCHANGED <<bridge, upGot, upIn>>
      BY <2>3 DEF UpstreamRefuses, Goto, upVars
    <3>2. QED
      BY <3>1, Unchanged, InOver
  <2>4. CASE RejectEnvelope \/ UpstreamAccepts \/ PostAccept \/ Connect \/ Accepted \/ DialUpstream
    <3>1. UNCHANGED <<bridge, b2u, envBuf, wire, sentIn, begunIn, fragIn, tls, upGot, upIn, reason>>
          /\ pc # "done"
      BY <2>4 DEF RejectEnvelope, UpstreamAccepts, PostAccept, Connect, Accepted, DialUpstream,
         Goto, edgeVars, upVars, pumpVars
    <3>2. QED
      BY <3>1, Unchanged, InKept
  <2>5. QED
    BY <1>2, <2>1, <2>2, <2>3, <2>4 DEF Opening
<1>3. CASE WsPumping
  BY <1>3, WsPumpIn
<1>4. CASE TcpPumping
  BY <1>4, TcpPumpIn
<1>5. CASE Closing
  <2>1. CASE Leave
    BY <1>1, <2>1 DEF Leave
  <2>2. CASE WsEnds \/ TcpShut \/ TcpNotify \/ TcpClose \/ TcpLinger
    <3>1. UNCHANGED <<bridge, b2u, envBuf, wire, sentIn, begunIn, fragIn, tls, upGot, upIn, reason>>
          /\ pc # "done"
      BY <2>2 DEF WsEnds, WsPump, TcpShut, TcpNotify, TcpClose, TcpLinger, Goto, edgeVars, upVars, pumpVars
    <3>2. QED
      BY <3>1, Unchanged, InKept
  <2>3. QED
    BY <1>5, <2>1, <2>2 DEF Closing
<1>6. CASE EdgeSends
  BY <1>6, EdgeSendsIn
<1>7. CASE EdgeEnds \/ UpstreamSends \/ UpstreamReads \/ UpstreamEnds
  <2>1. UNCHANGED <<bridge, b2u, envBuf, wire, sentIn, begunIn, fragIn, tls, reason, pc>>
    BY <1>7 DEF EdgeEnds, UpstreamSends, UpstreamReads, UpstreamEnds, Outside, edgeVars, pumpVars
  <2>2. CASE UpstreamReads
    <3>1. AtUpstream' = AtUpstream
      BY <2>2, InReads DEF Typed
    <3>2. QED
      BY <2>1, <3>1, InKept
  <2>3. CASE EdgeEnds \/ UpstreamSends \/ UpstreamEnds
    <3>1. UNCHANGED <<upGot, upIn>>
      BY <2>3 DEF EdgeEnds, UpstreamSends, UpstreamEnds, upVars
    <3>2. QED
      BY <2>1, <3>1, Unchanged, InKept
  <2>4. QED
    BY <1>7, <2>2, <2>3
<1>8. CASE UNCHANGED vars
  <2>1. UNCHANGED <<bridge, b2u, envBuf, wire, sentIn, begunIn, fragIn, tls, reason, pc, upGot, upIn>>
    BY <1>8 DEF vars, edgeVars, upVars, pumpVars
  <2>2. QED
    BY <2>1, Unchanged, InKept
<1>9. QED
  BY <1>2, <1>3, <1>4, <1>5, <1>6, <1>7, <1>8 DEF Next, Task

-----------------------------------------------------------------------------
(* From the upstream to the edge.                                          *)

\* The upstream sends what fits, or what carries no message.
LEMMA SentOutFits ==
    ASSUME TypeOK, QueueTypes, UpstreamSends
    PROVE  \E f \in UpFrames :
              /\ upOut' = Append(upOut, f) /\ (bridge = "tcp" => f.kind = "whole")
              /\ \/ f.kind \notin OutKinds /\ UNCHANGED <<sentOut, begunOut>>
                 \/ /\ f.kind \in OutKinds /\ Fits(f, sentOut, begunOut)
                    /\ sentOut' = DoneAfter(f) /\ (begunOut' <=> OpenAfter(f))
<1>1. CASE \E f \in NextFrames(sentOut, begunOut, MaxOut) :
              /\ bridge = "tcp" => f.kind = "whole"
              /\ upOut' = Append(upOut, f) /\ begunOut' = (f.kind = "head")
              /\ sentOut' = Completed(f, sentOut)
  <2>1. PICK f \in NextFrames(sentOut, begunOut, MaxOut) :
              /\ bridge = "tcp" => f.kind = "whole"
              /\ upOut' = Append(upOut, f) /\ begunOut' = (f.kind = "head")
              /\ sentOut' = Completed(f, sentOut)
    BY <1>1
  <2>2. sentOut + 1 \in 0..MaxOut
    BY <2>1, BridgeAssumption DEF NextFrames, TypeOK, QueueTypes
  <2>3. f.kind \in Parts /\ f.msg = sentOut + 1 /\ f = F(f.kind, f.msg) /\ (begunOut <=> f.kind = "tail")
    BY <2>1, FrameFacts DEF NextFrames, Parts
  <2>4. f \in UpFrames
    BY <2>2, <2>3, FrameFacts
  <2>5. f.kind \in OutKinds /\ Fits(f, sentOut, begunOut)
    BY <2>3 DEF OutKinds, Parts, Fits
  <2>6. sentOut' = DoneAfter(f) /\ (begunOut' <=> OpenAfter(f))
    <3>1. sentOut \in Int /\ f.kind \in {"whole", "head", "tail"} /\ (OpenAfter(f) <=> f.kind = "head")
      BY <2>3 DEF TypeOK, OpenAfter, Parts
    <3>2. begunOut' <=> OpenAfter(f)
      BY <2>1, <3>1
    <3>3. sentOut' = DoneAfter(f)
      BY <2>1, <2>3, <3>1 DEF Completed, DoneAfter
    <3>4. QED
      BY <3>2, <3>3
  <2>7. QED
    BY <2>1, <2>4, <2>5, <2>6
<1>2. CASE \E k \in {"ping", "close", "other"} :
              /\ bridge = "ws" /\ upOut' = Append(upOut, F(k, 0)) /\ UNCHANGED <<sentOut, begunOut>>
  <2>1. PICK k \in {"ping", "close", "other"} :
              /\ bridge = "ws" /\ upOut' = Append(upOut, F(k, 0)) /\ UNCHANGED <<sentOut, begunOut>>
    BY <1>2
  <2>2. F(k, 0) \in UpFrames /\ F(k, 0).kind = k
    BY FrameFacts, BridgeAssumption DEF Control
  <2>3. k \notin OutKinds
    BY DEF OutKinds, Parts
  <2>4. QED
    BY <2>1, <2>2, <2>3
<1>3. CASE /\ bridge = "ws" /\ begunOut
           /\ upOut' = Append(upOut, F("inner", sentOut + 1)) /\ UNCHANGED <<sentOut, begunOut>>
  <2> DEFINE f == F("inner", sentOut + 1)
  <2>1. sentOut \in Nat /\ sentOut + 1 \in 0..MaxOut
    BY <1>3, BridgeAssumption DEF TypeOK, QueueTypes
  <2>2. f \in UpFrames /\ f.kind = "inner" /\ f.msg = sentOut + 1
    BY <2>1, FrameFacts
  <2>3. upOut' = Append(upOut, f)
    BY <1>3
  <2> HIDE DEF f
  <2>4. f.kind \in OutKinds /\ Fits(f, sentOut, begunOut)
    BY <1>3, <2>2 DEF OutKinds, Fits
  <2>5. OpenAfter(f)
    BY <2>2 DEF OpenAfter
  <2>6. DoneAfter(f) = sentOut
    BY <2>1, <2>2, <2>5 DEF DoneAfter
  <2>7. QED
    BY <1>3, <2>2, <2>3, <2>4, <2>5, <2>6
<1>4. QED
  BY <1>1, <1>2, <1>3 DEF UpstreamSends

\* Nothing of what goes to the edge is disturbed.
LEMMA OutKept ==
    ASSUME OutInv, UNCHANGED <<bridge, sentOut, begunOut, fragOut, tls, early>>,
           leftover' \o upOut' = leftover \o upOut, bridge = "tcp" => upOut' = upOut,
           AtEdge' = AtEdge, u2b' # "done" => u2b # "done",
           edgeEnd' # "reset" => edgeEnd # "reset", pc' # "done" => pc # "done",
           pc' # "done" /\ reason' = "clean-eof" => reason = "clean-eof"
    PROVE  OutInv'
<1>1. OutOrder'
  BY DEF OutInv, OutOrder
<1>2. WsOut'
  BY DEF OutInv, WsOut, OutMessages
<1>3. TcpOut'
  BY DEF OutInv, TcpOut, OutMessages
<1>4. QED
  BY <1>1, <1>2, <1>3 DEF OutInv

\* The direction is given up.
LEMMA OutOver ==
    ASSUME OutInv, UNCHANGED bridge, AtEdge' = AtEdge,
           \/ pc' = "done"
           \/ bridge = "ws" /\ u2b' = "done"
           \/ bridge = "tcp" /\ (reason' # "clean-eof" \/ edgeEnd' = "reset")
    PROVE  OutInv'
<1>1. OutOrder'
  BY DEF OutInv, OutOrder
<1>2. WsOut' /\ TcpOut'
  BY DEF WsOut, TcpOut
<1>3. QED
  BY <1>1, <1>2 DEF OutInv

\* A frame of the upstream.
LEMMA UpstreamSendsOut == ASSUME Typed, OutInv, UpstreamSends PROVE OutInv'
<1>1. PICK f \in UpFrames :
              /\ upOut' = Append(upOut, f) /\ (bridge = "tcp" => f.kind = "whole")
              /\ \/ f.kind \notin OutKinds /\ UNCHANGED <<sentOut, begunOut>>
                 \/ /\ f.kind \in OutKinds /\ Fits(f, sentOut, begunOut)
                    /\ sentOut' = DoneAfter(f) /\ (begunOut' <=> OpenAfter(f))
  BY SentOutFits DEF Typed
<1>2. /\ UNCHANGED <<bridge, pc, reason, u2b, fragOut, tls, early, leftover, edgeEnd>>
      /\ AtEdge' = AtEdge
  BY Unchanged DEF UpstreamSends, Outside, pumpVars, edgeVars
<1>3. /\ f \in Frames /\ leftover \in Seq(Frames) /\ upOut \in Seq(Frames)
      /\ sentOut \in Nat /\ OutMessages \in Nat /\ Len(early) \in Nat
  <2>1. /\ leftover \in Seq(UpFrames) /\ upOut \in Seq(UpFrames) /\ AtEdge \in Seq(Nat)
        /\ early \in Seq(Nat)
    BY OutSeq DEF Typed, QueueTypes
  <2>2. leftover \in Seq(Frames) /\ upOut \in Seq(Frames)
    BY <2>1, FrameFacts, SeqMonotonic
  <2>3. OutMessages \in Nat /\ Len(early) \in Nat
    BY <2>1 DEF OutMessages
  <2>4. sentOut \in Nat
    BY DEF Typed, TypeOK
  <2>5. QED
    BY <2>2, <2>3, <2>4, FrameFacts
<1>4. ASSUME NEW q \in Seq(Frames), NEW done \in Nat, NEW open,
             Flow(q, OutKinds, done, open, sentOut, begunOut)
      PROVE  Flow(Append(q, f), OutKinds, done, open, sentOut', begunOut')
  <2>1. /\ f.kind \notin OutKinds => Flow(Append(q, f), OutKinds, done, open, sentOut, begunOut)
        /\ f.kind \in OutKinds /\ Fits(f, sentOut, begunOut) =>
              Flow(Append(q, f), OutKinds, done, open, DoneAfter(f), OpenAfter(f))
    BY <1>3, <1>4, KindFacts, FlowAppend
  <2>2. CASE f.kind \notin OutKinds
    BY <1>1, <2>1, <2>2
  <2>3. CASE f.kind \in OutKinds
    <3>1. Flow(Append(q, f), OutKinds, done, open, sentOut', OpenAfter(f))
      BY <1>1, <2>1, <2>3
    <3>2. begunOut' <=> OpenAfter(f)
      BY <1>1, <2>3
    <3>3. QED
      BY <3>1, <3>2 DEF Flow, Chain
  <2>4. QED
    BY <2>2, <2>3
<1>5. WsOut'
  <2> SUFFICES ASSUME bridge = "ws", pc # "done", u2b # "done"
               PROVE  /\ fragOut # 0 => fragOut = OutMessages + 1
                      /\ Flow(leftover \o upOut', OutKinds, OutMessages, fragOut # 0, sentOut', begunOut')
    BY <1>2 DEF WsOut, OutMessages
  <2>1. /\ fragOut # 0 => fragOut = OutMessages + 1
        /\ Flow(leftover \o upOut, OutKinds, OutMessages, fragOut # 0, sentOut, begunOut)
    BY DEF OutInv, WsOut
  <2>2. leftover \o upOut' = Append(leftover \o upOut, f)
    BY <1>1, <1>3, ConcatAppend
  <2>3. leftover \o upOut \in Seq(Frames)
    BY <1>3
  <2>4. Flow(Append(leftover \o upOut, f), OutKinds, OutMessages, fragOut # 0, sentOut', begunOut')
    BY <1>3, <1>4, <2>1, <2>3
  <2>5. QED
    BY <2>1, <2>2, <2>4
<1>6. TcpOut'
  <2> SUFFICES ASSUME bridge = "tcp", pc # "done", reason = "clean-eof", edgeEnd # "reset"
               PROVE  /\ tls => early = <<>>
                      /\ \A i \in DOMAIN early : early[i] = OutMessages + i
                      /\ Flow(upOut', OutKinds, OutMessages + Len(early), FALSE, sentOut', FALSE)
    BY <1>2 DEF TcpOut, OutMessages
  <2>1. /\ tls => early = <<>>
        /\ \A i \in DOMAIN early : early[i] = OutMessages + i
        /\ Flow(upOut, OutKinds, OutMessages + Len(early), FALSE, sentOut, FALSE)
    BY DEF OutInv, TcpOut
  <2>2. f.kind = "whole" /\ ~begunOut
    BY <1>1 DEF Typed, OpeningInv
  <2>3. begunOut = FALSE
    BY <2>2 DEF Typed, TypeOK
  <2>4. Flow(upOut', OutKinds, OutMessages + Len(early), FALSE, sentOut', begunOut')
    <3> DEFINE d == OutMessages + Len(early)
    <3>1. d \in Nat
      BY <1>3
    <3>2. Flow(upOut, OutKinds, d, FALSE, sentOut, begunOut)
      BY <2>1, <2>3
    <3> HIDE DEF d
    <3>3. Flow(Append(upOut, f), OutKinds, d, FALSE, sentOut', begunOut')
      BY <1>3, <1>4, <3>1, <3>2
    <3>4. QED
      BY <1>1, <3>3 DEF d
  <2>5. ~begunOut'
    BY <1>1, <2>2 DEF OutKinds, Parts, OpenAfter
  <2>6. Flow(upOut', OutKinds, OutMessages + Len(early), FALSE, sentOut', FALSE)
    <3>1. begunOut' <=> FALSE
      BY <2>5
    <3>2. QED
      BY <2>4, <3>1 DEF Flow, Chain
  <2>7. QED
    BY <2>1, <2>6
<1>7. OutOrder'
  BY <1>2 DEF OutInv, OutOrder
<1>8. QED
  BY <1>5, <1>6, <1>7 DEF OutInv

\* A frame of the upstream's is the next message or a part of it.
LEMMA OutMore ==
    ASSUME QueueTypes, OutOrder, NEW m \in Nat, m = OutMessages + 1,
           edgeGot' = edgeGot \o <<F("whole", m)>>
    PROVE  OutOrder' /\ OutMessages' = OutMessages + 1
<1>1. F("whole", m) \in Frames /\ F("whole", m).kind = "whole" /\ F("whole", m).msg = m
  BY FrameFacts DEF Parts
<1> DEFINE f == F("whole", m)
           r == <<f>>
<1>2. r \in Seq(Frames) /\ EdgeMessages(r) = <<m>>
  <2> HIDE DEF f
  <2>1. EdgeMessages(<<f>>) = <<f.msg>>
    BY <1>1, EdgeOne DEF f
  <2>2. <<f>> \in Seq(Frames)
    BY <1>1 DEF f
  <2>3. f.msg = m
    BY <1>1 DEF f
  <2>4. QED
    BY <2>1, <2>2, <2>3
<1> HIDE DEF r
<1>3. AtEdge \in Seq(Nat) /\ AtEdge' = AtEdge \o EdgeMessages(r)
  BY <1>2, OutSends, OutSeq DEF r
<1>4. AtEdge' = Append(AtEdge, m)
  BY <1>2, <1>3
<1>5. m = Len(AtEdge) + 1 + 0 /\ \A i \in DOMAIN AtEdge : AtEdge[i] = i + 0
  <2>1. DOMAIN AtEdge = 1..Len(AtEdge)
    BY <1>3
  <2>2. QED
    BY <2>1 DEF OutOrder, OutMessages
<1>6. /\ Len(Append(AtEdge, m)) = Len(AtEdge) + 1
      /\ \A i \in DOMAIN Append(AtEdge, m) : Append(AtEdge, m)[i] = i + 0
  BY <1>3, <1>5, OrderAppend
<1>7. DOMAIN Append(AtEdge, m) \subseteq Int
  BY <1>3
<1>8. QED
  BY <1>4, <1>6, <1>7 DEF OutOrder, OutMessages

\* A frame that is not a message.
LEMMA OtherOut ==
    ASSUME QueueTypes, NEW f \in Frames, f.kind # "whole", Send(<<f>>) PROVE AtEdge' = AtEdge
<1>1. CASE edgeEnd = "reset"
  BY <1>1, Unchanged DEF Send
<1>2. CASE edgeEnd # "reset"
  <2>1. EdgeMessages(<<f>>) = <<>> /\ <<f>> \in Seq(Frames)
    <3>1. EdgeMessages(<<f>>) = IF f.kind = "whole" THEN <<f.msg>> ELSE <<>>
      BY EdgeOne
    <3>2. <<f>> \in Seq(Frames)
      OBVIOUS
    <3>3. QED
      BY <3>1, <3>2
  <2>2. AtEdge' = AtEdge \o EdgeMessages(<<f>>) /\ AtEdge \in Seq(Nat)
    BY <1>2, <2>1, OutSends, OutSeq DEF Send
  <2>3. QED
    BY <2>1, <2>2
<1>3. QED
  BY <1>1, <1>2

\* A direction of a ws bridge that goes on: the next frame of the upstream.
LEMMA WsOutGoes ==
    ASSUME Typed, OutInv, WsPump, u2b # "done", upOut # <<>>
    PROVE  /\ leftover = <<>> /\ upOut \in Seq(UpFrames) /\ upOut \in Seq(Frames)
           /\ OutMessages \in Nat /\ sentOut \in Nat /\ fragOut \in Nat
           /\ fragOut # 0 => fragOut = OutMessages + 1
           /\ Head(upOut) \in UpFrames
           /\ Head(upOut).kind \notin OutKinds =>
                 Flow(Tail(upOut), OutKinds, OutMessages, fragOut # 0, sentOut, begunOut)
           /\ Head(upOut).kind \in OutKinds =>
                 /\ Fits(Head(upOut), OutMessages, fragOut # 0)
                 /\ Flow(Tail(upOut), OutKinds, DoneAfter(Head(upOut)), OpenAfter(Head(upOut)),
                         sentOut, begunOut)
<1>1. /\ upOut \in Seq(UpFrames) /\ AtEdge \in Seq(Nat) /\ leftover = <<>>
  BY OutSeq DEF Typed, QueueTypes, OpeningInv, WsPump
<1>2. sentOut \in Nat /\ fragOut \in Nat
  BY DEF Typed, TypeOK
<1>3. OutMessages \in Nat
  BY <1>1 DEF OutMessages
<1>4. upOut \in Seq(Frames)
  BY <1>1, FrameFacts, SeqMonotonic
<1>5. /\ fragOut # 0 => fragOut = OutMessages + 1
      /\ Flow(leftover \o upOut, OutKinds, OutMessages, fragOut # 0, sentOut, begunOut)
  BY DEF OutInv, WsOut, WsPump
<1>6. leftover \o upOut = upOut
  BY <1>1
<1>7. Flow(upOut, OutKinds, OutMessages, fragOut # 0, sentOut, begunOut)
  BY <1>5, <1>6
<1>8. /\ Head(upOut).kind \notin OutKinds =>
            Flow(Tail(upOut), OutKinds, OutMessages, fragOut # 0, sentOut, begunOut)
      /\ Head(upOut).kind \in OutKinds =>
            /\ Fits(Head(upOut), OutMessages, fragOut # 0)
            /\ Flow(Tail(upOut), OutKinds, DoneAfter(Head(upOut)), OpenAfter(Head(upOut)),
                    sentOut, begunOut)
  BY <1>2, <1>3, <1>4, <1>7, KindFacts, FlowTake
<1>9. Head(upOut) \in UpFrames
  BY <1>1
<1>10. QED
  BY <1>1, <1>2, <1>3, <1>4, <1>5, <1>8, <1>9

\* A complete message goes to the edge, unless the edge has reset the stream.
LEMMA ForwardOut ==
    ASSUME Typed, OutInv, WsPump, UNCHANGED <<bridge, pc, sentOut, begunOut, leftover>>,
           leftover = <<>>, NEW m \in Nat, m = OutMessages + 1, U2bForward(m),
           Flow(upOut', OutKinds, m, FALSE, sentOut, begunOut), upOut' \in Seq(UpFrames)
    PROVE  OutInv'
<1>0. bridge = "ws"
  BY DEF WsPump
<1>1. CASE ~Sendable
  <2>1. u2b' = "done" /\ UNCHANGED edgeGot
    BY <1>1 DEF U2bForward, Send, Sendable
  <2>2. QED
    BY <1>0, <2>1, Unchanged, OutOver
<1>2. CASE Sendable
  <2>1. fragOut' = 0 /\ edgeGot' = edgeGot \o <<F("whole", m)>>
    BY <1>2 DEF U2bForward, Send, Sendable
  <2>2. OutOrder' /\ OutMessages' = OutMessages + 1
    BY <2>1, OutMore DEF Typed, OutInv
  <2>3. leftover' \o upOut' = upOut'
    <3> DEFINE p == upOut'
    <3>1. p \in Seq(UpFrames)
      OBVIOUS
    <3> HIDE DEF p
    <3>2. <<>> \o p = p
      BY <3>1
    <3>3. QED
      BY <3>2 DEF p
  <2>4. (fragOut' # 0) = FALSE /\ OutMessages' = m
    BY <2>1, <2>2
  <2>5. Flow(leftover' \o upOut', OutKinds, OutMessages', fragOut' # 0, sentOut', begunOut')
    BY <2>3, <2>4
  <2>6. WsOut'
    BY <2>1, <2>5 DEF WsOut
  <2>7. TcpOut'
    BY <1>0 DEF TcpOut
  <2>8. QED
    BY <2>2, <2>6, <2>7 DEF OutInv
<1>3. QED
  BY <1>1, <1>2

\* The next frame of the upstream: a message that is complete is the next one.
LEMMA U2bFrameOut == ASSUME Typed, OutInv, U2bFrame PROVE OutInv'
<1> DEFINE f == Head(upOut)
<1>1. /\ WsPump /\ u2b = "read" /\ upOut # <<>> /\ upOut' = Tail(upOut)
      /\ UNCHANGED <<bridge, pc, sentOut, begunOut, leftover, edgeEnd>> /\ bridge = "ws" /\ pc = "pump"
  BY DEF U2bFrame, U2bStep, WsPump, edgeVars
<1>2. /\ leftover = <<>> /\ upOut \in Seq(UpFrames) /\ upOut \in Seq(Frames)
      /\ OutMessages \in Nat /\ sentOut \in Nat /\ fragOut \in Nat
      /\ fragOut # 0 => fragOut = OutMessages + 1
      /\ f \in UpFrames
      /\ f.kind \notin OutKinds =>
            Flow(upOut', OutKinds, OutMessages, fragOut # 0, sentOut, begunOut)
      /\ f.kind \in OutKinds =>
            /\ Fits(f, OutMessages, fragOut # 0)
            /\ Flow(upOut', OutKinds, DoneAfter(f), OpenAfter(f), sentOut, begunOut)
  BY <1>1, WsOutGoes
<1>3. upOut' \in Seq(UpFrames) /\ leftover' \o upOut' = upOut'
  <2>1. Tail(upOut) \in Seq(UpFrames)
    BY <1>1, <1>2
  <2>2. <<>> \o Tail(upOut) = Tail(upOut)
    BY <2>1
  <2>3. QED
    BY <1>1, <1>2, <2>1, <2>2
<1>4. ASSUME u2b' = "done", UNCHANGED edgeGot PROVE OutInv'
  BY <1>1, <1>4, Unchanged, OutOver
<1>5. CASE f.kind \in {"ping", "other"} /\ UNCHANGED <<fragOut, edgeGot>>
  <2>1. f.kind \notin OutKinds
    BY <1>5 DEF OutKinds, Parts
  <2>2. Flow(leftover' \o upOut', OutKinds, OutMessages, fragOut # 0, sentOut, begunOut)
    BY <1>2, <1>3, <2>1
  <2>3. AtEdge' = AtEdge
    BY <1>5, Unchanged
  <2>4. WsOut'
    BY <1>1, <1>2, <1>5, <2>2, <2>3 DEF WsOut, OutMessages
  <2>5. OutOrder' /\ TcpOut'
    BY <1>1, <2>3 DEF OutInv, OutOrder, TcpOut
  <2>6. QED
    BY <2>4, <2>5 DEF OutInv
<1>6. CASE f.kind = "close" /\ u2b' = "done" /\ Send(<<F("bye", 0)>>)
  <2>1. AtEdge' = AtEdge
    <3>1. F("bye", 0) \in Frames /\ F("bye", 0).kind # "whole"
      BY FrameFacts
    <3>2. QED
      BY <1>6, <3>1, OtherOut DEF Typed
  <2>2. QED
    BY <1>1, <1>6, <2>1, OutOver
<1>7. CASE f.kind \in {"whole", "inner"} /\ fragOut = 0 /\ U2bForward(f.msg)
  <2>1. f.kind \in OutKinds
    BY <1>7 DEF OutKinds, Parts
  <2>2. Fits(f, OutMessages, fragOut # 0) /\ Flow(upOut', OutKinds, DoneAfter(f), OpenAfter(f), sentOut, begunOut)
    BY <1>2, <2>1
  <2>3. f.kind = "whole" /\ f.msg = OutMessages + 1 /\ f.msg \in Nat
    BY <1>2, <1>7, <2>2 DEF Fits
  <2>4. DoneAfter(f) = f.msg /\ OpenAfter(f) = FALSE
    BY <2>3 DEF DoneAfter, OpenAfter
  <2>5. Flow(upOut', OutKinds, f.msg, FALSE, sentOut, begunOut)
    BY <2>2, <2>4
  <2> HIDE DEF f
  <2>6. QED
    BY <1>1, <1>2, <1>3, <1>7, <2>3, <2>5, ForwardOut
<1>8. CASE f.kind = "tail" /\ fragOut # 0 /\ U2bForward(fragOut)
  <2>1. f.kind \in OutKinds
    BY <1>8 DEF OutKinds, Parts
  <2>2. Fits(f, OutMessages, fragOut # 0) /\ Flow(upOut', OutKinds, DoneAfter(f), OpenAfter(f), sentOut, begunOut)
    BY <1>2, <2>1
  <2>3. f.msg = OutMessages + 1 /\ fragOut = OutMessages + 1
    BY <1>2, <1>8, <2>2 DEF Fits
  <2>4. DoneAfter(f) = fragOut /\ OpenAfter(f) = FALSE
    BY <1>8, <2>3 DEF DoneAfter, OpenAfter
  <2>5. Flow(upOut', OutKinds, fragOut, FALSE, sentOut, begunOut)
    BY <2>2, <2>4
  <2>6. QED
    BY <1>1, <1>2, <1>3, <1>8, <2>3, <2>5, ForwardOut
<1>9. CASE f.kind = "head" /\ fragOut = 0 /\ fragOut' = f.msg /\ UNCHANGED edgeGot
  <2>1. f.kind \in OutKinds
    BY <1>9 DEF OutKinds, Parts
  <2>2. Fits(f, OutMessages, fragOut # 0) /\ Flow(upOut', OutKinds, DoneAfter(f), OpenAfter(f), sentOut, begunOut)
    BY <1>2, <2>1
  <2>3. f.msg = OutMessages + 1
    BY <1>9, <2>2 DEF Fits
  <2>4. DoneAfter(f) = OutMessages /\ OpenAfter(f)
    BY <1>2, <1>9, <2>3 DEF DoneAfter, OpenAfter
  <2>5. fragOut' = OutMessages + 1 /\ OpenAfter(f) = (fragOut' # 0)
    BY <1>2, <1>9, <2>3, <2>4 DEF OpenAfter
  <2>6. Flow(leftover' \o upOut', OutKinds, OutMessages, fragOut' # 0, sentOut, begunOut)
    BY <1>3, <2>2, <2>4, <2>5
  <2>7. AtEdge' = AtEdge
    BY <1>9, Unchanged
  <2>8. WsOut'
    BY <1>1, <2>5, <2>6, <2>7 DEF WsOut, OutMessages
  <2>9. OutOrder' /\ TcpOut'
    BY <1>1, <2>7 DEF OutInv, OutOrder, TcpOut
  <2>10. QED
    BY <2>8, <2>9 DEF OutInv
<1>10. QED
  BY <1>4, <1>5, <1>6, <1>7, <1>8, <1>9 DEF U2bFrame

\* What the upstream sent along with its head is its first message.
LEMMA UpstreamAcceptsOut == ASSUME Typed, OutInv, UpstreamAccepts PROVE OutInv'
<1>1. /\ UNCHANGED <<bridge, begunOut, fragOut, tls, early, upOut, u2b, edgeEnd, reason, edgeGot>>
      /\ pc = "upgrade" /\ pc' = "reply"
  BY DEF UpstreamAccepts, Goto, edgeVars, ourVars, pumpVars
<1>2. /\ leftover = <<>> /\ upOut = <<>> /\ sentOut = 0 /\ ~begunOut /\ bridge = "ws"
  BY <1>1 DEF Typed, OpeningInv, TypeOK
<1>3. AtEdge' = AtEdge
  BY <1>1, Unchanged
<1>4. CASE UNCHANGED <<leftover, sentOut>>
  BY <1>1, <1>3, <1>4, OutKept
<1>5. CASE leftover' = <<F("whole", 1)>> /\ sentOut' = 1
  <2>1. CASE u2b # "done"
    <3>1. OutMessages \in Nat /\ fragOut \in Nat
      <4>1. AtEdge \in Seq(Nat)
        BY OutSeq DEF Typed
      <4>2. QED
        BY <4>1 DEF OutMessages, Typed, TypeOK
    <3>2. Flow(<<>>, OutKinds, OutMessages, fragOut # 0, 0, begunOut)
      <4>1. leftover \o upOut = <<>>
        BY <1>2
      <4>2. Flow(leftover \o upOut, OutKinds, OutMessages, fragOut # 0, sentOut, begunOut)
        BY <1>1, <1>2, <2>1 DEF OutInv, WsOut
      <4>3. QED
        BY <1>2, <4>1, <4>2
    <3>3. OutMessages = 0 /\ ((fragOut # 0) <=> begunOut)
      <4> DEFINE open == fragOut # 0
      <4>1. Flow(<<>>, OutKinds, OutMessages, open, 0, begunOut) /\ 0 \in Nat
        BY <3>2
      <4> HIDE DEF open
      <4>2. OutMessages = 0 /\ (open <=> begunOut)
        BY <3>1, <4>1, FlowEmpty
      <4>3. QED
        BY <4>2 DEF open
    <3>4. fragOut = 0 /\ begunOut = FALSE
      BY <1>2, <3>3 DEF Typed, TypeOK
    <3> DEFINE f == F("whole", 1)
    <3>5. f \in Frames /\ f.kind = "whole" /\ f.msg = 1
      BY FrameFacts DEF Parts
    <3>6. f.kind \in OutKinds /\ Fits(f, 0, FALSE) /\ DoneAfter(f) = 1 /\ OpenAfter(f) = FALSE
      BY <3>5 DEF OutKinds, Parts, Fits, DoneAfter, OpenAfter
    <3>7. Flow(<<>>, OutKinds, 0, FALSE, 0, FALSE)
      BY FlowEmpty
    <3>8. leftover' \o upOut' = Append(<<>>, f)
      <4>1. leftover' = <<f>> /\ upOut' = <<>>
        BY <1>1, <1>2, <1>5
      <4>2. <<f>> \o <<>> = Append(<<>>, f)
        OBVIOUS
      <4>3. QED
        BY <4>1, <4>2
    <3> HIDE DEF f
    <3>9. Flow(Append(<<>>, f), OutKinds, 0, FALSE, DoneAfter(f), OpenAfter(f))
      <4>1. <<>> \in Seq(Frames)
        OBVIOUS
      <4>2. QED
        BY <3>5, <3>6, <3>7, <4>1, KindFacts, FlowAppend
    <3>10. Flow(leftover' \o upOut', OutKinds, OutMessages, fragOut # 0, sentOut', begunOut')
      <4>1. (fragOut # 0) = FALSE /\ begunOut' = FALSE
        BY <1>1, <3>4
      <4>2. QED
        BY <1>5, <3>3, <3>6, <3>8, <3>9, <4>1
    <3>11. WsOut'
      BY <1>1, <1>3, <3>4, <3>10 DEF WsOut, OutMessages
    <3>12. OutOrder' /\ TcpOut'
      BY <1>1, <1>2, <1>3 DEF OutInv, OutOrder, TcpOut
    <3>13. QED
      BY <3>11, <3>12 DEF OutInv
  <2>2. CASE u2b = "done"
    BY <1>1, <1>2, <1>3, <2>2, OutOver
  <2>3. QED
    BY <2>1, <2>2
<1>6. QED
  BY <1>4, <1>5 DEF UpstreamAccepts

\* What the pump of a tcp bridge has taken in from the upstream.
DoneOut == OutMessages + Len(early)

\* A tcp bridge that pumps has not given up the direction, unless the edge reset the stream.
LEMMA TcpOutGoes ==
    ASSUME Typed, ReasonInv, OutInv, TcpPump
    PROVE  /\ bridge = "tcp" /\ pc = "pump" /\ reason = "clean-eof"
           /\ upOut \in Seq(FramesOf({"whole"})) /\ upOut \in Seq(Frames) /\ early \in Seq(Nat)
           /\ OutMessages \in Nat /\ Len(early) \in Nat /\ DoneOut \in Nat /\ sentOut \in Nat
           /\ tls \in BOOLEAN
           /\ edgeEnd # "reset" =>
                 /\ tls => early = <<>>
                 /\ \A i \in DOMAIN early : early[i] = OutMessages + i
                 /\ Flow(upOut, OutKinds, DoneOut, FALSE, sentOut, FALSE)
<1>1. bridge = "tcp" /\ pc = "pump" /\ reason = "clean-eof"
  BY DEF TcpPump, ReasonInv
<1>2. /\ upOut \in Seq(UpFrames) /\ AtEdge \in Seq(Nat) /\ early \in Seq(Nat)
      /\ upOut \in Seq(FramesOf({"whole"}))
  BY <1>1, OutSeq DEF Typed, QueueTypes, OpeningInv
<1>3. sentOut \in Nat /\ tls \in BOOLEAN
  BY DEF Typed, TypeOK
<1>4. OutMessages \in Nat /\ Len(early) \in Nat
  BY <1>2 DEF OutMessages
<1>5. DoneOut \in Nat
  BY <1>4 DEF DoneOut
<1>6. upOut \in Seq(Frames)
  BY <1>2, FrameFacts, SeqMonotonic
<1>7. edgeEnd # "reset" =>
          /\ tls => early = <<>>
          /\ \A i \in DOMAIN early : early[i] = OutMessages + i
          /\ Flow(upOut, OutKinds, DoneOut, FALSE, sentOut, FALSE)
  BY <1>1 DEF OutInv, TcpOut, DoneOut
<1>8. QED
  BY <1>1, <1>2, <1>3, <1>4, <1>5, <1>6, <1>7

\* The handshake's answer goes out with the plaintext the engine held.
LEMMA FeedOut ==
    ASSUME Typed, ReasonInv, OutInv, TcpPump, UNCHANGED <<bridge, upOut, sentOut, edgeEnd>>, tls' = TRUE,
           early' = <<>>, Send(<<F("hello", 0)>> \o [i \in DOMAIN early |-> F("whole", early[i])])
    PROVE  OutInv'
<1>1. CASE edgeEnd = "reset"
  <2>1. bridge = "tcp" /\ edgeEnd' = "reset" /\ AtEdge' = AtEdge
    BY <1>1, Unchanged DEF Send, TcpPump
  <2>2. QED
    BY <2>1, OutOver
<1>2. CASE edgeEnd # "reset"
  <2> DEFINE r == <<F("hello", 0)>> \o [i \in DOMAIN early |-> F("whole", early[i])]
  <2>1. /\ bridge = "tcp" /\ early \in Seq(Nat) /\ OutMessages \in Nat /\ Len(early) \in Nat
        /\ \A i \in DOMAIN early : early[i] = OutMessages + i
        /\ Flow(upOut, OutKinds, DoneOut, FALSE, sentOut, FALSE)
    BY <1>2, TcpOutGoes
  <2>2. r \in Seq(Frames) /\ EdgeMessages(r) = early
    BY <2>1, EdgeHeld
  <2>3. edgeGot' = edgeGot \o r
    BY <1>2 DEF Send
  <2> HIDE DEF r
  <2>4. AtEdge' = AtEdge \o early /\ AtEdge \in Seq(Nat)
    BY <2>2, <2>3, OutSends, OutSeq DEF Typed
  <2>5. /\ Len(AtEdge \o early) = Len(AtEdge) + Len(early)
        /\ AtEdge \o early \in Seq(Nat)
        /\ \A i \in 1..Len(AtEdge) + Len(early) :
              (AtEdge \o early)[i] = IF i <= Len(AtEdge) THEN AtEdge[i] ELSE early[i - Len(AtEdge)]
    BY <2>1, <2>4, ConcatProperties
  <2>6. OutMessages' = DoneOut
    BY <2>4, <2>5 DEF OutMessages, DoneOut
  <2>7. OutOrder'
    <3>1. \A i \in 1..Len(AtEdge) + Len(early) : (AtEdge \o early)[i] = i
      <4> TAKE i \in 1..Len(AtEdge) + Len(early)
      <4>1. Len(AtEdge) \in Nat /\ Len(early) \in Nat /\ DOMAIN early = 1..Len(early)
            /\ DOMAIN AtEdge = 1..Len(AtEdge)
        BY <2>1, <2>4
      <4>2. CASE i <= Len(AtEdge)
        <5>1. i \in DOMAIN AtEdge
          BY <4>1, <4>2
        <5>2. AtEdge[i] = i
          BY <5>1 DEF OutInv, OutOrder
        <5>3. QED
          BY <2>5, <4>2, <5>2
      <4>3. CASE ~(i <= Len(AtEdge))
        <5>1. i - Len(AtEdge) \in DOMAIN early
          BY <4>1, <4>3
        <5>2. early[i - Len(AtEdge)] = OutMessages + (i - Len(AtEdge))
          BY <2>1, <5>1
        <5>3. OutMessages + (i - Len(AtEdge)) = i
          BY <4>1 DEF OutMessages
        <5>4. QED
          BY <2>5, <4>3, <5>2, <5>3
      <4>4. QED
        BY <4>2, <4>3
    <3>2. DOMAIN (AtEdge \o early) = 1..Len(AtEdge) + Len(early)
      BY <2>5
    <3>3. QED
      BY <2>4, <3>1, <3>2 DEF OutOrder
  <2>8. TcpOut'
    <3>1. Flow(upOut', OutKinds, OutMessages', FALSE, sentOut', FALSE)
      BY <2>1, <2>6
    <3>2. early' = <<>> /\ Len(early') = 0 /\ OutMessages' + Len(early') = OutMessages' /\ DOMAIN early' = {}
      <4>1. Len(<<>>) = 0 /\ DOMAIN <<>> = {}
        OBVIOUS
      <4>2. OutMessages' + 0 = OutMessages'
        BY <2>1, <2>6 DEF DoneOut
      <4>3. QED
        BY <4>1, <4>2
    <3>3. QED
      BY <3>1, <3>2 DEF TcpOut
  <2>9. WsOut'
    BY <2>1 DEF WsOut
  <2>10. QED
    BY <2>7, <2>8, <2>9 DEF OutInv
<1>3. QED
  BY <1>1, <1>2

\* Plaintext of the upstream.
LEMMA TcpReadOut == ASSUME Typed, ReasonInv, OutInv, TcpRead PROVE OutInv'
<1> DEFINE m == Head(upOut).msg
<1>1. /\ TcpPump /\ bridge = "tcp" /\ upOut # <<>> /\ upOut' = Tail(upOut)
      /\ UNCHANGED <<bridge, sentOut, edgeEnd>>
  BY DEF TcpRead, TcpStep, TcpPump
<1>2. CASE edgeEnd = "reset"
  <2>1. UNCHANGED edgeGot
    BY <1>2 DEF TcpRead, Send
  <2>2. QED
    BY <1>1, <1>2, <2>1, Unchanged, OutOver
<1>3. CASE reason' # "clean-eof" /\ UNCHANGED edgeGot
  BY <1>1, <1>3, Unchanged, OutOver
<1>4. CASE edgeEnd # "reset" /\ ~(reason' # "clean-eof" /\ UNCHANGED edgeGot)
  <2>1. /\ upOut \in Seq(FramesOf({"whole"})) /\ upOut \in Seq(Frames) /\ early \in Seq(Nat)
        /\ OutMessages \in Nat /\ Len(early) \in Nat /\ DoneOut \in Nat /\ sentOut \in Nat
        /\ tls \in BOOLEAN
        /\ tls => early = <<>>
        /\ \A i \in DOMAIN early : early[i] = OutMessages + i
        /\ Flow(upOut, OutKinds, DoneOut, FALSE, sentOut, FALSE)
    BY <1>1, <1>4, TcpOutGoes
  <2>2. m = DoneOut + 1 /\ m \in Nat /\ Flow(upOut', OutKinds, m, FALSE, sentOut, FALSE)
    <3> DEFINE f == Head(upOut)
    <3>1. f \in FramesOf({"whole"})
      BY <1>1, <2>1
    <3>2. f.kind = "whole" /\ f.msg \in Nat
      BY <3>1 DEF FramesOf
    <3>3. f.kind \in OutKinds
      BY <3>2 DEF OutKinds, Parts
    <3>4. Fits(f, DoneOut, FALSE) /\ Flow(upOut', OutKinds, DoneAfter(f), OpenAfter(f), sentOut, FALSE)
      BY <1>1, <2>1, <3>3, KindFacts, FlowTake
    <3>5. f.msg = DoneOut + 1
      BY <3>2, <3>4 DEF Fits
    <3>6. DoneAfter(f) = f.msg /\ OpenAfter(f) = FALSE
      BY <3>2 DEF DoneAfter, OpenAfter
    <3>7. QED
      BY <3>2, <3>4, <3>5, <3>6
  <2> HIDE DEF m
  <2>3. CASE tls /\ UNCHANGED <<tls, early>> /\ Send(<<F("whole", m)>>)
    <3>1. early = <<>> /\ early' = <<>> /\ Len(early) = 0 /\ Len(early') = 0 /\ DOMAIN early' = {}
      <4>1. Len(<<>>) = 0 /\ DOMAIN <<>> = {}
        OBVIOUS
      <4>2. early = <<>> /\ early' = <<>>
        BY <2>1, <2>3
      <4>3. QED
        BY <4>1, <4>2
    <3>2. m = OutMessages + 1 /\ edgeGot' = edgeGot \o <<F("whole", m)>>
      <4>1. m = OutMessages + 1
        BY <2>1, <2>2, <3>1 DEF DoneOut
      <4>2. QED
        BY <1>4, <2>3, <4>1 DEF Send
    <3>3. OutOrder' /\ OutMessages' = OutMessages + 1
      BY <2>2, <3>2, OutMore DEF Typed, OutInv
    <3>4. OutMessages' + Len(early') = m
      BY <2>1, <3>1, <3>2, <3>3
    <3>5. Flow(upOut', OutKinds, OutMessages' + Len(early'), FALSE, sentOut', FALSE)
      BY <1>1, <2>2, <3>4
    <3>6. TcpOut'
      BY <3>1, <3>5 DEF TcpOut
    <3>7. WsOut'
      BY <1>1 DEF WsOut
    <3>8. QED
      BY <3>3, <3>6, <3>7 DEF OutInv
  <2>4. CASE ~tls /\ UNCHANGED <<tls, edgeGot>> /\ early' = Append(early, m)
    <3>1. AtEdge' = AtEdge /\ OutMessages' = OutMessages
      BY <2>4, Unchanged DEF OutMessages
    <3>2. Len(early') = Len(early) + 1 /\ DOMAIN early' = 1..Len(early) + 1
          /\ \A i \in 1..Len(early) : early'[i] = early[i] /\ early'[Len(early) + 1] = m
      BY <2>1, <2>2, <2>4
    <3>3. OutMessages' + Len(early') = m
      BY <2>1, <2>2, <3>1, <3>2 DEF DoneOut
    <3>4. Flow(upOut', OutKinds, OutMessages' + Len(early'), FALSE, sentOut', FALSE)
      BY <1>1, <2>2, <3>3
    <3>5. \A i \in DOMAIN early' : early'[i] = OutMessages' + i
      <4>1. m = OutMessages + (Len(early) + 1)
        BY <2>1, <2>2 DEF DoneOut
      <4>2. early'[Len(early) + 1] = m
        <5>1. early \in Seq(Nat) /\ m \in Nat
          BY <2>1, <2>2
        <5>2. QED
          BY <2>4, <5>1
      <4>3. DOMAIN early = 1..Len(early)
        BY <2>1
      <4>4. \A i \in 1..Len(early) : early'[i] = OutMessages + i
        BY <2>1, <3>2, <4>3
      <4>5. \A i \in 1..Len(early) + 1 : early'[i] = OutMessages + i
        <5> TAKE i \in 1..Len(early) + 1
        <5>1. i \in 1..Len(early) \/ i = Len(early) + 1
          BY <2>1
        <5>2. QED
          BY <4>1, <4>2, <4>4, <5>1
      <4>6. QED
        BY <3>1, <3>2, <4>5
    <3>6. TcpOut'
      BY <2>4, <3>4, <3>5 DEF TcpOut
    <3>7. OutOrder' /\ WsOut'
      BY <1>1, <3>1 DEF WsOut, OutInv, OutOrder
    <3>8. QED
      BY <3>6, <3>7 DEF OutInv
  <2>5. QED
    BY <1>4, <2>3, <2>4 DEF TcpRead, Stop, m
<1>5. QED
  BY <1>2, <1>3, <1>4

\* Whatever happens, each message of the upstream is passed on once and in order.
LEMMA OutNext == Typed /\ ReasonInv /\ OutInv /\ Next => OutInv'
<1> SUFFICES ASSUME Typed, ReasonInv, OutInv, Next PROVE OutInv'
  OBVIOUS
<1>1. ASSUME Finish PROVE OutInv'
  <2>1. pc' = "done" /\ UNCHANGED <<bridge, edgeGot>>
    BY <1>1 DEF Finish, Goto
  <2>2. QED
    BY <2>1, Unchanged, OutOver
<1>2. CASE Opening \/ Abort
  <2>1. CASE SendFails \/ NotAccepted \/ Abort
    BY <1>1, <2>1 DEF SendFails, NotAccepted, Abort
  <2>2. CASE DialFails
    <3>1. UNCHANGED <<bridge, u2b, leftover, upOut, sentOut, begunOut, fragOut, tls, early, edgeGot, edgeEnd>>
          /\ pc # "done" /\ reason' # "clean-eof"
      BY <2>2 DEF DialFails, Goto, edgeVars, upVars, sockVars, ourVars
    <3>2. QED
      BY <3>1, Unchanged, OutKept
  <2>3. ASSUME NEW answer, UpstreamRefuses(answer) PROVE OutInv'
    <3>1. pc' = "done" /\ UNCHANGED <<bridge, edgeGot>>
      BY <2>3 DEF UpstreamRefuses, Goto, ourVars
    <3>2. QED
      BY <3>1, Unchanged, OutOver
  <2>4. CASE RejectEnvelope \/ PostAccept \/ Connect \/ DialUpstream
    <3>1. UNCHANGED <<bridge, u2b, leftover, upOut, sentOut, begunOut, fragOut, tls, early, edgeGot, edgeEnd, reason>>
          /\ pc # "done"
      BY <2>4 DEF RejectEnvelope, PostAccept, Connect, DialUpstream,
         Goto, edgeVars, upVars, pumpVars, sockVars, ourVars
    <3>2. QED
      BY <3>1, Unchanged, OutKept
  <2>5. CASE UpstreamAccepts
    BY <2>5, UpstreamAcceptsOut
  <2>6. CASE Accepted
    <3>1. /\ UNCHANGED <<bridge, u2b, sentOut, begunOut, fragOut, tls, early, edgeGot, edgeEnd, reason>>
          /\ pc # "done" /\ upOut' = leftover \o upOut /\ leftover' = <<>>
      BY <2>6 DEF Accepted, Goto, edgeVars, upVars, pumpVars, ourVars
    <3>2. leftover \in Seq(UpFrames) /\ upOut \in Seq(UpFrames) /\ (bridge = "tcp" => leftover = <<>>)
      BY DEF Typed, QueueTypes, OpeningInv
    <3>3. leftover' \o upOut' = leftover \o upOut
      <4> DEFINE q == leftover \o upOut
      <4>1. q \in Seq(UpFrames)
        BY <3>2
      <4> HIDE DEF q
      <4>2. <<>> \o q = q
        BY <4>1
      <4>3. QED
        BY <3>1, <4>2 DEF q
    <3>4. bridge = "tcp" => upOut' = upOut
      BY <3>1, <3>2
    <3>5. QED
      BY <3>1, <3>3, <3>4, Unchanged, OutKept
  <2>7. QED
    BY <1>2, <2>1, <2>2, <2>3, <2>4, <2>5, <2>6 DEF Opening
<1>3. CASE WsPumping
  <2>1. CASE U2bFrame
    BY <2>1, U2bFrameOut
  <2>2. CASE U2bPong \/ U2bEnds
    <3>1. UNCHANGED <<bridge, pc, leftover, upOut, sentOut, begunOut, fragOut, tls, early, edgeGot, edgeEnd, reason>>
          /\ u2b # "done"
      BY <2>2 DEF U2bPong, U2bEnds, U2bStep, edgeVars
    <3>2. QED
      BY <3>1, Unchanged, OutKept
  <2>3. CASE \/ \E n \in 1..MaxIn + MaxControl : B2uRecv(n)
             \/ B2uEnds \/ Drain \/ DrainClose \/ DrainOver
    <3>1. B2uStep /\ UNCHANGED edgeGot
      BY <2>3 DEF B2uRecv, B2uEnds, Drain, DrainClose, DrainOver, DrainTo
    <3>2. UNCHANGED <<bridge, pc, u2b, leftover, upOut, sentOut, begunOut, fragOut, tls, early, edgeGot, edgeEnd, reason>>
      BY <3>1 DEF B2uStep, sockVars
    <3>3. QED
      BY <3>2, Unchanged, OutKept
  <2>4. QED
    BY <1>3, <2>1, <2>2, <2>3 DEF WsPumping
<1>4. CASE TcpPumping
  <2>0. /\ TcpPump /\ reason = "clean-eof" /\ bridge = "tcp" /\ pc = "pump"
        /\ UNCHANGED <<bridge, edgeEnd, sentOut, begunOut, leftover, u2b, fragOut>>
    BY <1>4 DEF TcpPumping, TcpFrame, TcpFeedFails, TcpWrite, TcpEdgeEnds, TcpRead, TcpUpstreamEnds,
       TcpPump, ReasonInv, TcpStep
  <2>1. CASE TcpRead
    BY <2>1, TcpReadOut
  <2>2. CASE UNCHANGED <<upOut, edgeGot, tls, early>>
    BY <2>0, <2>2, Unchanged, OutKept
  <2>3. CASE /\ UNCHANGED upOut /\ tls' = TRUE /\ early' = <<>>
             /\ Send(<<F("hello", 0)>> \o [i \in DOMAIN early |-> F("whole", early[i])])
    BY <2>0, <2>3, FeedOut
  <2>4. CASE TcpFrame
    BY <2>2, <2>3, <2>4 DEF TcpFrame, Feed, Stop
  <2>5. CASE TcpFeedFails \/ TcpWrite \/ TcpEdgeEnds \/ TcpUpstreamEnds
    BY <2>2, <2>5 DEF TcpFeedFails, TcpWrite, TcpEdgeEnds, TcpUpstreamEnds, Stop
  <2>6. QED
    BY <1>4, <2>1, <2>4, <2>5 DEF TcpPumping
<1>5. CASE Closing
  <2>1. CASE Leave
    BY <1>1, <2>1 DEF Leave
  <2>2. CASE WsEnds \/ TcpShut \/ TcpNotify \/ TcpClose \/ TcpLinger
    <3>1. UNCHANGED <<bridge, u2b, leftover, upOut, sentOut, begunOut, fragOut, tls, early, edgeEnd, reason>>
          /\ pc # "done"
      BY <2>2 DEF WsEnds, WsPump, TcpShut, TcpNotify, TcpClose, TcpLinger, Goto, edgeVars, upVars,
         pumpVars, sockVars
    <3>2. AtEdge' = AtEdge
      <4>1. CASE UNCHANGED edgeGot
        BY <4>1, Unchanged
      <4>2. CASE Send(<<F("notify", 0)>>)
        <5>1. F("notify", 0) \in Frames /\ F("notify", 0).kind # "whole"
          BY FrameFacts
        <5>2. QED
          BY <4>2, <5>1, OtherOut DEF Typed
      <4>3. CASE Send(<<F("close", CloseCode(reason))>>)
        <5>1. CloseCode(reason) \in Nat
          BY DEF CloseCode
        <5>2. F("close", CloseCode(reason)) \in Frames /\ F("close", CloseCode(reason)).kind # "whole"
          BY <5>1, FrameFacts DEF Control
        <5>3. QED
          BY <4>3, <5>2, OtherOut DEF Typed
      <4>4. QED
        BY <2>2, <4>1, <4>2, <4>3 DEF WsEnds, TcpShut, TcpNotify, TcpClose, TcpLinger, ourVars
    <3>3. QED
      BY <3>1, <3>2, OutKept
  <2>3. QED
    BY <1>5, <2>1, <2>2 DEF Closing
<1>6. CASE UpstreamSends
  BY <1>6, UpstreamSendsOut
<1>7. CASE EdgeSends \/ EdgeEnds \/ UpstreamReads \/ UpstreamEnds
  <2>1. UNCHANGED <<bridge, pc, u2b, leftover, upOut, sentOut, begunOut, fragOut, tls, early, edgeGot, reason>>
        /\ (edgeEnd' # "reset" => edgeEnd # "reset")
    BY <1>7 DEF EdgeSends, EdgeEnds, UpstreamReads, UpstreamEnds, Outside, upVars, edgeVars, pumpVars
  <2>2. QED
    BY <2>1, Unchanged, OutKept
<1>8. CASE UNCHANGED vars
  <2>1. UNCHANGED <<bridge, pc, u2b, leftover, upOut, sentOut, begunOut, fragOut, tls, early, edgeGot, edgeEnd, reason>>
    BY <1>8 DEF vars, edgeVars, upVars, pumpVars, ourVars, sockVars
  <2>2. QED
    BY <2>1, Unchanged, OutKept
<1>9. QED
  BY <1>2, <1>3, <1>4, <1>5, <1>6, <1>7, <1>8 DEF Next, Task

-----------------------------------------------------------------------------
(* The bridge.                                                             *)

\* A tcp bridge that reached its upstream leaves once the edge has ended or the wait is over.
LEMMA LingerKept == Typed /\ LingerInv /\ Next => LingerInv'
<1> SUFFICES ASSUME Typed, LingerInv, Next PROVE LingerInv'
  OBVIOUS
<1>1. ASSUME pc' # "leave" PROVE LingerInv'
  BY <1>1 DEF LingerInv
<1>2. CASE Opening \/ Abort
  <2>1. pc' # "leave"
    BY <1>2 DEF Opening, Abort, Finish, RejectEnvelope, UpstreamAccepts, PostAccept, SendFails,
       Connect, UpstreamRefuses, Accepted, NotAccepted, DialUpstream, DialFails, Goto
  <2>2. QED
    BY <1>1, <2>1
<1>3. CASE WsPumping
  <2>1. WsPump /\ UNCHANGED pc
    BY <1>3 DEF WsPumping, B2uRecv, B2uEnds, Drain, DrainClose, DrainOver, DrainTo, B2uStep,
       U2bFrame, U2bPong, U2bEnds, U2bStep
  <2>2. QED
    BY <1>1, <2>1 DEF WsPump
<1>4. CASE TcpPumping
  <2>1. pc' # "leave"
    BY <1>4 DEF TcpPumping, TcpFrame, TcpFeedFails, TcpWrite, TcpEdgeEnds, TcpRead,
       TcpUpstreamEnds, Stop, Stay, TcpPump
  <2>2. QED
    BY <1>1, <2>1
<1>5. CASE Closing
  <2>1. CASE Leave \/ TcpShut \/ TcpNotify
    BY <1>1, <2>1 DEF Leave, Finish, TcpShut, TcpNotify, Goto
  <2>2. CASE WsEnds
    BY <2>2 DEF WsEnds, WsPump, Goto, LingerInv
  <2>3. CASE TcpClose
    BY <2>3 DEF TcpClose, Goto, sockVars, LingerInv
  <2>4. CASE TcpLinger
    BY <2>4 DEF TcpLinger, Goto, edgeVars, LingerInv
  <2>5. QED
    BY <1>5, <2>1, <2>2, <2>3, <2>4 DEF Closing
<1>6. CASE EdgeSends \/ EdgeEnds \/ UpstreamSends \/ UpstreamReads \/ UpstreamEnds
  <2>1. UNCHANGED <<bridge, pc, socket, lapsed>> /\ (edgeEnd' = "open" => edgeEnd = "open")
    BY <1>6 DEF EdgeSends, EdgeEnds, UpstreamSends, UpstreamReads, UpstreamEnds, Outside, pumpVars, edgeVars
  <2>2. QED
    BY <2>1 DEF LingerInv
<1>7. CASE UNCHANGED vars
  BY <1>7 DEF vars, pumpVars, edgeVars, sockVars, LingerInv
<1>8. QED
  BY <1>2, <1>3, <1>4, <1>5, <1>6, <1>7 DEF Next, Task

\* Nothing is on its way at the start.
LEMMA BridgeStarts == Init => BridgeInv
<1> SUFFICES ASSUME Init PROVE BridgeInv
  OBVIOUS
<1>1. Typed
  BY StartTypes DEF Typed
<1>2. ReasonInv /\ LingerInv
  BY DEF Init, ReasonInv, LingerInv
<1>3. AtUpstream = <<>> /\ AtEdge = <<>> /\ InMessages = 0 /\ OutMessages = 0
  <2>1. upGot \o upIn = <<>> /\ edgeGot = <<>>
    BY DEF Init
  <2>2. \A S : Those(<<>>, S) = <<>>
    BY ThoseEmpty
  <2>3. AtUpstream = <<>>
    BY <2>1, <2>2 DEF AtUpstream
  <2>4. AtEdge = <<>>
    BY <2>1, <2>2 DEF AtEdge
  <2>5. QED
    BY <2>3, <2>4 DEF InMessages, OutMessages
<1>4. DOMAIN <<>> = {} /\ <<>> \o <<>> = <<>> /\ Len(<<>>) = 0
  OBVIOUS
<1>5. \A K : Flow(<<>>, K, 0, FALSE, 0, FALSE)
  BY FlowEmpty
<1>6. InOrder /\ OutOrder
  BY <1>3, <1>4 DEF InOrder, OutOrder
<1>7. /\ wire = <<>> /\ envBuf = <<>> /\ leftover = <<>> /\ upOut = <<>> /\ early = <<>>
      /\ sentIn = 0 /\ sentOut = 0 /\ begunIn = FALSE /\ begunOut = FALSE
      /\ fragIn = 0 /\ fragOut = 0 /\ tls = FALSE /\ b2u = "recv"
  BY DEF Init
<1>8. WsIn
  <2>1. envBuf \in Seq(InFrames) /\ EnvelopeFrames = 0 /\ envBuf \o wire = <<>>
    BY <1>4, <1>7 DEF EnvelopeFrames
  <2>2. Flow(envBuf \o wire, InKinds, InMessages, FALSE, sentIn, begunIn)
    BY <1>3, <1>5, <1>7, <2>1
  <2>3. QED
    BY <2>1, <2>2 DEF WsIn
<1>9. TcpIn
  <2>1. (fragIn # 0) = FALSE /\ (IF tls THEN InMessages + 1 ELSE 0) = 0
    BY <1>7
  <2>2. Flow(wire, InKinds, IF tls THEN InMessages + 1 ELSE 0, fragIn # 0, sentIn, begunIn)
    BY <1>5, <1>7, <2>1
  <2>3. QED
    BY <1>3, <1>7, <2>2 DEF TcpIn
<1>10. WsOut
  <2>1. (fragOut # 0) = FALSE /\ leftover \o upOut = <<>>
    BY <1>4, <1>7
  <2>2. Flow(leftover \o upOut, OutKinds, OutMessages, fragOut # 0, sentOut, begunOut)
    BY <1>3, <1>5, <1>7, <2>1
  <2>3. QED
    BY <1>7, <2>2 DEF WsOut
<1>11. TcpOut
  <2>1. OutMessages + Len(early) = 0
    BY <1>3, <1>4, <1>7
  <2>2. Flow(upOut, OutKinds, OutMessages + Len(early), FALSE, sentOut, FALSE)
    <3> DEFINE d == OutMessages + Len(early)
    <3>1. d = 0
      BY <2>1
    <3> HIDE DEF d
    <3>2. Flow(upOut, OutKinds, d, FALSE, sentOut, FALSE)
      BY <1>5, <1>7, <3>1
    <3>3. QED
      BY <3>2 DEF d
  <2>3. QED
    BY <1>4, <1>7, <2>2 DEF TcpOut
<1>12. QED
  BY <1>1, <1>2, <1>6, <1>8, <1>9, <1>10, <1>11 DEF BridgeInv, InInv, OutInv

\* Every step of the bridge, of the edge and of the upstream keeps the invariant.
LEMMA BridgeKept == BridgeInv /\ Next => BridgeInv'
<1> SUFFICES ASSUME BridgeInv, Next PROVE BridgeInv'
  OBVIOUS
<1>1. Typed /\ ReasonInv /\ InInv /\ OutInv /\ LingerInv
  BY DEF BridgeInv
<1>2. Typed'
  BY <1>1, TypesKept DEF Typed, InInv
<1>3. ReasonInv' /\ InInv' /\ OutInv' /\ LingerInv'
  BY <1>1, ReasonKept, InNext, OutNext, LingerKept
<1>4. QED
  BY <1>2, <1>3 DEF BridgeInv

\* Both directions in order: StreamsInOrder.
LEMMA OrderHolds == BridgeInv => StreamsInOrder
BY DEF BridgeInv, InInv, OutInv, InOrder, OutOrder, StreamsInOrder

\* The frames on their way tell how many messages have been taken in.
LEMMA TakenHolds == BridgeInv => NothingHeldBack /\ CleanIsComplete
<1> SUFFICES ASSUME BridgeInv PROVE NothingHeldBack /\ CleanIsComplete
  OBVIOUS
<1>1. /\ AtUpstream \in Seq(Nat) /\ AtEdge \in Seq(Nat) /\ wire \in Seq(EdgeFrames)
      /\ leftover \in Seq(UpFrames) /\ upOut \in Seq(UpFrames) /\ early \in Seq(Nat)
  BY InSeq, OutSeq DEF BridgeInv, Typed, QueueTypes
<1>2. /\ Len(AtUpstream) \in Nat /\ Len(AtEdge) \in Nat /\ Len(early) \in Nat
      /\ sentIn \in Nat /\ sentOut \in Nat /\ bridge \in {"ws", "tcp"} /\ tls \in BOOLEAN
  BY <1>1 DEF BridgeInv, Typed, TypeOK
<1>3. Those(wire, Lasts) \in Seq(EdgeFrames) /\ Len(Those(wire, Lasts)) \in Nat
  <2>1. Those(wire, Lasts) \in Seq(EdgeFrames)
    BY <1>1, ThoseIn
  <2>2. QED
    BY <2>1
<1>4. ASSUME pc \notin {"upgrade", "reply", "connect", "await"} PROVE leftover = <<>> /\ leftover \o upOut = upOut
  <2>1. leftover = <<>>
    BY <1>4 DEF BridgeInv, Typed, OpeningInv
  <2>2. QED
    BY <1>1, <2>1
<1>5. Len(Those(leftover \o upOut, Lasts)) \in Nat
  <2> DEFINE q == leftover \o upOut
  <2>1. q \in Seq(UpFrames)
    BY <1>1
  <2> HIDE DEF q
  <2>2. Those(q, Lasts) \in Seq(UpFrames)
    BY <2>1, ThoseIn
  <2>3. Len(Those(q, Lasts)) \in Nat
    BY <2>2
  <2>4. QED
    BY <2>3 DEF q
<1>6. ASSUME bridge = "tcp", pc # "done", reason = "clean-eof", tls, b2u # "write"
      PROVE  Len(AtUpstream) = TakenIn - 1
  <2>1. Flow(wire, InKinds, InMessages + 1, fragIn # 0, sentIn, begunIn)
    BY <1>6 DEF BridgeInv, InInv, TcpIn
  <2>2. Len(Those(wire, Lasts)) = sentIn - (InMessages + 1)
    BY <2>1 DEF Flow
  <2>3. QED
    BY <1>2, <1>3, <2>2 DEF InMessages, TakenIn
<1>7. ASSUME bridge = "tcp", pc # "done", reason = "clean-eof", edgeEnd # "reset",
             pc \notin {"upgrade", "reply", "connect", "await"}
      PROVE  Len(AtEdge) + Len(early) = TakenOut /\ (tls => Len(early) = 0)
  <2>1. Flow(upOut, OutKinds, OutMessages + Len(early), FALSE, sentOut, FALSE) /\ (tls => early = <<>>)
    BY <1>7 DEF BridgeInv, OutInv, TcpOut
  <2>2. Len(Those(upOut, Lasts)) = sentOut - (OutMessages + Len(early))
    BY <2>1 DEF Flow
  <2>3. Len(Those(leftover \o upOut, Lasts)) = sentOut - (OutMessages + Len(early))
    BY <1>4, <1>7, <2>2
  <2>4. tls => Len(early) = 0
    BY <2>1
  <2>5. Len(AtEdge) + Len(early) = TakenOut
    BY <1>2, <1>5, <2>3 DEF OutMessages, TakenOut
  <2>6. QED
    BY <2>4, <2>5
<1>8. NothingHeldBack
  <2> SUFFICES ASSUME pc = "pump", b2u = "recv", u2b = "read"
               PROVE  /\ (bridge = "ws" \/ tls) => Len(AtUpstream) = TakenIn - FirstIn + 1
                      /\ edgeEnd = "open" => Len(AtEdge) + Len(early) = TakenOut
    BY DEF NothingHeldBack
  <2>1. reason = "clean-eof"
    BY DEF BridgeInv, ReasonInv
  <2>2. CASE bridge = "tcp"
    <3>1. FirstIn = 2
      BY <2>2 DEF FirstIn
    <3>2. tls => Len(AtUpstream) = TakenIn - 1
      BY <1>6, <2>1, <2>2
    <3>3. TakenIn \in Int
      BY <1>2, <1>3 DEF TakenIn
    <3>4. edgeEnd = "open" => Len(AtEdge) + Len(early) = TakenOut
      BY <1>7, <2>1, <2>2
    <3>5. TakenIn - FirstIn + 1 = TakenIn - 1
      BY <3>1, <3>3
    <3>6. QED
      BY <2>2, <3>2, <3>4, <3>5
  <2>3. CASE bridge = "ws"
    <3>1. /\ envBuf \in Seq(InFrames) /\ EnvelopeFrames = 0
          /\ Flow(envBuf \o wire, InKinds, InMessages, FALSE, sentIn, begunIn)
      BY <2>3 DEF BridgeInv, InInv, WsIn
    <3>2. Those(envBuf, Lasts) = <<>>
      <4>1. CASE envBuf = <<>>
        BY <4>1, ThoseEmpty
      <4>2. CASE envBuf # <<>>
        <5> DEFINE h == Head(envBuf)
        <5>1. h.kind = "head" /\ ~(Len(envBuf) > 1)
          BY <3>1, <4>2 DEF EnvelopeFrames
        <5>2. h \in InFrames /\ envBuf = <<h>>
          <6>1. Len(envBuf) \in Nat /\ Len(envBuf) # 0
            BY <3>1, <4>2
          <6>2. Len(envBuf) = 1
            BY <5>1, <6>1
          <6>3. QED
            BY <3>1, <4>2, <6>2
        <5>3. h \notin Lasts
          BY <5>1 DEF Lasts, FramesOf
        <5> HIDE DEF h
        <5>4. Those(<<h>>, Lasts) = <<>>
          BY <5>2, <5>3, ThoseOne
        <5>5. QED
          BY <5>2, <5>4
      <4>3. QED
        BY <4>1, <4>2
    <3>3. Those(envBuf \o wire, Lasts) = Those(wire, Lasts)
      <4>1. envBuf \in Seq(EdgeFrames)
        BY <3>1, FrameFacts, SeqMonotonic
      <4>2. Those(envBuf \o wire, Lasts) = Those(envBuf, Lasts) \o Those(wire, Lasts)
        BY <1>1, <4>1, ThoseConcat
      <4> DEFINE w == Those(wire, Lasts)
      <4>3. w \in Seq(EdgeFrames)
        BY <1>3
      <4> HIDE DEF w
      <4>4. <<>> \o w = w
        BY <4>3
      <4>5. QED
        BY <3>2, <4>2, <4>4 DEF w
    <3>4. Len(Those(wire, Lasts)) = sentIn - InMessages
      BY <3>1, <3>3 DEF Flow
    <3>5. FirstIn = 1
      BY <2>3 DEF FirstIn
    <3>6. Len(AtUpstream) = TakenIn - FirstIn + 1
      BY <1>2, <1>3, <3>4, <3>5 DEF InMessages, TakenIn
    <3>7. Flow(leftover \o upOut, OutKinds, OutMessages, fragOut # 0, sentOut, begunOut) /\ early = <<>>
      BY <2>3 DEF BridgeInv, OutInv, WsOut, Typed, OpeningInv
    <3>8. Len(Those(leftover \o upOut, Lasts)) = sentOut - OutMessages
      BY <3>7 DEF Flow
    <3>9. Len(early) = 0
      BY <3>7
    <3>10. Len(AtEdge) + Len(early) = TakenOut
      BY <1>2, <1>5, <3>8, <3>9 DEF OutMessages, TakenOut
    <3>11. QED
      BY <3>6, <3>10
  <2>4. QED
    BY <1>2, <2>2, <2>3
<1>9. CleanIsComplete
  <2> SUFFICES ASSUME bridge = "tcp", pc = "close", reason = "clean-eof", tls
               PROVE  /\ Len(AtUpstream) = TakenIn - 1
                      /\ edgeEnd # "reset" => Len(AtEdge) = TakenOut
    BY DEF CleanIsComplete
  <2>1. b2u # "write"
    BY DEF BridgeInv, ReasonInv
  <2>2. edgeEnd # "reset" => Len(AtEdge) + Len(early) = TakenOut /\ Len(early) = 0
    BY <1>7
  <2>3. Len(AtEdge) + 0 = Len(AtEdge)
    BY <1>2
  <2>4. QED
    BY <1>6, <2>1, <2>2, <2>3
<1>10. QED
  BY <1>8, <1>9

\* Only a task that returns resets the stream, and it has waited for the edge.
LEMMA ResetWaits ==
    ASSUME BridgeInv, Next, bridge = "tcp", pc = "leave", socket # "none", rst', ~rst PROVE lapsed
<1>1. Finish
  <2>1. CASE Opening \/ Abort
    BY <2>1 DEF Opening, Abort, RejectEnvelope, UpstreamAccepts, PostAccept, SendFails,
       Connect, UpstreamRefuses, Accepted, NotAccepted, DialUpstream, DialFails
  <2>2. CASE WsPumping
    BY <2>2 DEF WsPumping, B2uRecv, B2uEnds, Drain, DrainClose, DrainOver, U2bFrame, U2bPong, U2bEnds, WsPump
  <2>3. CASE TcpPumping
    BY <2>3 DEF TcpPumping, TcpFrame, TcpFeedFails, TcpWrite, TcpEdgeEnds, TcpRead,
       TcpUpstreamEnds, TcpPump
  <2>4. CASE Closing
    BY <2>4 DEF Closing, WsEnds, WsPump, Leave, TcpShut, TcpNotify, TcpClose, TcpLinger
  <2>5. CASE EdgeSends \/ EdgeEnds \/ UpstreamSends \/ UpstreamReads \/ UpstreamEnds
    BY <2>5 DEF EdgeSends, EdgeEnds, UpstreamSends, UpstreamReads, UpstreamEnds, Outside
  <2>6. CASE UNCHANGED vars
    BY <2>6 DEF vars, ourVars
  <2>7. QED
    BY <2>1, <2>2, <2>3, <2>4, <2>5, <2>6 DEF Next, Task
<1>2. edgeEnd = "open"
  BY <1>1 DEF Finish
<1>3. QED
  BY <1>2 DEF BridgeInv, LingerInv

-----------------------------------------------------------------------------
(* A forwarded request.                                                    *)

\* The body is the request's once it is asked with, and the same at each redirect.
BodyInv ==
    /\ request \in [path : {"valid", "refused"}, method : {"known", "unknown"},
                    size : 0..InCap + 1, stored : BOOLEAN]
    /\ asked \in Seq(0..InCap + 1)
    /\ at = "guard" => body = IF request.stored THEN 0 ELSE request.size
    /\ at \in {"guard", "fetch", "ask"} => asked = <<>>
    /\ at \in {"fetch", "ask"} => request.path = "valid"
    /\ at = "ask" => request.size <= InCap /\ body = request.size
    /\ at = "await" => asked # <<>>
    /\ AskedWhole

\* What was read is all there was until a reply says otherwise.
AnswerInv ==
    /\ produced \in Nat /\ whole \in BOOLEAN
    /\ at \in {"guard", "fetch", "ask", "await"} => buf = 0 /\ produced = 0
    /\ at = "body" => buf = produced /\ status \in Statuses
    /\ at \notin {"post", "over"} => out = NoReply /\ posted = NoReply
    /\ out.status # 0 /\ out.reason = "none" =>
          whole /\ out.size = produced /\ out.size <= OutCap /\ out.status = status

ForwardInv == ForwardTypeOK /\ BodyInv /\ AnswerInv

\* A request that came in, with its body or with a reference to it.
LEMMA ForwardStarts == ForwardInit => ForwardInv
<1> SUFFICES ASSUME ForwardInit PROVE ForwardInv
  OBVIOUS
<1>1. NoReply.status = 0 /\ InCap \in Nat /\ OutCap \in Nat
  BY ForwardAssumption DEF NoReply
<1>2. ForwardTypeOK
  BY <1>1 DEF ForwardInit, ForwardTypeOK
<1>3. BodyInv
  BY DEF ForwardInit, BodyInv, AskedWhole
<1>4. AnswerInv
  BY <1>1 DEF ForwardInit, AnswerInv
<1>5. QED
  BY <1>2, <1>3, <1>4 DEF ForwardInv

\* A reply of our own says why.
LEMMA ReplyFacts ==
    ASSUME NEW s, NEW n, NEW why, Reply(s, n, why)
    PROVE  /\ at' = "post" /\ UNCHANGED posted
           /\ out'.status = s /\ out'.size = n /\ out'.reason = why
BY DEF Reply

\* Every step of a forwarded request keeps the types: the buffer never exceeds OutCap.
LEMMA ForwardTypesKept == ForwardInv /\ (ForwardNext \/ DispatchOther) => ForwardTypeOK'
<1> SUFFICES ASSUME ForwardInv, ForwardNext \/ DispatchOther PROVE ForwardTypeOK'
  OBVIOUS
<1>1. ForwardTypeOK /\ InCap \in Nat /\ OutCap \in Nat
      /\ (at \notin {"post", "over"} => posted = NoReply)
  BY ForwardAssumption DEF ForwardInv, AnswerInv
<1>2. ASSUME NEW s \in {0} \cup Statuses \cup Ours, NEW n, NEW why, Reply(s, n, why),
             UNCHANGED <<body, buf, status>>, at \notin {"post", "over"}
      PROVE  ForwardTypeOK'
  <2>1. at' = "post" /\ out'.status = s /\ posted' = NoReply
    BY <1>1, <1>2, ReplyFacts
  <2>2. QED
    BY <1>1, <1>2, <2>1 DEF ForwardTypeOK
<1>3. CASE CheckEnvelope
  <2>1. CASE Reply(400, 0, "invalid-path") \/ Reply(413, 0, "request-body-too-large")
    BY <1>2, <1>3, <2>1 DEF CheckEnvelope, envVars, upstreamVars, Ours
  <2>2. CASE Go(IF request.stored THEN "fetch" ELSE "ask")
    BY <1>1, <1>3, <2>2 DEF CheckEnvelope, Go, envVars, upstreamVars, ForwardTypeOK
  <2>3. QED
    BY <1>3, <2>1, <2>2 DEF CheckEnvelope
<1>4. CASE FetchBody
  <2>1. CASE Reply(413, 0, "request-body-too-large") /\ UNCHANGED body
    BY <1>2, <1>4, <2>1 DEF FetchBody, upstreamVars, Ours
  <2>2. CASE request.size <= InCap /\ body' = request.size /\ Go("ask")
    <3>1. request.size \in 0..InCap + 1
      BY DEF ForwardInv, BodyInv
    <3>2. QED
      BY <1>1, <1>4, <2>2, <3>1 DEF FetchBody, Go, upstreamVars, ForwardTypeOK
  <2>3. QED
    BY <1>4, <2>1, <2>2 DEF FetchBody
<1>5. CASE Ask
  <2>1. CASE Reply(502, 0, "upstream-error")
    BY <1>2, <1>5, <2>1 DEF Ask, envVars, Ours
  <2>2. CASE Go("await")
    BY <1>1, <1>5, <2>2 DEF Ask, Go, envVars, ForwardTypeOK
  <2>3. QED
    BY <1>5, <2>1, <2>2 DEF Ask
<1>6. CASE TimesOut
  BY <1>2, <1>6 DEF TimesOut, FetchFails, AskFails, envVars, upstreamVars, Ours
<1>7. CASE Post
  BY <1>1, <1>7 DEF Post, envVars, upstreamVars, ForwardTypeOK
<1>8. CASE ForwardAborted
  BY <1>1, <1>8 DEF ForwardAborted, Go, envVars, upstreamVars, ForwardTypeOK
<1>9. CASE Chunk
  <2>1. CASE Reply(502, 0, "response-too-large") /\ UNCHANGED buf
    BY <1>2, <1>9, <2>1 DEF Chunk, envVars, Ours
  <2>2. CASE buf + 1 <= OutCap /\ buf' = buf + 1 /\ Go("body")
    BY <1>1, <1>9, <2>2 DEF Chunk, Go, envVars, ForwardTypeOK
  <2>3. QED
    BY <1>9, <2>1, <2>2 DEF Chunk
<1>10. CASE ChunksEnd
  <2>1. status \in {0} \cup Statuses \cup Ours
    BY <1>1 DEF ForwardTypeOK
  <2>2. Reply(status, buf, "none") /\ UNCHANGED <<body, buf, status>> /\ at = "body"
    BY <1>10 DEF ChunksEnd, envVars
  <2>3. QED
    BY <1>2, <2>1, <2>2
<1>11. ASSUME NEW s \in Statuses, AnswerHead(s) \/ Follow(s) PROVE ForwardTypeOK'
  BY <1>1, <1>11 DEF AnswerHead, Follow, Go, envVars, ForwardTypeOK
<1>12. CASE UNCHANGED forwardVars
  BY <1>1, <1>12 DEF forwardVars, envVars, upstreamVars, ForwardTypeOK
<1>13. CASE DispatchOther
  BY <1>1, <1>13 DEF DispatchOther, envVars, upstreamVars, ForwardTypeOK, Ours
<1>14. QED
  BY <1>3, <1>4, <1>5, <1>6, <1>7, <1>8, <1>9, <1>10, <1>11, <1>12, <1>13 DEF ForwardNext, ForwardTask

\* The upstream is asked with the body of the request, once it was found small enough.
LEMMA BodyKept == ForwardInv /\ (ForwardNext \/ DispatchOther) => BodyInv'
<1> SUFFICES ASSUME ForwardInv, ForwardNext \/ DispatchOther PROVE BodyInv'
  OBVIOUS
<1>1. BodyInv /\ InCap \in Nat /\ body \in 0..InCap + 1
  BY ForwardAssumption DEF ForwardInv, ForwardTypeOK
<1>2. ASSUME UNCHANGED <<request, asked>>, at' \in {"body", "post", "over"} PROVE BodyInv'
  BY <1>1, <1>2 DEF BodyInv, AskedWhole
<1>3. CASE CheckEnvelope
  <2>1. CASE Reply(400, 0, "invalid-path") \/ Reply(413, 0, "request-body-too-large")
    BY <1>2, <1>3, <2>1, ReplyFacts DEF CheckEnvelope, envVars, upstreamVars
  <2>2. CASE /\ request.path = "valid" /\ body <= InCap
             /\ Go(IF request.stored THEN "fetch" ELSE "ask")
    <3>1. at = "guard" /\ UNCHANGED <<request, body, asked>>
      BY <1>3 DEF CheckEnvelope, envVars, upstreamVars
    <3>2. CASE request.stored
      BY <1>1, <2>2, <3>1, <3>2 DEF Go, BodyInv, AskedWhole
    <3>3. CASE ~request.stored
      BY <1>1, <2>2, <3>1, <3>3 DEF Go, BodyInv, AskedWhole
    <3>4. QED
      BY <3>2, <3>3
  <2>3. QED
    BY <1>3, <2>1, <2>2 DEF CheckEnvelope
<1>4. CASE FetchBody
  <2>1. CASE Reply(413, 0, "request-body-too-large")
    BY <1>2, <1>4, <2>1, ReplyFacts DEF FetchBody, upstreamVars
  <2>2. CASE request.size <= InCap /\ body' = request.size /\ Go("ask")
    BY <1>1, <1>4, <2>2 DEF FetchBody, Go, upstreamVars, BodyInv, AskedWhole
  <2>3. QED
    BY <1>4, <2>1, <2>2 DEF FetchBody
<1>5. CASE Ask
  <2>1. CASE Reply(502, 0, "upstream-error") /\ UNCHANGED asked
    BY <1>2, <1>5, <2>1, ReplyFacts DEF Ask, envVars
  <2>2. CASE asked' = Append(asked, body) /\ Go("await")
    <3>1. /\ at = "ask" /\ UNCHANGED <<request, body>> /\ at' = "await" /\ asked = <<>>
          /\ request.path = "valid" /\ request.size <= InCap /\ body = request.size
      BY <1>1, <1>5, <2>2 DEF Ask, Go, envVars, BodyInv
    <3>2. asked' # <<>> /\ asked' \in Seq(0..InCap + 1) /\ asked'[1] = body
      BY <1>1, <2>2, <3>1
    <3>3. QED
      BY <1>1, <3>1, <3>2 DEF BodyInv, AskedWhole
  <2>3. QED
    BY <1>5, <2>1, <2>2 DEF Ask
<1>6. CASE TimesOut \/ Post \/ ForwardAborted \/ ChunksEnd \/ DispatchOther
  BY <1>2, <1>6, ReplyFacts DEF TimesOut, FetchFails, AskFails, Post, ForwardAborted, Go, ChunksEnd,
     DispatchOther, envVars, upstreamVars
<1>7. CASE Chunk
  <2>1. at' \in {"body", "post"} /\ UNCHANGED <<request, asked>>
    BY <1>7, ReplyFacts DEF Chunk, Go, envVars
  <2>2. QED
    BY <1>2, <2>1
<1>8. ASSUME NEW s \in Statuses, AnswerHead(s) PROVE BodyInv'
  BY <1>2, <1>8 DEF AnswerHead, Go, envVars
<1>9. ASSUME NEW s \in Statuses, Follow(s) PROVE BodyInv'
  <2> DEFINE n == IF s = 302 THEN 0 ELSE asked[Len(asked)]
  <2>1. at = "await" /\ asked' = Append(asked, n) /\ UNCHANGED <<request, body, at>> /\ asked # <<>>
        /\ asked \in Seq(0..InCap + 1)
    BY <1>1, <1>9 DEF Follow, envVars, BodyInv
  <2>2. n \in 0..InCap + 1
    <3>1. Len(asked) \in 1..Len(asked)
      BY <2>1
    <3>2. asked[Len(asked)] \in 0..InCap + 1 /\ 0 \in 0..InCap + 1
      BY <1>1, <2>1, <3>1
    <3>3. QED
      BY <3>2
  <2> HIDE DEF n
  <2>3. asked' \in Seq(0..InCap + 1) /\ asked' # <<>> /\ asked'[1] = asked[1]
    BY <2>1, <2>2
  <2>4. QED
    BY <1>1, <2>1, <2>3 DEF BodyInv, AskedWhole
<1>10. CASE UNCHANGED forwardVars
  BY <1>1, <1>10 DEF forwardVars, envVars, upstreamVars, BodyInv, AskedWhole
<1>11. QED
  BY <1>3, <1>4, <1>5, <1>6, <1>7, <1>8, <1>9, <1>10 DEF ForwardNext, ForwardTask

\* What was read of the answer is what the upstream sent of it.
LEMMA AnswerKept == ForwardInv /\ (ForwardNext \/ DispatchOther) => AnswerInv'
<1> SUFFICES ASSUME ForwardInv, ForwardNext \/ DispatchOther PROVE AnswerInv'
  OBVIOUS
<1>1. AnswerInv /\ buf \in 0..OutCap /\ posted \in {NoReply, out} /\ NoReply.status = 0 /\ OutCap \in Nat
  BY ForwardAssumption DEF ForwardInv, ForwardTypeOK, NoReply
<1>2. ASSUME NEW s, NEW n, NEW why, Reply(s, n, why), why # "none", UNCHANGED whole, produced' \in Nat
      PROVE  AnswerInv'
  BY <1>1, <1>2, ReplyFacts DEF AnswerInv
<1>3. ASSUME Go(at'), at' \in {"fetch", "ask", "await"}, at \in {"guard", "fetch", "ask"},
             UNCHANGED <<produced, whole, buf, status>>
      PROVE  AnswerInv'
  BY <1>1, <1>3 DEF Go, AnswerInv
<1>4. produced \in Nat
  BY <1>1 DEF AnswerInv
<1>5. CASE CheckEnvelope
  <2>1. at = "guard" /\ UNCHANGED <<produced, whole, buf, status>>
    BY <1>5 DEF CheckEnvelope, upstreamVars
  <2>2. CASE Reply(400, 0, "invalid-path") \/ Reply(413, 0, "request-body-too-large")
    BY <1>2, <1>4, <2>1, <2>2
  <2>3. CASE Go(IF request.stored THEN "fetch" ELSE "ask")
    <3>1. Go(at') /\ at' \in {"fetch", "ask"}
      BY <2>3 DEF Go
    <3>2. QED
      BY <1>3, <2>1, <3>1
  <2>4. QED
    BY <1>5, <2>2, <2>3 DEF CheckEnvelope
<1>6. CASE FetchBody
  <2>1. at = "fetch" /\ UNCHANGED <<produced, whole, buf, status>>
    BY <1>6 DEF FetchBody, upstreamVars
  <2>2. CASE Reply(413, 0, "request-body-too-large")
    BY <1>2, <1>4, <2>1, <2>2
  <2>3. CASE Go("ask")
    <3>1. Go(at') /\ at' = "ask"
      BY <2>3 DEF Go
    <3>2. QED
      BY <1>3, <2>1, <3>1
  <2>4. QED
    BY <1>6, <2>2, <2>3 DEF FetchBody
<1>7. CASE Ask
  <2>1. at = "ask" /\ UNCHANGED <<produced, whole, buf, status>>
    BY <1>7 DEF Ask
  <2>2. CASE Reply(502, 0, "upstream-error")
    BY <1>2, <1>4, <2>1, <2>2
  <2>3. CASE Go("await")
    <3>1. Go(at') /\ at' = "await"
      BY <2>3 DEF Go
    <3>2. QED
      BY <1>3, <2>1, <3>1
  <2>4. QED
    BY <1>7, <2>2, <2>3 DEF Ask
<1>8. CASE TimesOut
  BY <1>2, <1>4, <1>8 DEF TimesOut, FetchFails, AskFails, upstreamVars
<1>9. CASE Post \/ ForwardAborted
  <2>1. at' = "over" /\ UNCHANGED <<out, produced, whole, status>>
    BY <1>9 DEF Post, ForwardAborted, Go, upstreamVars
  <2>2. QED
    BY <1>1, <2>1 DEF AnswerInv
<1>10. CASE Chunk
  <2>1. produced' = produced + 1 /\ produced' \in Nat /\ UNCHANGED <<whole, status>> /\ at = "body"
    BY <1>4, <1>10 DEF Chunk
  <2>2. CASE Reply(502, 0, "response-too-large")
    BY <1>2, <2>1, <2>2
  <2>3. CASE buf' = buf + 1 /\ Go("body")
    BY <1>1, <2>1, <2>3 DEF Go, AnswerInv
  <2>4. QED
    BY <1>10, <2>2, <2>3 DEF Chunk
<1>11. CASE ChunksEnd
  <2>1. /\ at = "body" /\ whole' = TRUE /\ UNCHANGED <<produced, status, buf>>
        /\ at' = "post" /\ out'.status = status /\ out'.size = buf
    BY <1>11, ReplyFacts DEF ChunksEnd
  <2>2. buf = produced /\ buf <= OutCap
    BY <1>1, <2>1 DEF AnswerInv
  <2>3. QED
    BY <1>4, <2>1, <2>2 DEF AnswerInv
<1>12. ASSUME NEW s \in Statuses, AnswerHead(s) PROVE AnswerInv'
  BY <1>1, <1>12 DEF AnswerHead, Go, AnswerInv
<1>13. ASSUME NEW s \in Statuses, Follow(s) PROVE AnswerInv'
  BY <1>1, <1>13 DEF Follow, AnswerInv
<1>14. CASE DispatchOther
  <2>1. at' = "over" /\ out'.reason = "unsupported" /\ UNCHANGED <<produced, whole>>
    BY <1>14 DEF DispatchOther, upstreamVars
  <2>2. QED
    BY <1>1, <2>1 DEF AnswerInv
<1>15. CASE UNCHANGED forwardVars
  BY <1>1, <1>15 DEF forwardVars, upstreamVars, AnswerInv
<1>16. QED
  BY <1>5, <1>6, <1>7, <1>8, <1>9, <1>10, <1>11, <1>12, <1>13, <1>14, <1>15 DEF ForwardNext, ForwardTask

\* The reply that is posted is the one the task went on to post.
LEMMA WholeHolds == ForwardInv => ForwardedWhole
<1> SUFFICES ASSUME ForwardInv PROVE ForwardedWhole
  OBVIOUS
<1>1. AskedWhole /\ posted \in {NoReply, out} /\ NoReply.status = 0
  BY DEF ForwardInv, BodyInv, ForwardTypeOK, NoReply
<1>2. ReplyIsWhole
  BY <1>1 DEF ForwardInv, AnswerInv, ReplyIsWhole
<1>3. QED
  BY <1>1, <1>2 DEF ForwardedWhole

-----------------------------------------------------------------------------
(* A dispatch.                                                             *)

DispatchInv == BridgeInv /\ ForwardInv

\* Either handler starts so.
LEMMA DispatchStarts == DispatchInit => DispatchInv
BY BridgeStarts, ForwardStarts DEF DispatchInit, DispatchInv

\* What a step of a dispatch does to its bridge and to its request.
LEMMA DispatchSteps ==
    [DispatchNext]_dispatchVars =>
        /\ Next \/ UNCHANGED vars
        /\ ForwardNext \/ DispatchOther \/ UNCHANGED forwardVars
BY DEF DispatchNext, AsHttp, AsBridge, DispatchOther, dispatchVars

\* Steps of the other handler leave the bridge alone.
LEMMA BridgeStutters == BridgeInv /\ UNCHANGED vars => BridgeInv'
<1> SUFFICES ASSUME BridgeInv, UNCHANGED vars PROVE BridgeInv'
  OBVIOUS
<1>1. UNCHANGED <<bridge, pc, reply, wire, edgeEnd, ours, rst, edgeGot, sentIn, begunIn>>
  BY DEF vars, edgeVars, ourVars
<1>2. UNCHANGED <<socket, upEnd, leftover, upOut, upIn, upGot, sentOut, begunOut, control>>
  BY DEF vars, upVars, sockVars
<1>3. UNCHANGED <<b2u, u2b, envBuf, fragIn, fragOut, tls, early, reason, lapsed>>
  BY DEF vars, pumpVars
<1>4. Typed' /\ ReasonInv' /\ LingerInv'
  BY <1>1, <1>2, <1>3 DEF BridgeInv, Typed, TypeOK, QueueTypes, OpeningInv, ReasonInv, LingerInv
<1>5. InInv'
  BY <1>1, <1>2, <1>3, Unchanged, InKept DEF BridgeInv
<1>6. OutInv'
  BY <1>1, <1>2, <1>3, Unchanged, OutKept DEF BridgeInv
<1>7. QED
  BY <1>4, <1>5, <1>6 DEF BridgeInv

\* Steps of either handler keep what is known of the request.
LEMMA ForwardKept == ForwardInv /\ (ForwardNext \/ DispatchOther \/ UNCHANGED forwardVars) => ForwardInv'
<1> SUFFICES ASSUME ForwardInv, ForwardNext \/ DispatchOther \/ UNCHANGED forwardVars PROVE ForwardInv'
  OBVIOUS
<1>1. CASE ForwardNext \/ DispatchOther
  BY <1>1, ForwardTypesKept, BodyKept, AnswerKept DEF ForwardInv
<1>2. CASE UNCHANGED forwardVars
  BY <1>2 DEF forwardVars, envVars, upstreamVars, ForwardInv, ForwardTypeOK, BodyInv, AskedWhole, AnswerInv
<1>3. QED
  BY <1>1, <1>2

\* The inductive invariant of dispatch (runtime.rs) and its two handlers.
THEOREM DispatchInvariant == DispatchSpec => []DispatchInv
<1>1. DispatchInit => DispatchInv
  BY DispatchStarts
<1>2. DispatchInv /\ [DispatchNext]_dispatchVars => DispatchInv'
  BY DispatchSteps, BridgeKept, BridgeStutters, ForwardKept DEF DispatchInv
<1>3. QED
  BY <1>1, <1>2, PTL DEF DispatchSpec

\* Neither handler leaves its types: the buffers of dispatch_ws_upgrade,
\* dispatch_tcp_stream and dispatch_http stay within their bounds.
THEOREM DispatchTypes == DispatchSpec => []DispatchTypeOK
<1>1. DispatchInv => DispatchTypeOK
  BY DEF DispatchInv, BridgeInv, Typed, ForwardInv, DispatchTypeOK
<1>2. QED
  BY <1>1, DispatchInvariant, PTL

\* pump_ws_url_bridge and run_tcp_bridge pass each message of either side on once
\* and in order, however it is cut into frames.
THEOREM DispatchInOrder == DispatchSpec => []StreamsInOrder
<1>1. DispatchInv => StreamsInOrder
  BY OrderHolds DEF DispatchInv
<1>2. QED
  BY <1>1, DispatchInvariant, PTL

\* While a pump waits for either side it holds back nothing it has received.
THEOREM DispatchHoldsNothing == DispatchSpec => []NothingHeldBack
<1>1. DispatchInv => NothingHeldBack
  BY TakenHolds DEF DispatchInv
<1>2. QED
  BY <1>1, DispatchInvariant, PTL

\* run_tcp_bridge tells the edge of a clean end only when everything was passed on.
THEOREM DispatchClosesClean == DispatchSpec => []CleanIsComplete
<1>1. DispatchInv => CleanIsComplete
  BY TakenHolds DEF DispatchInv
<1>2. QED
  BY <1>1, DispatchInvariant, PTL

\* dispatch_http asks the upstream with the whole body of the request and replies
\* with the whole body of the answer, or with an error of its own.
THEOREM DispatchForwardsWhole == DispatchSpec => []ForwardedWhole
<1>1. DispatchInv => ForwardedWhole
  BY WholeHolds DEF DispatchInv
<1>2. QED
  BY <1>1, DispatchInvariant, PTL

\* finish_tcp_bridge does not reset the stream under its own CLOSE, unless the edge
\* kept it open beyond the grace period.
THEOREM DispatchWaitsToReset == DispatchSpec => NoResetAfterClose
<1>1. DispatchInv /\ [DispatchNext]_dispatchVars =>
          [bridge = "tcp" /\ pc = "leave" /\ socket # "none" /\ rst' /\ ~rst => lapsed]_vars
  BY DispatchSteps, ResetWaits DEF DispatchInv
<1>2. QED
  BY <1>1, DispatchInvariant, PTL DEF DispatchSpec, NoResetAfterClose
=============================================================================
