------------------------- MODULE TunnelConnectProofs -------------------------
(* Proofs about connecting a tunnel: the key and the certificate that an      *)
(* attempt serves with (TunnelBootstrap), and the connections of the runtime  *)
(* that replaces them warm (WarmHandoff).                                     *)
EXTENDS TunnelConnect, TLAPS

(***************************************************************************)
(* The bootstrap.                                                          *)
(***************************************************************************)

\* An attempt that is not overlapped is the only one.
Exclusive == \A p, q \in Procs : Busy(p) /\ alone[p] /\ p # q => ~Busy(q)

\* What such an attempt has read about the chain stays true until it serves it.
PairKept ==
    \A p \in Procs : alone[p] =>
        /\ pc[p] = "readChain" => disk["chain"] = mine[p]
        /\ pc[p] \in {"save", "serving"} => served[p] = mine[p]

BootstrapInv == TypeOK /\ Exclusive /\ PairKept

\* An attempt that returns leaves nothing but the directory.
LEMMA ReturnTypes ==
    ASSUME TypeOK, NEW p \in Procs, Return(p)
    PROVE  /\ pc'[p] = "idle" /\ UNCHANGED <<writing, dirVars>>
           /\ pc' \in [Procs -> {"idle", "load", "fetch", "key", "readKey", "check", "readChain",
                         "sign", "refresh", "save", "test", "create", "write", "replace",
                         "serving"}]
           /\ id' \in [Procs -> Nat] /\ seenActive' \in [Procs -> BOOLEAN]
           /\ mine' \in [Procs -> Keys \cup {"none"}]
           /\ served' \in [Procs -> Keys \cup {"none", "torn"}]
           /\ \A q \in Procs : q # p => pc'[q] = pc[q] /\ mine'[q] = mine[q] /\ served'[q] = served[q]
BY DEF Return, Goto, TypeOK, dirVars

\* A step that leaves the labels, the keys and the chain alone.
LEMMA MovePair ==
    ASSUME Exclusive, PairKept, UNCHANGED <<pc, mine, served, alone>>,
           disk'["chain"] = disk["chain"] \/ \A p \in Procs : ~Busy(p)
    PROVE  Exclusive' /\ PairKept'
BY DEF Exclusive, PairKept, Busy

\* A step of p that is not its last leaves p in its attempt, and concerns no other
\* attempt that is alone.
LEMMA StepPair ==
    ASSUME TypeOK, Exclusive, PairKept, NEW p \in Procs, Busy(p), UNCHANGED alone,
           \A q \in Procs : q # p => pc'[q] = pc[q] /\ mine'[q] = mine[q] /\ served'[q] = served[q],
           alone[p] => /\ pc'[p] = "readChain" => disk'["chain"] = mine'[p]
                       /\ pc'[p] \in {"save", "serving"} => served'[p] = mine'[p]
    PROVE  Exclusive' /\ PairKept'
<1>1. Exclusive'
  BY DEF Exclusive, Busy
<1>2. ASSUME NEW q \in Procs, q # p, alone[q] PROVE pc[q] # "readChain"
  BY <1>2 DEF Exclusive, Busy
<1>3. PairKept'
  BY <1>2 DEF PairKept
<1>4. QED
  BY <1>1, <1>3

\* A step of an attempt keeps the types.
LEMMA WorkTypes == ASSUME TypeOK, NEW p \in Procs, Work(p) PROVE TypeOK'
<1> USE DEF vars, dirVars, edgeVars, procVars
<1>1. CASE Connect(p)
  BY <1>1 DEF TypeOK, Connect, Goto, Busy
<1>2. CASE LoadState(p)
  BY <1>2 DEF TypeOK, LoadState, Goto
<1>3. CASE Fetch(p)
  BY <1>3, ReturnTypes DEF TypeOK, Fetch, Goto
<1>4. CASE FindKey(p)
  BY <1>4 DEF TypeOK, FindKey, Goto, Files
<1>5. CASE ReadKey(p)
  BY <1>5, ReturnTypes DEF TypeOK, ReadKey, Goto
<1>6. CASE CheckChain(p)
  BY <1>6 DEF TypeOK, CheckChain, Move, Goto
<1>7. CASE ReadChain(p)
  BY <1>7 DEF TypeOK, ReadChain, Goto, Files
<1>8. CASE Sign(p)
  BY <1>8, ReturnTypes, ZenonT(30) DEF TypeOK, Sign, Goto, Files
<1>9. CASE Refresh(p)
  BY <1>9, ReturnTypes DEF TypeOK, Refresh, Goto
<1>10. CASE SaveState(p)
  BY <1>10 DEF TypeOK, SaveState, Move, Goto
<1>11. CASE TestFile(p)
  BY <1>11 DEF TypeOK, TestFile, Move, Goto
<1>12. CASE CreateFile(p)
  BY <1>12, ReturnTypes DEF TypeOK, CreateFile, Goto
<1>13. CASE WriteFile(p)
  BY <1>13 DEF TypeOK, WriteFile, Put, Written, Move, Goto
<1>14. CASE ReplaceFile(p)
  BY <1>14 DEF TypeOK, ReplaceFile, Put, Written, Move, Goto
<1>15. QED
  BY <1>1, <1>2, <1>3, <1>4, <1>5, <1>6, <1>7, <1>8, <1>9, <1>10, <1>11, <1>12, <1>13, <1>14
  DEF Work

\* A step of an attempt keeps what is served a pair.
LEMMA WorkPair == ASSUME BootstrapInv, NEW p \in Procs, Work(p) PROVE Exclusive' /\ PairKept'
<1> USE DEF dirVars, edgeVars, procVars, BootstrapInv
<1>1. CASE Connect(p)
  <2>1. /\ pc[p] = "idle" /\ pc' = [pc EXCEPT ![p] = "load"] /\ UNCHANGED <<disk, mine, served>>
        /\ alone'[p] = \A r \in Procs \ {p} : ~Busy(r)
        /\ \A q \in Procs : q # p => alone'[q] = (alone[q] /\ ~Busy(q))
    BY <1>1 DEF Connect, Goto
  <2>2. \A q \in Procs : Busy(q)' <=> q = p \/ Busy(q)
    BY <2>1 DEF Busy, TypeOK
  <2>3. Exclusive'
    BY <2>1, <2>2 DEF Exclusive
  <2>4. PairKept'
    BY <2>1 DEF PairKept, TypeOK
  <2>5. QED
    BY <2>3, <2>4
<1>2. ASSUME pc[p] \in {"fetch", "readKey", "sign", "refresh", "create"}, Return(p), UNCHANGED alone
      PROVE  Exclusive' /\ PairKept'
  <2>1. Busy(p) /\ pc'[p] = "idle"
    BY <1>2, ReturnTypes DEF Busy
  <2>2. QED
    BY <1>2, <2>1, ReturnTypes, StepPair
<1>3. ASSUME Busy(p), UNCHANGED <<served, alone>>,
             pc'[p] \notin {"readChain", "save", "serving"},
             \A q \in Procs : q # p => pc'[q] = pc[q] /\ mine'[q] = mine[q]
      PROVE  Exclusive' /\ PairKept'
  BY <1>3, StepPair
<1>4. CASE LoadState(p) \/ FindKey(p) \/ TestFile(p) \/ WriteFile(p) \/ ReplaceFile(p)
  BY <1>3, <1>4
  DEF LoadState, FindKey, TestFile, WriteFile, ReplaceFile, Goto, Move, Written, TypeOK, Busy
<1>5. CASE Fetch(p) \/ ReadKey(p) \/ Sign(p) \/ CreateFile(p)
  <2>1. CASE Return(p)
    BY <1>2, <1>5, <2>1 DEF Fetch, ReadKey, Sign, CreateFile
  <2>2. CASE ~Return(p)
    BY <1>3, <1>5, <2>2 DEF Fetch, ReadKey, Sign, CreateFile, Goto, TypeOK, Busy
  <2>3. QED
    BY <2>1, <2>2
<1>6. CASE CheckChain(p)
  <2>1. /\ Busy(p) /\ UNCHANGED <<disk, mine, served, alone>>
        /\ pc' = [pc EXCEPT ![p] = IF ~seenActive[p] \/ NeedsSign(p) THEN "sign" ELSE "readChain"]
    BY <1>6 DEF CheckChain, Move, Goto, Busy
  <2>2. pc'[p] = "readChain" => disk["chain"] = mine[p]
    BY <2>1 DEF NeedsSign, TypeOK
  <2>3. pc'[p] \in {"sign", "readChain"} /\ \A q \in Procs : q # p => pc'[q] = pc[q]
    BY <2>1 DEF TypeOK
  <2>4. QED
    BY <2>1, <2>2, <2>3, StepPair
<1>7. CASE ReadChain(p) \/ SaveState(p)
  <2>1. /\ Busy(p) /\ UNCHANGED <<mine, alone>> /\ pc'[p] \in {"save", "serving"}
        /\ \A q \in Procs : q # p => pc'[q] = pc[q] /\ served'[q] = served[q]
        /\ \/ pc[p] = "readChain" /\ served'[p] = disk["chain"]
           \/ pc[p] = "save" /\ served'[p] = served[p]
    BY <1>7 DEF ReadChain, SaveState, Move, Goto, TypeOK, Busy
  <2>2. alone[p] => served'[p] = mine[p]
    BY <2>1 DEF PairKept
  <2>3. QED
    BY <2>1, <2>2, StepPair
<1>8. CASE Refresh(p)
  <2>1. CASE Return(p)
    BY <1>2, <1>8, <2>1 DEF Refresh
  <2>2. CASE ~Return(p)
    <3>1. /\ Busy(p) /\ UNCHANGED <<mine, alone>> /\ pc'[p] = "save" /\ served'[p] = mine[p]
          /\ \A q \in Procs : q # p => pc'[q] = pc[q] /\ served'[q] = served[q]
      BY <1>8, <2>2 DEF Refresh, Goto, TypeOK, Busy
    <3>2. QED
      BY <3>1, StepPair
  <2>3. QED
    BY <2>1, <2>2
<1>9. QED
  BY <1>1, <1>4, <1>5, <1>6, <1>7, <1>8 DEF Work

\* The bound on troubles is kept.
LEMMA TroubleBound == TypeOK /\ Troubled => trouble' \in 0..MaxTrouble
BY BootstrapAssumption DEF TypeOK, Troubled

\* The directory is empty and nobody is connected.
LEMMA BootstrapStart == Init => BootstrapInv
<1> SUFFICES ASSUME Init PROVE BootstrapInv
  OBVIOUS
<1>1. trouble \in 0..MaxTrouble
  BY BootstrapAssumption DEF Init
<1>2. TypeOK
  BY <1>1 DEF Init, TypeOK, Files
<1>3. Exclusive /\ PairKept
  BY DEF Init, Exclusive, PairKept, Busy
<1>4. QED
  BY <1>2, <1>3 DEF BootstrapInv

\* Every step keeps the invariant.
LEMMA BootstrapStep == BootstrapInv /\ [Next]_vars => BootstrapInv'
<1> SUFFICES ASSUME BootstrapInv, [Next]_vars PROVE BootstrapInv'
  OBVIOUS
<1> USE DEF vars, dirVars, edgeVars, procVars
<1>1. ASSUME NEW p \in Procs, Work(p) PROVE BootstrapInv'
  BY <1>1, WorkTypes, WorkPair DEF BootstrapInv
<1>2. ASSUME NEW p \in Procs, Stops(p) PROVE BootstrapInv'
  <2>1. TypeOK'
    BY <1>2, ReturnTypes, TroubleBound DEF BootstrapInv, TypeOK, Stops
  <2>2. /\ pc'[p] = "idle" /\ UNCHANGED <<disk, alone>>
        /\ \A q \in Procs : q # p => pc'[q] = pc[q] /\ mine'[q] = mine[q] /\ served'[q] = served[q]
    BY <1>2, ReturnTypes DEF BootstrapInv, Stops
  <2>3. Exclusive' /\ PairKept'
    BY <2>2 DEF BootstrapInv, Exclusive, PairKept, Busy
  <2>4. QED
    BY <2>1, <2>3 DEF BootstrapInv
<1>3. CASE ChainAges \/ Reprovision
  <2>1. TypeOK'
    <3>1. trouble' \in 0..MaxTrouble
      BY <1>3, TroubleBound DEF BootstrapInv, ChainAges, Reprovision
    <3>2. live' \in Nat
      BY <1>3 DEF BootstrapInv, TypeOK, ChainAges, Reprovision
    <3>3. QED
      BY <1>3, <3>1, <3>2 DEF BootstrapInv, TypeOK, ChainAges, Reprovision
  <2>2. QED
    BY <1>3, <2>1, MovePair DEF BootstrapInv, ChainAges, Reprovision
<1>4. CASE ClearDirectory
  <2>1. TypeOK'
    <3>1. trouble' \in 0..MaxTrouble
      BY <1>4, TroubleBound DEF BootstrapInv, ClearDirectory
    <3>2. QED
      BY <1>4, <3>1 DEF BootstrapInv, TypeOK, ClearDirectory
  <2>2. QED
    BY <1>4, <2>1, MovePair DEF BootstrapInv, ClearDirectory
<1>5. CASE UNCHANGED vars
  BY <1>5, MovePair DEF BootstrapInv, TypeOK
<1>6. QED
  BY <1>1, <1>2, <1>3, <1>4, <1>5 DEF Next, Outside, Serving

\* A step of the whole is one of the bootstrap or leaves it alone.
LEMMA ConnectIsBootstrap ==
    /\ ConnectInit => Init
    /\ [ConnectNext]_connectVars => [Next]_vars
BY DEF ConnectInit, ConnectNext, connectVars, Bootstrap, Runtime

\* For any number of processes and keys, wherever earlier attempts stopped: an
\* attempt that no other overlapped serves with a chain issued for its own key
\* (connect_inner, cert_needs_sign).
THEOREM ServesPair == ConnectSpec => []AloneServesPair
<1>1. BootstrapInv => AloneServesPair
  BY DEF BootstrapInv, PairKept, AloneServesPair
<1>2. QED
  BY <1>1, BootstrapStart, BootstrapStep, ConnectIsBootstrap, PTL DEF ConnectSpec

(***************************************************************************)
(* The warm handoff.                                                       *)
(***************************************************************************)

ConnType ==
    [stage : {"none", "dial", "hello", "serving", "spent"},
     answer : {"none", "ok", "auth", "superseded"},
     reading : {"off", "on", "done"}, closed : BOOLEAN,
     draining : BOOLEAN, up : BOOLEAN]

HandType ==
    [stage : {"none", "begun", "dial", "hello", "pause", "drain", "done"},
     fresh : 0..MaxConns, cancelled : BOOLEAN]

Outcomes == {"none", "error", "timeout", "auth", "superseded", "lost"}

\* The types of the runtime's variables.
HandoffTypes ==
    /\ conn \in [Conns -> ConnType] /\ hand \in [Conns -> HandType]
    /\ sup \in [pc : {"idle", "dial", "hello", "watch", "await", "teardown", "pause", "ended"},
                conn : 0..MaxConns, outcome : Outcomes, awaited : 0..MaxConns,
                leaving : SUBSET Conns]
    /\ closer \in [pc : {"idle", "closing", "done"}, closing : SUBSET Conns,
                   awaited : 0..MaxConns]
    /\ status \in {"idle", "connecting", "connected", "reconnecting", "closed", "superseded"}
    /\ drained \subseteq Conns
    /\ current \in 0..MaxConns /\ owner \in 0..MaxConns /\ opened \in 0..MaxConns
    /\ inFlight \in BOOLEAN /\ authError \in BOOLEAN /\ taken \in BOOLEAN /\ wake \in BOOLEAN
    /\ stop \in BOOLEAN /\ strayed \in BOOLEAN

\* The supervisor has a connection, or is about to have one.
Attached == {"dial", "hello", "watch", "await"}

\* The replacement a handoff says hello on.
Greeting(o, c) == hand[o].stage = "hello" /\ hand[o].fresh = c

\* Connections are numbered as they are made, and one that is dialed is new: no reader
\* has read from it, least of all the GOAWAY that drains it.
NumberInv ==
    /\ \A c \in Conns : c > opened => conn[c].reading = "off"
    /\ current <= opened /\ sup.conn <= opened
    /\ sup.pc \in Attached => sup.conn # 0
    /\ sup.pc = "dial" => conn[sup.conn].reading = "off"
    /\ \A o \in Conns : hand[o].stage \in {"dial", "hello"} =>
          hand[o].fresh # 0 /\ hand[o].fresh <= opened
    /\ \A o \in Conns : hand[o].stage = "dial" =>
          /\ conn[hand[o].fresh].reading = "off"
          /\ sup.pc = "dial" => hand[o].fresh # sup.conn
    /\ \A c \in Conns : conn[c].draining =>
          conn[c].reading = "done" /\ conn[c].closed
    /\ \A c \in drained : conn[c].draining

\* One handoff builds at a time, the one the runtime knows of, and aclose waits for it.
OneHandoff ==
    /\ stop <=> closer.pc # "idle"
    /\ \A o \in Building :
          /\ inFlight /\ owner = o /\ conn[o].draining /\ ~authError
          /\ stop => hand[o].cancelled /\ closer.pc = "closing" /\ closer.awaited = o
    /\ \A o \in Conns : hand[o].cancelled => stop
    /\ \A o \in Conns : hand[o].cancelled /\ hand[o].stage # "done" => closer.awaited = o
    /\ closer.pc = "closing" => current \in closer.closing \cup {0}

\* Who serves and who reads, while nothing has strayed.
Served ==
    ~strayed =>
        /\ sup.pc \in {"dial", "hello"} => current = sup.conn
        /\ sup.pc \notin {"watch", "await"} => \A c \in Conns : conn[c].stage # "serving"
        /\ \A c \in Conns : conn[c].stage = "serving" => c = current \/ c \in drained
        /\ \A o \in Building :
              /\ current = o \/ (stop /\ current = 0)
              /\ ~stop => o \in drained /\ sup.pc \in {"hello", "watch", "await"}
        /\ authError /\ sup.pc \in {"watch", "await"} => ~Successor
        /\ ~stop => \A c \in Conns : conn[c].reading = "on" =>
              \/ c = current /\ sup.pc \in {"hello", "watch", "await"}
              \/ \E o \in Conns : Greeting(o, c)

\* What a takeover has put an end to.
TakenInv ==
    ~strayed /\ ~stop /\ taken =>
        /\ sup.pc \notin {"idle", "pause"}
        /\ current # 0 => conn[current].closed
        /\ \A o \in Conns : hand[o].stage \notin {"begun", "pause", "dial"}
        /\ \A o \in Conns, c \in Conns : Greeting(o, c) => conn[c].closed
        /\ sup.pc = "teardown" => sup.outcome \in {"superseded", "error", "auth"}

\* The callback knows the status, which a handoff finds to be "connected" already.
ToldInv ==
    ~strayed =>
        /\ told = status
        /\ ~stop /\ sup.pc \in {"watch", "await"} /\ status # "connected" =>
              current # 0 /\ conn[current].closed /\ Building = {}

\* Which sockets may be open, before, during and after aclose.
OpenInv ==
    ~strayed =>
        /\ ~stop /\ sup.pc \in Attached => \A c \in Conns : conn[c].up =>
              c = current \/ c \in drained \/ \E o \in Conns : Greeting(o, c)
        /\ ~stop /\ sup.pc = "teardown" => \A c \in Conns : conn[c].up => c \in sup.leaving
        /\ sup.pc \in {"idle", "pause"} \/ (sup.pc = "ended" /\ ~stop) =>
              Building = {} /\ \A c \in Conns : ~conn[c].up
        /\ ~stop => \A c \in Conns : conn[c].draining /\ conn[c].up => c \in drained
        /\ closer.pc = "closing" => \A c \in Conns : conn[c].up =>
              \/ c \in closer.closing \/ (sup.pc = "teardown" /\ c \in sup.leaving)
              \/ \E o \in Conns : Greeting(o, c)
        /\ closer.pc = "done" => \A c \in Conns : conn[c].up =>
              \/ c = sup.conn /\ sup.pc \in {"hello", "watch"}
              \/ sup.pc = "teardown" /\ c \in sup.leaving

HandoffInv ==
    /\ HandoffTypes /\ NumberInv /\ OneHandoff /\ Served /\ TakenInv /\ ToldInv
    /\ OpenInv

\* What the pieces of the steps do to each connection.
LEMMA ReadFacts ==
    ASSUME NEW cs \in [Conns -> ConnType], NEW c \in Conns
    PROVE  /\ Read(cs, c) \in [Conns -> ConnType]
           /\ \A d \in Conns : d # c => Read(cs, c)[d] = cs[d]
           /\ LET n == Read(cs, c)[c] IN
                /\ n.closed /\ n.reading = "done" /\ n.stage = cs[c].stage
                /\ n.answer = cs[c].answer /\ n.up = cs[c].up
                /\ n.draining = cs[c].draining
BY DEF Read, ConnType

\* Publishing the connections of S as closed stops their readers.
LEMMA CancelledFacts ==
    ASSUME NEW cs \in [Conns -> ConnType], NEW S
    PROVE  /\ Cancelled(cs, S) \in [Conns -> ConnType]
           /\ \A d \in Conns : d \notin S => Cancelled(cs, S)[d] = cs[d]
           /\ \A d \in Conns \cap S :
                LET n == Cancelled(cs, S)[d] IN
                /\ n.closed /\ n.stage = cs[d].stage /\ n.answer = cs[d].answer
                /\ n.up = cs[d].up /\ n.draining = cs[d].draining
                /\ n.reading = IF cs[d].reading = "on" THEN "done"
                               ELSE cs[d].reading
BY ZenonT(30) DEF Cancelled, ConnType

\* Forcing the connections of S down closes their sockets.
LEMMA DroppedFacts ==
    ASSUME NEW cs \in [Conns -> ConnType], NEW S
    PROVE  /\ Dropped(cs, S) \in [Conns -> ConnType]
           /\ \A d \in Conns : d \notin S => Dropped(cs, S)[d] = cs[d]
           /\ \A d \in Conns \cap S :
                LET n == Dropped(cs, S)[d] IN
                /\ n.closed /\ ~n.up /\ n.answer = cs[d].answer
                /\ n.reading = cs[d].reading /\ n.draining = cs[d].draining
                /\ n.stage = IF cs[d].stage = "serving" THEN "serving"
                             ELSE "spent"
BY ZenonT(30) DEF Dropped, ConnType

\* The end of the intakes leaves everything but the stages alone.
LEMMA IntakeFacts ==
    ASSUME NEW cs \in [Conns -> ConnType]
    PROVE  /\ IntakesCancelled(cs) \in [Conns -> ConnType]
           /\ \A d \in Conns :
                LET n == IntakesCancelled(cs)[d] IN
                /\ n.closed = cs[d].closed /\ n.up = cs[d].up
                /\ n.answer = cs[d].answer /\ n.reading = cs[d].reading
                /\ n.draining = cs[d].draining
                /\ n.stage = IF cs[d].stage = "serving" THEN "spent"
                             ELSE cs[d].stage
BY DEF IntakesCancelled, ConnType

\* A dial that succeeds opens the socket and starts the reader.
LEMMA DialedFacts ==
    ASSUME NEW cs \in [Conns -> ConnType], NEW c \in Conns
    PROVE  /\ Dialed(cs, c) \in [Conns -> ConnType]
           /\ \A d \in Conns : d # c => Dialed(cs, c)[d] = cs[d]
           /\ LET n == Dialed(cs, c)[c] IN
                /\ n.closed = cs[c].closed /\ n.reading = "on" /\ n.up
                /\ n.stage = "hello" /\ n.answer = cs[c].answer
                /\ n.draining = cs[c].draining
BY ZenonT(30) DEF Dialed, ConnType

\* Starting to serve concerns the stage and the answer alone.
LEMMA StartFacts ==
    ASSUME NEW cs \in [Conns -> ConnType], NEW c \in Conns
    PROVE  /\ StartServing(cs, c) \in [Conns -> ConnType]
           /\ \A d \in Conns : d # c => StartServing(cs, c)[d] = cs[d]
           /\ LET n == StartServing(cs, c)[c] IN
                /\ n.closed = cs[c].closed /\ n.reading = cs[c].reading
                /\ n.up = cs[c].up /\ n.draining = cs[c].draining
                /\ n.stage = "serving"
BY DEF StartServing, ConnType

\* A connection that is dialed is the next one.
LEMMA OpenedFacts ==
    ASSUME NEW cs \in [Conns -> ConnType], opened \in 0..MaxConns,
           opened < MaxConns
    PROVE  /\ opened + 1 \in Conns /\ opened + 1 # 0
           /\ Opened(cs) \in [Conns -> ConnType]
           /\ \A d \in Conns : d # opened + 1 => Opened(cs)[d] = cs[d]
           /\ LET n == Opened(cs)[opened + 1] IN
                /\ n.closed = cs[opened + 1].closed /\ n.stage = "dial"
                /\ n.reading = cs[opened + 1].reading
                /\ n.up = cs[opened + 1].up
                /\ n.answer = cs[opened + 1].answer
                /\ n.draining = cs[opened + 1].draining
<1>1. opened + 1 \in Conns /\ opened + 1 # 0
  BY HandoffAssumption DEF Conns
<1>2. QED
  BY <1>1 DEF Opened, ConnType

\* A replacement that is discarded neither reads nor has an open socket.
LEMMA DiscardedFacts ==
    ASSUME NEW cs \in [Conns -> ConnType], NEW c \in Conns
    PROVE  /\ Discarded(cs, c) \in [Conns -> ConnType]
           /\ \A d \in Conns : d # c => Discarded(cs, c)[d] = cs[d]
           /\ LET n == Discarded(cs, c)[c] IN
                /\ n.closed /\ ~n.up /\ n.answer = cs[c].answer
                /\ n.draining = cs[c].draining /\ n.reading # "on"
                /\ n.reading = IF cs[c].reading = "on" THEN "done"
                               ELSE cs[c].reading
                /\ n.stage = IF cs[c].stage = "serving" THEN "serving"
                             ELSE "spent"
<1> DEFINE k == Cancelled(cs, {c})
<1>1. /\ k \in [Conns -> ConnType] /\ \A d \in Conns : d # c => k[d] = cs[d]
      /\ k[c].closed /\ k[c].stage = cs[c].stage /\ k[c].answer = cs[c].answer
      /\ k[c].draining = cs[c].draining
      /\ k[c].reading = IF cs[c].reading = "on" THEN "done" ELSE cs[c].reading
  BY CancelledFacts
<1> HIDE DEF k
<1>2. Discarded(cs, c) = Dropped(k, {c})
  BY DEF Discarded, k
<1>3. QED
  BY <1>1, <1>2, DroppedFacts

\* Zero stands for no connection.
LEMMA Numbered ==
    ASSUME HandoffInv
    PROVE  /\ 0 \notin Conns
           /\ current # 0 => current \in Conns
           /\ sup.conn # 0 => sup.conn \in Conns
           /\ sup.pc \in Attached => sup.conn \in Conns
           /\ \A o \in Conns : hand[o].stage \in {"dial", "hello"} =>
                 hand[o].fresh \in Conns
           /\ conn \in [Conns -> ConnType] /\ hand \in [Conns -> HandType]
           /\ drained \subseteq Conns /\ opened \in 0..MaxConns
           /\ \A c \in Conns : c > opened =>
                 /\ c # sup.conn /\ c # current
                 /\ \A o \in Conns : hand[o].stage \in {"dial", "hello"} =>
                       c # hand[o].fresh
<1>1. /\ current \in 0..MaxConns /\ sup.conn \in 0..MaxConns
      /\ conn \in [Conns -> ConnType] /\ hand \in [Conns -> HandType]
      /\ drained \subseteq Conns /\ opened \in 0..MaxConns
  BY DEF HandoffInv, HandoffTypes
<1>2. \A o \in Conns : hand[o].fresh \in 0..MaxConns
  BY <1>1 DEF HandType
<1>3. /\ current <= opened /\ sup.conn <= opened
      /\ sup.pc \in Attached => sup.conn # 0
      /\ \A o \in Conns : hand[o].stage \in {"dial", "hello"} =>
            hand[o].fresh # 0 /\ hand[o].fresh <= opened
  BY DEF HandoffInv, NumberInv
<1>4. 0 \notin Conns /\ \A n \in 0..MaxConns : n # 0 => n \in Conns
  BY HandoffAssumption DEF Conns
<1>5. \A n \in 0..MaxConns, c \in Conns : n <= opened /\ c > opened => c # n
  BY <1>1, HandoffAssumption DEF Conns
<1>6. QED
  BY <1>1, <1>2, <1>3, <1>4, <1>5

\* The supervisor's dial succeeded.
LEMMA SupDialedKeeps == HandoffInv /\ SupDialed => HandoffInv'
<1> SUFFICES ASSUME HandoffInv, SupDialed PROVE HandoffInv'
  OBVIOUS
<1> USE DEF taskVars, poolVars, statVars, endVars
<1>1. /\ sup.pc = "dial" /\ sup.conn \in Conns /\ sup.conn <= opened
      /\ conn[sup.conn].reading = "off" /\ ~conn[sup.conn].draining
      /\ ~strayed => current = sup.conn
      /\ ~strayed /\ closer.pc = "closing" => sup.conn \in closer.closing
  BY Numbered DEF Served, OneHandoff, SupDialed, HandoffInv, HandoffTypes, NumberInv, Attached, Conns
<1>2. /\ conn' \in [Conns -> ConnType]
      /\ \A d \in Conns : d # sup.conn => conn'[d] = conn[d]
      /\ conn'[sup.conn].reading = "on" /\ conn'[sup.conn].up
      /\ conn'[sup.conn].stage = "hello"
      /\ conn'[sup.conn].closed = conn[sup.conn].closed
      /\ ~conn'[sup.conn].draining
  BY <1>1, Numbered, DialedFacts DEF SupDialed
<1>3. /\ sup'.pc = "hello" /\ sup'.conn = sup.conn
      /\ UNCHANGED <<hand, owner, inFlight, authError, current, drained, wake,
                     opened, status, told, stop, closer, taken, strayed>>
  BY DEF SupDialed, HandoffInv, HandoffTypes
<1>4. HandoffTypes'
  BY <1>2, <1>3 DEF SupDialed, HandoffInv, HandoffTypes
<1>5. NumberInv'
  BY <1>1, <1>2, <1>3, Numbered DEF HandoffInv, NumberInv, Attached
<1>6. Building' = Building /\ OneHandoff'
  BY <1>1, <1>2, <1>3 DEF HandoffInv, OneHandoff, Building
<1>7. Served'
  BY <1>1, <1>2, <1>3, <1>6 DEF HandoffInv, Served, Greeting
<1>8. TakenInv'
  BY <1>1, <1>2, <1>3, Numbered DEF HandoffInv, TakenInv, Greeting
<1>9. ToldInv'
  BY <1>1, <1>2, <1>3, Numbered DEF HandoffInv, ToldInv
<1>10. OpenInv'
  BY <1>1, <1>2, <1>3, <1>6 DEF HandoffInv, OpenInv, Attached, Greeting
<1>11. QED
  BY <1>4, <1>5, <1>6, <1>7, <1>8, <1>9, <1>10 DEF HandoffInv

\* Numbers are given out one by one.
LEMMA NextNumber ==
    ASSUME HandoffInv, opened < MaxConns
    PROVE  /\ opened + 1 \in Conns /\ opened + 1 # 0
           /\ opened + 1 \in 0..MaxConns /\ opened + 1 > opened
           /\ \A n \in 0..MaxConns : n <= opened => n <= opened + 1
           /\ \A c \in Conns : c > opened + 1 => c > opened /\ c # opened + 1
<1>1. opened \in 0..MaxConns
  BY Numbered
<1>2. QED
  BY <1>1, HandoffAssumption DEF Conns

\* The start of _run_once, from idle or after a backoff.
LEMMA ColdKeeps ==
    ASSUME HandoffInv, ColdConnect, ~stop, sup.pc \in {"idle", "pause"},
           status' \in {"idle", "connecting", "connected", "reconnecting",
                        "closed", "superseded"},
           told = status => told' = status',
           UNCHANGED <<hand, owner, inFlight, authError, drained, wake, stop,
                       closer, taken, strayed>>
    PROVE  HandoffInv'
<1> DEFINE n == opened + 1
<1>1. /\ opened < MaxConns /\ opened' = n /\ current' = n /\ conn' = Opened(conn)
      /\ sup' = [sup EXCEPT !.pc = "dial", !.conn = n]
  BY DEF ColdConnect
<1>2. /\ n \in Conns /\ n # 0 /\ n \in 0..MaxConns /\ n > opened /\ n <= n
      /\ \A m \in 0..MaxConns : m <= opened => m <= n
      /\ \A c \in Conns : c > n => c > opened /\ c # n
  <2>1. n <= n
    BY Numbered, HandoffAssumption
  <2>2. QED
    BY <1>1, <2>1, NextNumber
<1> HIDE DEF n
<1>3. /\ conn' \in [Conns -> ConnType]
      /\ \A d \in Conns : d # n => conn'[d] = conn[d]
      /\ conn'[n].closed = conn[n].closed /\ conn'[n].stage = "dial"
      /\ conn'[n].reading = conn[n].reading /\ conn'[n].up = conn[n].up
      /\ conn'[n].draining = conn[n].draining
  BY <1>1, Numbered, OpenedFacts DEF n
<1>4. /\ sup'.pc = "dial" /\ sup'.conn = n /\ sup'.leaving = sup.leaving
  BY <1>1 DEF HandoffInv, HandoffTypes
<1>5. /\ conn[n].reading = "off" /\ Building' = Building
      /\ \A o \in Conns : hand[o].stage \in {"dial", "hello"} => hand[o].fresh # n
      /\ closer.pc = "idle"
      /\ ~strayed => /\ Building = {} /\ ~taken
                     /\ \A c \in Conns : conn[c].stage # "serving" /\ ~conn[c].up
                     /\ \A o, c \in Conns : ~Greeting(o, c)
  <2>1. ~strayed => Building = {}
    BY DEF HandoffInv, Served
  <2>2. ~strayed => \A o, c \in Conns : ~Greeting(o, c)
    BY <2>1 DEF Greeting, Building
  <2>3. QED
    BY <1>2, <2>1, <2>2, Numbered
    DEF HandoffInv, NumberInv, OneHandoff, Served, TakenInv, OpenInv, Building
<1>6. HandoffTypes'
  <2>1. sup' \in [pc : {"idle", "dial", "hello", "watch", "await", "teardown",
                        "pause", "ended"},
                  conn : 0..MaxConns, outcome : Outcomes,
                  awaited : 0..MaxConns, leaving : SUBSET Conns]
    BY <1>1, <1>2 DEF HandoffInv, HandoffTypes
  <2>2. QED
    BY <1>1, <1>2, <1>3, <2>1 DEF HandoffInv, HandoffTypes
<1>7. NumberInv'
  <2>1. \A c \in Conns : c > n => conn'[c].reading = "off"
    BY <1>2, <1>3 DEF HandoffInv, NumberInv
  <2>2. \A o \in Conns : hand[o].stage \in {"dial", "hello"} =>
            hand[o].fresh # 0 /\ hand[o].fresh <= n
    <3>1. \A o \in Conns : hand[o].fresh \in 0..MaxConns
      BY Numbered DEF HandType
    <3>2. QED
      BY <1>2, <3>1 DEF HandoffInv, NumberInv
  <2>3. \A c \in Conns : conn'[c].draining =>
            conn'[c].reading = "done" /\ conn'[c].closed
    BY <1>3, <1>5 DEF HandoffInv, NumberInv
  <2>4. QED
    BY <1>1, <1>2, <1>3, <1>4, <1>5, <2>1, <2>2, <2>3, Numbered
    DEF HandoffInv, NumberInv, Attached
<1>8. OneHandoff'
  BY <1>3, <1>5 DEF HandoffInv, OneHandoff, Building
<1>9. Served'
  BY <1>1, <1>2, <1>3, <1>4, <1>5 DEF HandoffInv, Served, Greeting
<1>10. TakenInv'
  BY <1>5 DEF HandoffInv, TakenInv
<1>11. ToldInv'
  BY <1>4 DEF HandoffInv, ToldInv
<1>12. OpenInv'
  BY <1>3, <1>4, <1>5 DEF HandoffInv, OpenInv
<1>13. QED
  BY <1>6, <1>7, <1>8, <1>9, <1>10, <1>11, <1>12 DEF HandoffInv

\* serve_forever finds that it has stopped before the next attempt.
LEMMA StoppedKeeps ==
    ASSUME HandoffInv, stop, sup.pc \in {"idle", "pause"},
           sup' = [sup EXCEPT !.pc = "ended"],
           status' \in {"idle", "connecting", "connected", "reconnecting",
                        "closed", "superseded"},
           told = status => told' = status',
           UNCHANGED <<conn, hand, current, owner, inFlight, authError, drained,
                       wake, opened, stop, closer, taken, strayed>>
    PROVE  HandoffInv'
<1>1. sup'.pc = "ended" /\ sup'.conn = sup.conn /\ sup'.leaving = sup.leaving
  BY DEF HandoffInv, HandoffTypes
<1>2. HandoffTypes'
  BY DEF HandoffInv, HandoffTypes
<1>3. NumberInv'
  BY <1>1 DEF HandoffInv, NumberInv, Attached
<1>4. Building' = Building /\ OneHandoff'
  BY DEF HandoffInv, OneHandoff, Building
<1>5. Served'
  BY <1>1, <1>4 DEF HandoffInv, Served, Greeting
<1>6. TakenInv' /\ ToldInv'
  BY <1>1, <1>4 DEF HandoffInv, TakenInv, ToldInv, Greeting
<1>7. OpenInv'
  BY <1>1, <1>4 DEF HandoffInv, OpenInv, Attached, Greeting
<1>8. QED
  BY <1>2, <1>3, <1>4, <1>5, <1>6, <1>7 DEF HandoffInv

\* What _notify_status does to the status and to the callback's.
LEMMA Notified ==
    ASSUME NEW s, NotifyStatus(s)
    PROVE  status' = s /\ (told = status => told' = status')
BY DEF NotifyStatus

\* serve_forever starts.
LEMMA SupStartKeeps == HandoffInv /\ SupStart => HandoffInv'
<1> SUFFICES ASSUME HandoffInv, SupStart PROVE HandoffInv'
  OBVIOUS
<1> USE DEF taskVars, endVars
<1>1. CASE stop
  <2>1. status' = "closed" /\ (told = status => told' = status')
    BY <1>1, Notified DEF SupStart
  <2>2. QED
    BY <1>1, <2>1, StoppedKeeps DEF SupStart
<1>2. CASE ~stop
  <2>1. status' = "connecting" /\ (told = status => told' = status')
    BY <1>2, Notified DEF SupStart
  <2>2. QED
    BY <1>2, <2>1, ColdKeeps DEF SupStart
<1>3. QED
  BY <1>1, <1>2

\* The backoff is over.
LEMMA SupResumeKeeps == HandoffInv /\ SupResume => HandoffInv'
<1> SUFFICES ASSUME HandoffInv, SupResume PROVE HandoffInv'
  OBVIOUS
<1>1. status \in {"idle", "connecting", "connected", "reconnecting", "closed",
                  "superseded"}
  BY DEF HandoffInv, HandoffTypes
<1>2. QED
  BY <1>1, ColdKeeps, StoppedKeeps DEF SupResume, taskVars, statVars, endVars

\* The hello succeeded.
LEMMA SupServesKeeps == HandoffInv /\ SupServes => HandoffInv'
<1> SUFFICES ASSUME HandoffInv, SupServes PROVE HandoffInv'
  OBVIOUS
<1> USE DEF taskVars, poolVars, endVars
<1>1. /\ sup.pc = "hello" /\ sup.conn \in Conns
      /\ ~strayed => current = sup.conn
  BY Numbered DEF SupServes, HandoffInv, Served, Attached
<1>2. /\ conn' \in [Conns -> ConnType]
      /\ \A d \in Conns :
            /\ d # sup.conn => conn'[d].stage = conn[d].stage
            /\ conn'[d].reading = conn[d].reading
            /\ conn'[d].up = conn[d].up /\ conn'[d].closed = conn[d].closed
            /\ conn'[d].draining = conn[d].draining
  <2>1. conn \in [Conns -> ConnType] /\ conn' = StartServing(conn, sup.conn)
    BY Numbered DEF SupServes
  <2>2. QED
    BY <1>1, <2>1, StartFacts
<1>3. /\ sup'.pc = "watch" /\ sup'.conn = sup.conn
      /\ sup'.leaving = sup.leaving /\ wake' = stop
      /\ status' = "connected" /\ told' = "connected"
      /\ UNCHANGED <<hand, owner, inFlight, authError, current, drained, opened,
                     stop, closer, taken, strayed>>
  BY DEF SupServes, HandoffInv, HandoffTypes
<1>4. HandoffTypes'
  BY <1>2, <1>3 DEF SupServes, HandoffInv, HandoffTypes
<1>5. NumberInv'
  BY <1>1, <1>2, <1>3, Numbered DEF HandoffInv, NumberInv, Attached
<1>6. Building' = Building /\ OneHandoff'
  BY <1>2, <1>3 DEF HandoffInv, OneHandoff, Building
<1>7. Served'
  BY <1>1, <1>2, <1>3, <1>6 DEF HandoffInv, Served, Greeting, Successor
<1>8. TakenInv' /\ ToldInv'
  BY <1>1, <1>2, <1>3, Numbered DEF HandoffInv, TakenInv, ToldInv, Greeting
<1>9. OpenInv'
  BY <1>1, <1>2, <1>3, <1>6 DEF HandoffInv, OpenInv, Attached, Greeting
<1>10. QED
  BY <1>4, <1>5, <1>6, <1>7, <1>8, <1>9 DEF HandoffInv

\* The supervisor awaits the handoff.
LEMMA SupAwaitsKeeps == HandoffInv /\ SupAwaits => HandoffInv'
<1> SUFFICES ASSUME HandoffInv, SupAwaits PROVE HandoffInv'
  OBVIOUS
<1> USE DEF taskVars, poolVars, statVars, endVars
<1>1. sup.pc = "watch" /\ ~stop
  BY DEF SupAwaits
<1>2. /\ sup'.pc = "await" /\ sup'.conn = sup.conn
      /\ sup'.leaving = sup.leaving
      /\ UNCHANGED <<conn, hand, owner, inFlight, authError, current, drained,
                     wake, opened, status, told, stop, closer, taken, strayed>>
  BY DEF SupAwaits, HandoffInv, HandoffTypes
<1>3. HandoffTypes'
  BY <1>2 DEF SupAwaits, HandoffInv, HandoffTypes
<1>4. NumberInv'
  BY <1>1, <1>2 DEF HandoffInv, NumberInv, Attached
<1>5. Building' = Building /\ OneHandoff'
  BY <1>2 DEF HandoffInv, OneHandoff, Building
<1>6. Served'
  BY <1>1, <1>2, <1>5 DEF HandoffInv, Served, Greeting, Successor
<1>7. TakenInv' /\ ToldInv'
  BY <1>1, <1>2, <1>5 DEF HandoffInv, TakenInv, ToldInv, Greeting
<1>8. OpenInv'
  BY <1>1, <1>2, <1>5 DEF HandoffInv, OneHandoff, OpenInv, Attached, Greeting
<1>9. QED
  BY <1>3, <1>4, <1>5, <1>6, <1>7, <1>8 DEF HandoffInv

\* The supervisor goes on.
LEMMA SupFollowsKeeps == HandoffInv /\ SupFollows => HandoffInv'
<1> SUFFICES ASSUME HandoffInv, SupFollows PROVE HandoffInv'
  OBVIOUS
<1> USE DEF taskVars, poolVars, statVars, endVars
<1>1. /\ sup.pc \in {"watch", "await"} /\ (stop => sup.pc = "await")
      /\ ~authError
  BY DEF SupFollows, Woken, StopSeen
<1>2. /\ sup'.pc = "watch" /\ sup'.leaving = sup.leaving /\ wake' = stop
      /\ sup'.conn \in {current, sup.conn} \ {0}
      /\ UNCHANGED <<conn, hand, owner, inFlight, authError, current, drained,
                     opened, status, told, stop, closer, taken, strayed>>
  <2>1. sup.conn # 0
    BY <1>1 DEF HandoffInv, NumberInv, Attached
  <2>2. sup'.conn = IF Successor THEN current ELSE sup.conn
    BY DEF SupFollows, HandoffInv, HandoffTypes
  <2>3. QED
    BY <2>1, <2>2 DEF SupFollows, Successor, HandoffInv, HandoffTypes
<1>3. HandoffTypes'
  <2>1. sup' \in [pc : {"idle", "dial", "hello", "watch", "await", "teardown",
                        "pause", "ended"},
                  conn : 0..MaxConns, outcome : Outcomes,
                  awaited : 0..MaxConns, leaving : SUBSET Conns]
    <3>1. 0 \in 0..MaxConns
      BY HandoffAssumption
    <3>2. sup' = [sup EXCEPT !.pc = "watch", !.awaited = 0,
                             !.conn = IF Successor THEN current ELSE sup.conn]
      BY DEF SupFollows, HandoffInv, HandoffTypes
    <3>3. (IF Successor THEN current ELSE sup.conn) \in 0..MaxConns
      BY DEF HandoffInv, HandoffTypes
    <3>4. QED
      BY <3>1, <3>2, <3>3 DEF HandoffInv, HandoffTypes
  <2>2. QED
    BY <1>2, <2>1 DEF HandoffInv, HandoffTypes
<1>4. NumberInv'
  BY <1>1, <1>2 DEF HandoffInv, NumberInv, Attached
<1>5. Building' = Building /\ OneHandoff'
  BY <1>2 DEF HandoffInv, OneHandoff, Building
<1>6. Served'
  BY <1>1, <1>2, <1>5 DEF HandoffInv, Served, Greeting
<1>7. TakenInv' /\ ToldInv'
  BY <1>1, <1>2, <1>5 DEF HandoffInv, TakenInv, ToldInv, Greeting
<1>8. OpenInv'
  BY <1>1, <1>2, <1>5 DEF HandoffInv, OneHandoff, OpenInv, Attached, Greeting
<1>9. QED
  BY <1>3, <1>4, <1>5, <1>6, <1>7, <1>8 DEF HandoffInv

\* The supervisor leaves its connection: the outcome is a timeout, or one that says
\* what a takeover it has seen must be answered with, and no handoff goes on unseen.
LEMMA LeaveKeeps ==
    ASSUME HandoffInv, NEW outcome \in Outcomes \ {"none"}, Leave(outcome), sup.pc \in Attached,
           taken' = (taken \/ outcome = "superseded"),
           outcome = "superseded" => taken \/ sup.pc = "hello",
           taken => outcome # "lost",
           sup.pc = "watch" /\ ~stop => ~HandoffAwaited,
           sup.pc \in {"watch", "await"} /\ ~stop /\ ~strayed => ~Successor
    PROVE  HandoffInv'
<1> USE DEF taskVars, poolVars, statVars, endVars
<1> DEFINE k == Cancelled(conn, ColdConns)
<1>1. /\ sup'.pc = "teardown" /\ sup'.conn = sup.conn /\ sup'.outcome = outcome
      /\ sup'.leaving = ColdConns
      /\ strayed' = (strayed \/ LeftBuilding \/ (taken /\ outcome = "timeout"))
      /\ UNCHANGED <<hand, owner, inFlight, authError, current, drained, wake,
                     opened, status, told, stop, closer>>
  BY DEF Leave, HandoffInv, HandoffTypes
<1>2. /\ k \in [Conns -> ConnType]
      /\ \A d \in Conns : d \notin ColdConns => k[d] = conn[d]
      /\ \A d \in Conns \cap ColdConns :
            /\ k[d].closed /\ k[d].stage = conn[d].stage
            /\ k[d].up = conn[d].up /\ k[d].draining = conn[d].draining
            /\ k[d].reading = IF conn[d].reading = "on" THEN "done"
                              ELSE conn[d].reading
  BY Numbered, CancelledFacts
<1> HIDE DEF k
<1>3. /\ conn' \in [Conns -> ConnType]
      /\ \A d \in Conns :
            /\ conn'[d].up = conn[d].up /\ conn'[d].draining = conn[d].draining
            /\ conn'[d].stage # "serving"
            /\ conn[d].closed \/ d \in ColdConns => conn'[d].closed
            /\ conn'[d].reading = IF conn[d].reading = "on" /\ d \in ColdConns
                                  THEN "done" ELSE conn[d].reading
  <2>1. conn' = IntakesCancelled(k)
    BY DEF Leave, k
  <2>2. QED
    <3>1. /\ conn' \in [Conns -> ConnType]
          /\ \A d \in Conns :
                /\ conn'[d].closed = k[d].closed /\ conn'[d].up = k[d].up
                /\ conn'[d].reading = k[d].reading
                /\ conn'[d].draining = k[d].draining
                /\ conn'[d].stage # "serving"
      BY <1>2, <2>1, IntakeFacts
    <3>2. QED
      BY <1>2, <3>1
<1>4. /\ ~strayed' => ~strayed
      /\ ~strayed' /\ ~stop => Building = {}
      /\ ~strayed' /\ taken => outcome # "timeout"
  <2>1. ~strayed' => ~strayed /\ ~LeftBuilding /\ ~(taken /\ outcome = "timeout")
    BY <1>1
  <2>2. ~stop /\ sup.pc = "watch" => Building = {}
    <3>1. \A o \in Building : inFlight /\ owner = o /\ o # 0
      BY DEF HandoffInv, OneHandoff, Building, Conns
    <3>2. QED
      BY <3>1 DEF HandoffAwaited
  <2>3. QED
    BY <2>1, <2>2 DEF LeftBuilding
<1>5. ~strayed' /\ ~stop =>
        /\ \A o, c \in Conns : ~Greeting(o, c)
        /\ current # 0 => current = sup.conn \/ conn[current].draining
  <2>1. ~strayed' /\ ~stop => \A o, c \in Conns : ~Greeting(o, c)
    BY <1>4 DEF Greeting, Building
  <2>2. ~strayed' /\ ~stop /\ current # 0 =>
            current = sup.conn \/ conn[current].draining
    BY <1>4 DEF HandoffInv, Served, Successor, Attached
  <2>3. QED
    BY <2>1, <2>2
<1>6. HandoffTypes'
  <2>1. ColdConns \in SUBSET Conns
    BY Numbered DEF ColdConns
  <2>2. 0 \in 0..MaxConns
    BY HandoffAssumption
  <2>3. sup' \in [pc : {"idle", "dial", "hello", "watch", "await", "teardown",
                        "pause", "ended"},
                  conn : 0..MaxConns, outcome : Outcomes,
                  awaited : 0..MaxConns, leaving : SUBSET Conns]
    BY <2>1, <2>2 DEF Leave, HandoffInv, HandoffTypes
  <2>4. taken' \in BOOLEAN /\ strayed' \in BOOLEAN
    BY <1>1
  <2>5. QED
    BY <1>1, <1>3, <2>3, <2>4 DEF HandoffInv, HandoffTypes
<1>7. NumberInv'
  BY <1>1, <1>3, Numbered DEF HandoffInv, NumberInv, Attached
<1>8. Building' = Building /\ OneHandoff'
  BY <1>1, <1>3 DEF HandoffInv, OneHandoff, Building
<1>9. Served'
  <2>1. ~strayed' /\ ~stop => \A c \in Conns : conn'[c].reading # "on"
    <3>1. SUFFICES ASSUME ~strayed', ~stop, NEW c \in Conns, conn[c].reading = "on"
                   PROVE  c \in ColdConns
      BY <1>3
    <3>2. c = current
      BY <1>4, <1>5, <3>1 DEF HandoffInv, Served
    <3>3. current # 0 /\ ~conn[c].draining
      BY <3>1, <3>2, Numbered DEF HandoffInv, NumberInv
    <3>4. QED
      BY <1>5, <3>1, <3>2, <3>3 DEF ColdConns
  <2>2. QED
    BY <1>1, <1>3, <1>4, <1>8, <2>1 DEF HandoffInv, Served
<1>10. TakenInv'
  <2>1. ASSUME ~strayed', ~stop, taken', current # 0 PROVE conn'[current].closed
    BY <1>3, <1>4, <1>5, <2>1, Numbered
    DEF HandoffInv, NumberInv, TakenInv, ColdConns
  <2>2. ASSUME ~strayed', ~stop, taken'
        PROVE  outcome \in {"superseded", "error", "auth"}
    BY <1>4, <2>2 DEF Outcomes
  <2>3. ASSUME ~strayed', ~stop
        PROVE  \A o \in Conns : hand[o].stage \notin {"begun", "pause", "dial"}
    BY <1>4, <2>3 DEF Building
  <2>4. QED
    BY <1>1, <1>4, <1>5, <2>1, <2>2, <2>3 DEF TakenInv, Greeting
<1>11. ToldInv'
  BY <1>1, <1>4 DEF HandoffInv, ToldInv
<1>12. OpenInv'
  <2>1. ASSUME ~strayed', ~stop, NEW c \in Conns, conn[c].up PROVE c \in ColdConns
    BY <1>4, <1>5, <2>1, Numbered DEF HandoffInv, OpenInv, ColdConns, Greeting
  <2>2. ASSUME ~strayed', NEW c \in Conns, conn[c].up, c = sup.conn
        PROVE  c \in ColdConns
    BY <2>2 DEF ColdConns
  <2>3. QED
    BY <1>1, <1>3, <1>4, <1>8, <2>1, <2>2
    DEF HandoffInv, OpenInv, Attached, Greeting
<1>13. QED
  BY <1>6, <1>7, <1>8, <1>9, <1>10, <1>11, <1>12 DEF HandoffInv

\* The supervisor's dial failed.
LEMMA SupDialFailsKeeps == HandoffInv /\ SupDialFails => HandoffInv'
<1> SUFFICES ASSUME HandoffInv, SupDialFails PROVE HandoffInv'
  OBVIOUS
<1>1. PICK outcome \in {"error", "timeout"} : Leave(outcome)
  BY DEF SupDialFails
<1>2. sup.pc = "dial" /\ taken' = taken
  BY DEF SupDialFails
<1>3. taken \in BOOLEAN
  BY DEF HandoffInv, HandoffTypes
<1>4. QED
  BY <1>1, <1>2, <1>3, LeaveKeeps DEF Attached, Outcomes

\* The supervisor's hello failed.
LEMMA SupHelloFailsKeeps == HandoffInv /\ SupHelloFails => HandoffInv'
<1> SUFFICES ASSUME HandoffInv, SupHelloFails PROVE HandoffInv'
  OBVIOUS
<1>1. PICK outcome \in HelloFailures(sup.conn) :
          Leave(outcome) /\ taken' = (taken \/ outcome = "superseded")
  BY DEF SupHelloFails
<1>2. sup.pc = "hello" /\ outcome \in {"auth", "superseded", "error", "timeout"}
  BY <1>1 DEF SupHelloFails, HelloFailures
<1>3. QED
  BY <1>1, <1>2, LeaveKeeps DEF Attached, Outcomes

\* _run_once ends: what it leaves has no successor.
LEMMA SupLeavesKeeps == HandoffInv /\ SupLeaves => HandoffInv'
<1> SUFFICES ASSUME HandoffInv, SupLeaves PROVE HandoffInv'
  OBVIOUS
<1> DEFINE outcome == CASE ~StopSeen /\ authError -> "auth"
                        [] taken                  -> "superseded"
                        [] OTHER                  -> "lost"
<1>1. /\ Leave(outcome) /\ taken' = taken /\ Woken
      /\ StopSeen \/ authError \/ (~Successor /\ conn[sup.conn].reading = "done")
  BY DEF SupLeaves
<1>2. /\ outcome \in {"auth", "superseded", "lost"}
      /\ outcome = "superseded" => taken
      /\ taken => outcome # "lost"
  OBVIOUS
<1> HIDE DEF outcome
<1>3. /\ sup.pc \in {"watch", "await"}
      /\ sup.pc = "watch" /\ ~stop => ~HandoffAwaited
  BY <1>1 DEF Woken
<1>4. taken' = (taken \/ outcome = "superseded")
  BY <1>1, <1>2 DEF HandoffInv, HandoffTypes
<1>5. ~strayed /\ ~stop => ~Successor
  BY <1>1, <1>3 DEF StopSeen, HandoffInv, Served
<1>6. QED
  BY <1>1, <1>2, <1>3, <1>4, <1>5, LeaveKeeps DEF Attached, Outcomes

\* The connections are torn down.
LEMMA SupClosedKeeps == HandoffInv /\ SupClosed => HandoffInv'
<1> SUFFICES ASSUME HandoffInv, SupClosed PROVE HandoffInv'
  OBVIOUS
<1> USE DEF taskVars, endVars
<1>1. /\ sup.pc = "teardown" /\ drained' = {} /\ current' \in {0, current}
      /\ conn' = Dropped(conn, sup.leaving) /\ NotifyStatus(ServeVerdict)
      /\ UNCHANGED <<hand, owner, inFlight, authError, wake, opened, stop,
                     closer, taken, strayed>>
  BY DEF SupClosed
<1>2. /\ conn' \in [Conns -> ConnType]
      /\ \A d \in Conns :
            /\ conn'[d].up => conn[d].up /\ d \notin sup.leaving
            /\ conn'[d].draining = conn[d].draining
            /\ conn'[d].reading = conn[d].reading
            /\ conn[d].closed => conn'[d].closed
            /\ conn'[d].stage = "serving" => conn[d].stage = "serving"
  BY <1>1, Numbered, DroppedFacts
<1>3. /\ sup'.conn = sup.conn /\ sup'.leaving = {}
      /\ sup'.pc = IF ServeVerdict = "reconnecting" THEN "pause" ELSE "ended"
      /\ ServeVerdict \in {"superseded", "closed", "reconnecting"}
      /\ status' = ServeVerdict /\ (told = status => told' = status')
  <2>1. ServeVerdict \in {"superseded", "closed", "reconnecting"}
    BY DEF ServeVerdict
  <2>2. status' = ServeVerdict /\ (told = status => told' = status')
    BY <1>1, Notified
  <2>3. /\ sup'.conn = sup.conn /\ sup'.leaving = {}
        /\ sup'.pc = IF ServeVerdict = "reconnecting" THEN "pause" ELSE "ended"
    BY DEF SupClosed, HandoffInv, HandoffTypes
  <2>4. QED
    BY <2>1, <2>2, <2>3
<1>4. ServeVerdict = "reconnecting" =>
        /\ ~stop
        /\ sup.outcome \notin {"superseded", "auth"}
        /\ ~(sup.outcome = "error" /\ taken)
  BY DEF ServeVerdict
<1>5. /\ ~strayed /\ ~stop => Building = {} /\ \A o, c \in Conns : ~Greeting(o, c)
      /\ sup'.pc \in {"pause", "ended"} /\ Building' = Building
  <2>1. ~strayed /\ ~stop => Building = {}
    BY <1>1 DEF HandoffInv, Served
  <2>2. ~strayed /\ ~stop => \A o, c \in Conns : ~Greeting(o, c)
    BY <2>1 DEF Greeting, Building
  <2>3. QED
    BY <1>1, <1>3, <2>1, <2>2 DEF Building
<1>6. HandoffTypes'
  <2>1. 0 \in 0..MaxConns
    BY HandoffAssumption
  <2>2. sup' \in [pc : {"idle", "dial", "hello", "watch", "await", "teardown",
                        "pause", "ended"},
                  conn : 0..MaxConns, outcome : Outcomes,
                  awaited : 0..MaxConns, leaving : SUBSET Conns]
    BY DEF SupClosed, HandoffInv, HandoffTypes, Outcomes
  <2>3. current' \in 0..MaxConns
    BY <1>1, <2>1 DEF HandoffInv, HandoffTypes
  <2>4. QED
    BY <1>1, <1>2, <1>3, <2>2, <2>3 DEF HandoffInv, HandoffTypes
<1>7. NumberInv'
  <2>1. current' <= opened
    BY <1>1, HandoffAssumption DEF HandoffInv, HandoffTypes, NumberInv
  <2>2. QED
    BY <1>1, <1>2, <1>3, <1>5, <2>1, Numbered DEF HandoffInv, NumberInv, Attached
<1>8. OneHandoff'
  BY <1>1, <1>2, <1>5 DEF HandoffInv, OneHandoff, Building
<1>9. Served'
  BY <1>1, <1>2, <1>3, <1>5 DEF HandoffInv, Served, Greeting
<1>10. TakenInv'
  <2>1. ~strayed /\ ~stop /\ taken => sup'.pc = "ended"
    BY <1>1, <1>3, <1>4 DEF HandoffInv, TakenInv
  <2>2. QED
    BY <1>1, <1>2, <1>5, <2>1, Numbered DEF HandoffInv, TakenInv, Greeting
<1>11. ToldInv'
  BY <1>1, <1>3, <1>5 DEF HandoffInv, ToldInv
<1>12. OpenInv'
  <2>1. ~strayed => /\ ~stop => \A c \in Conns : ~conn'[c].up
                    /\ closer.pc = "done" => \A c \in Conns : ~conn'[c].up
    BY <1>1, <1>2 DEF HandoffInv, OpenInv
  <2>2. sup'.pc = "pause" => ~stop
    BY <1>3, <1>4
  <2>3. ~strayed /\ closer.pc = "closing" => \A c \in Conns : conn'[c].up =>
            c \in closer.closing \/ \E o \in Conns : Greeting(o, c)
    BY <1>1, <1>2 DEF HandoffInv, OpenInv
  <2>4. QED
    BY <1>1, <1>3, <1>5, <2>1, <2>2, <2>3 DEF OpenInv, Attached, Greeting
<1>13. QED
  BY <1>6, <1>7, <1>8, <1>9, <1>10, <1>11, <1>12 DEF HandoffInv

\* Only the building handoff greets, and while nothing has strayed it replaces the
\* active connection, whose reader has ended.
LEMMA Builder ==
    ASSUME HandoffInv
    PROVE  /\ \A o \in Building :
                /\ o \in Conns /\ o # 0 /\ inFlight /\ owner = o /\ ~authError
                /\ conn[o].draining /\ conn[o].closed /\ conn[o].reading = "done"
                /\ ~hand[o].cancelled => ~stop
                /\ ~strayed /\ ~stop => /\ current = o /\ o \in drained
                                        /\ sup.pc \in {"hello", "watch", "await"}
           /\ \A o, p \in Building : o = p
           /\ \A o, c \in Conns : Greeting(o, c) => o \in Building
<1>1. \A o \in Conns : o # 0
  BY DEF Conns
<1>2. Building \subseteq Conns
  BY DEF Building
<1>3. \A o, c \in Conns : Greeting(o, c) => o \in Building
  BY DEF Greeting, Building
<1>4. QED
  BY <1>1, <1>2, <1>3 DEF HandoffInv, NumberInv, OneHandoff, Served

\* A step of a connection's reader or of its intakes: no stage, no open socket and no
\* reader is new, and the status changes only as the loss of the session changes it.
LEMMA ConnectionKeeps ==
    ASSUME HandoffInv, conn' \in [Conns -> ConnType],
           \A d \in Conns :
               /\ conn'[d].up => conn[d].up
               /\ conn'[d].draining = conn[d].draining
               /\ conn'[d].stage = "serving" => conn[d].stage = "serving"
               /\ conn'[d].reading = "on" => conn[d].reading = "on"
               /\ conn[d].reading # "on" => conn'[d].reading = conn[d].reading
               /\ conn[d].closed => conn'[d].closed,
           UNCHANGED <<hand, owner, inFlight, authError, current, drained, sup,
                       wake, opened, stop, closer, strayed>>,
           status' \in {"idle", "connecting", "connected", "reconnecting",
                        "closed", "superseded"},
           told = status => told' = status',
           status' = status \/
               (current # 0 /\ conn'[current].closed /\ ~conn[current].draining),
           taken' \in BOOLEAN,
           ~strayed /\ ~stop /\ taken' => taken \/
               /\ sup.pc \in {"hello", "watch", "await"}
               /\ current # 0 => conn'[current].closed
               /\ \A o \in Building : \E c \in Conns :
                      Greeting(o, c) /\ conn'[c].closed
    PROVE  HandoffInv'
<1>1. HandoffTypes'
  BY DEF HandoffInv, HandoffTypes
<1>2. NumberInv'
  BY Numbered DEF HandoffInv, NumberInv, Attached
<1>3. Building' = Building /\ OneHandoff'
  BY DEF HandoffInv, OneHandoff, Building
<1>4. Served'
  <2>1. Successor' = Successor
    BY Numbered DEF Successor
  <2>2. QED
    BY <1>3, <2>1 DEF HandoffInv, Served, Greeting
<1>5. TakenInv'
  <2>1. CASE taken
    BY <2>1, Numbered DEF HandoffInv, TakenInv, Greeting
  <2>2. CASE ~taken
    <3>1. SUFFICES ASSUME ~strayed, ~stop, taken' PROVE TakenInv'
      BY DEF TakenInv
    <3>2. \A o \in Building : hand[o].stage = "hello" /\ hand[o].fresh \in Conns
                                  /\ conn'[hand[o].fresh].closed
      BY <2>2, <3>1 DEF Greeting
    <3>3. \A o \in Conns : hand[o].stage \notin {"begun", "pause", "dial"}
      BY <3>2 DEF Building
    <3>4. \A o, c \in Conns : Greeting(o, c) => conn'[c].closed
      BY <3>2, Builder DEF Greeting
    <3>5. QED
      BY <2>2, <3>1, <3>3, <3>4 DEF TakenInv, Greeting
  <2>3. QED
    BY <2>1, <2>2
<1>6. ToldInv'
  <2>1. ~strayed /\ ~stop /\ current # 0 /\ ~conn[current].draining => Building = {}
    BY Builder
  <2>2. QED
    BY <1>3, <2>1, Numbered DEF HandoffInv, ToldInv
<1>7. OpenInv'
  BY <1>3 DEF HandoffInv, OpenInv, Attached, Greeting
<1>8. QED
  BY <1>1, <1>2, <1>3, <1>4, <1>5, <1>6, <1>7 DEF HandoffInv

\* What _enter_reconnecting does to the status.
LEMMA Entered ==
    ASSUME HandoffInv, NEW c \in Conns, EnterReconnecting(conn, c)
    PROVE  /\ status' \in {"idle", "connecting", "connected", "reconnecting",
                           "closed", "superseded"}
           /\ told = status => told' = status'
           /\ status' = status \/ (current = c /\ current # 0 /\ ~conn[c].draining)
<1>1. CASE SessionLost(conn, c)
  <2>1. status' = "reconnecting" /\ (told = status => told' = status')
    BY <1>1, Notified DEF EnterReconnecting
  <2>2. QED
    BY <1>1, <2>1, Numbered DEF SessionLost
<1>2. CASE ~SessionLost(conn, c)
  BY <1>2 DEF EnterReconnecting, statVars, HandoffInv, HandoffTypes
<1>3. QED
  BY <1>1, <1>2

\* The edge answers a hello.
LEMMA HelloAnsweredKeeps ==
    ASSUME HandoffInv, NEW c \in Conns, HelloAnswered(c) PROVE HandoffInv'
<1> USE DEF taskVars, poolVars, supVars, statVars, endVars
<1>1. PICK a \in {"ok", "auth", "superseded"} :
          conn' = [conn EXCEPT ![c].answer = a]
  BY DEF HelloAnswered
<1>2. /\ conn' \in [Conns -> ConnType]
      /\ \A d \in Conns :
            /\ conn'[d].up = conn[d].up /\ conn'[d].stage = conn[d].stage
            /\ conn'[d].draining = conn[d].draining
            /\ conn'[d].reading = conn[d].reading
            /\ conn'[d].closed = conn[d].closed
  BY <1>1, Numbered DEF ConnType
<1>3. /\ status \in {"idle", "connecting", "connected", "reconnecting", "closed",
                     "superseded"}
      /\ taken \in BOOLEAN
  BY DEF HandoffInv, HandoffTypes
<1>4. QED
  BY <1>2, <1>3, ConnectionKeeps DEF HelloAnswered

\* A reader ends.
LEMMA ReadEndsKeeps ==
    ASSUME HandoffInv, NEW c \in Conns, ReadEnds(c) PROVE HandoffInv'
<1> USE DEF taskVars, poolVars, supVars, endVars
<1>1. conn[c].reading = "on" /\ conn' = Read(conn, c) /\ EnterReconnecting(conn, c)
  BY DEF ReadEnds
<1>2. /\ conn' \in [Conns -> ConnType] /\ conn'[c].closed
      /\ \A d \in Conns :
            /\ conn'[d].up = conn[d].up /\ conn'[d].stage = conn[d].stage
            /\ conn'[d].draining = conn[d].draining
            /\ conn'[d].reading = "on" => conn[d].reading = "on"
            /\ conn[d].reading # "on" => conn'[d].reading = conn[d].reading
            /\ conn[d].closed => conn'[d].closed
  BY <1>1, Numbered, ReadFacts
<1>3. taken' = taken /\ taken \in BOOLEAN
  BY DEF ReadEnds, HandoffInv, HandoffTypes
<1>4. /\ status' \in {"idle", "connecting", "connected", "reconnecting",
                      "closed", "superseded"}
      /\ told = status => told' = status'
      /\ status' = status \/
             (current # 0 /\ conn'[current].closed /\ ~conn[current].draining)
  BY <1>1, <1>2, Entered
<1>5. QED
  BY <1>2, <1>3, <1>4, ConnectionKeeps DEF ReadEnds

\* A connection is forced down.
LEMMA ForceDownKeeps ==
    ASSUME HandoffInv, NEW c \in Conns, ForceDown(c) PROVE HandoffInv'
<1> USE DEF taskVars, poolVars, supVars, endVars
<1>1. /\ conn' = Dropped(conn, {c}) /\ EnterReconnecting(conn, c)
      /\ UNCHANGED <<hand, owner, inFlight, authError, current, drained, sup,
                     wake, opened, stop, closer, taken, strayed>>
  BY DEF ForceDown
<1>2. /\ conn' \in [Conns -> ConnType] /\ conn'[c].closed
      /\ \A d \in Conns :
            /\ conn'[d].up => conn[d].up
            /\ conn'[d].stage = "serving" => conn[d].stage = "serving"
            /\ conn'[d].draining = conn[d].draining
            /\ conn'[d].reading = conn[d].reading
            /\ conn[d].closed => conn'[d].closed
  BY <1>1, Numbered, DroppedFacts
<1>3. taken \in BOOLEAN
  BY DEF HandoffInv, HandoffTypes
<1>4. /\ status' \in {"idle", "connecting", "connected", "reconnecting",
                      "closed", "superseded"}
      /\ told = status => told' = status'
      /\ status' = status \/
             (current # 0 /\ conn'[current].closed /\ ~conn[current].draining)
  BY <1>1, <1>2, Entered
<1>5. QED
  BY <1>1, <1>2, <1>3, <1>4, ConnectionKeeps

\* A reader sees the GOAWAY of a takeover: where it reads, nothing else dials.
LEMMA GoawayTakesKeeps ==
    ASSUME HandoffInv, NEW c \in Conns, GoawayTakes(c) PROVE HandoffInv'
<1> USE DEF taskVars, poolVars, supVars, statVars, endVars
<1>1. /\ conn[c].reading = "on" /\ conn' = Read(conn, c)
      /\ taken' = (taken \/ c \notin drained)
  BY DEF GoawayTakes
<1>2. /\ conn' \in [Conns -> ConnType] /\ conn'[c].closed
      /\ \A d \in Conns :
            /\ conn'[d].up = conn[d].up /\ conn'[d].stage = conn[d].stage
            /\ conn'[d].draining = conn[d].draining
            /\ conn'[d].reading = "on" => conn[d].reading = "on"
            /\ conn[d].reading # "on" => conn'[d].reading = conn[d].reading
            /\ conn[d].closed => conn'[d].closed
  <2>1. conn \in [Conns -> ConnType] /\ conn' = Read(conn, c)
    BY <1>1, Numbered
  <2>2. QED
    BY <1>1, <2>1, ReadFacts
<1>3. /\ status \in {"idle", "connecting", "connected", "reconnecting", "closed",
                     "superseded"}
      /\ taken' \in BOOLEAN
  BY <1>1 DEF HandoffInv, HandoffTypes
<1>4. ASSUME ~strayed, ~stop
      PROVE  /\ sup.pc \in {"hello", "watch", "await"}
             /\ current # 0 => conn'[current].closed
             /\ \A o \in Building : \E d \in Conns :
                    Greeting(o, d) /\ conn'[d].closed
  <2>1. CASE c = current /\ sup.pc \in {"hello", "watch", "await"}
    <3>1. Building = {}
      BY <1>1, <1>4, <2>1, Builder
    <3>2. QED
      BY <1>2, <2>1, <3>1
  <2>2. CASE \E o \in Conns : Greeting(o, c)
    <3>1. PICK o \in Conns : Greeting(o, c)
      BY <2>2
    <3>2. o \in Building
      BY <3>1, Builder
    <3>3. QED
      BY <1>2, <1>4, <3>1, <3>2, Builder
  <2>3. QED
    BY <1>1, <1>4, <2>1, <2>2 DEF HandoffInv, Served
<1>5. QED
  BY <1>2, <1>3, <1>4, ConnectionKeeps DEF GoawayTakes

\* An intake is told of a takeover: where one is parked, no handoff builds.
LEMMA IntakeTakesKeeps ==
    ASSUME HandoffInv, NEW c \in Conns, IntakeTakes(c) PROVE HandoffInv'
<1> USE DEF taskVars, poolVars, supVars, statVars, endVars
<1>1. /\ conn[c].stage = "serving" /\ c \notin drained /\ taken' = TRUE
      /\ conn' = Dropped(conn, {c})
  BY DEF IntakeTakes
<1>2. /\ conn' \in [Conns -> ConnType] /\ conn'[c].closed
      /\ \A d \in Conns :
            /\ conn'[d].up => conn[d].up
            /\ conn'[d].stage = "serving" => conn[d].stage = "serving"
            /\ conn'[d].draining = conn[d].draining
            /\ conn'[d].reading = conn[d].reading
            /\ conn[d].closed => conn'[d].closed
  BY <1>1, Numbered, DroppedFacts
<1>3. status \in {"idle", "connecting", "connected", "reconnecting", "closed",
                  "superseded"}
  BY DEF HandoffInv, HandoffTypes
<1>4. ASSUME ~strayed, ~stop
      PROVE  /\ sup.pc \in {"hello", "watch", "await"}
             /\ current # 0 => conn'[current].closed
             /\ Building = {}
  <2>1. sup.pc \in {"watch", "await"} /\ c = current
    BY <1>1, <1>4 DEF HandoffInv, Served
  <2>2. Building = {}
    BY <1>1, <1>4, <2>1, Builder
  <2>3. QED
    BY <1>2, <2>1, <2>2
<1>5. QED
  BY <1>1, <1>2, <1>3, <1>4, ConnectionKeeps DEF IntakeTakes

\* A handoff goes on to another stage.
LEMMA StageSet ==
    ASSUME hand \in [Conns -> HandType], NEW o \in Conns,
           NEW s \in {"none", "begun", "dial", "hello", "pause", "drain", "done"},
           NEW n \in 0..MaxConns,
           hand' = [hand EXCEPT ![o].stage = s, ![o].fresh = n]
    PROVE  /\ hand' \in [Conns -> HandType]
           /\ \A p \in Conns : /\ p # o => hand'[p] = hand[p]
                               /\ hand'[p].cancelled = hand[p].cancelled
           /\ hand'[o].stage = s
<1> DEFINE h == [hand[o] EXCEPT !.stage = s, !.fresh = n]
<1>1. hand[o] \in HandType
  OBVIOUS
<1>2. h \in HandType /\ h.stage = s /\ h.cancelled = hand[o].cancelled
  BY <1>1 DEF HandType
<1>3. hand' = [hand EXCEPT ![o] = h]
  BY <1>1 DEF HandType
<1> HIDE DEF h
<1>4. /\ hand' \in [Conns -> HandType] /\ hand'[o] = h
      /\ \A p \in Conns : p # o => hand'[p] = hand[p]
  BY <1>2, <1>3
<1>5. QED
  BY <1>2, <1>4

\* A handoff begins.
LEMMA GoawayDrainsKeeps ==
    ASSUME HandoffInv, NEW c \in Conns, GoawayDrains(c) PROVE HandoffInv'
<1> USE DEF supVars, endVars
<1> DEFINE k == [conn EXCEPT ![c].draining = TRUE]
<1>1. /\ conn[c].reading = "on" /\ ~stop /\ ~conn[c].draining /\ current = c
      /\ ~inFlight /\ inFlight' = TRUE /\ authError' = FALSE /\ owner' = c
      /\ hand' = [hand EXCEPT ![c].stage = "begun"]
      /\ drained' = drained \cup {c}
      /\ strayed' = (strayed \/ conn[c].closed)
      /\ conn' = Read(k, c) /\ EnterReconnecting(conn', c)
      /\ UNCHANGED <<current, sup, wake, opened, stop, closer, taken>>
  BY DEF GoawayDrains, MayBegin
<1>2. /\ k \in [Conns -> ConnType]
      /\ \A d \in Conns : d # c => k[d] = conn[d]
      /\ k[c].draining /\ k[c].up = conn[c].up /\ k[c].stage = conn[c].stage
  <2>1. conn \in [Conns -> ConnType]
    BY Numbered
  <2>2. QED
    BY <2>1 DEF ConnType
<1> HIDE DEF k
<1>3. /\ conn' \in [Conns -> ConnType]
      /\ \A d \in Conns :
            /\ conn'[d].up = conn[d].up /\ conn'[d].stage = conn[d].stage
            /\ d # c => conn'[d] = conn[d]
      /\ conn'[c].draining /\ conn'[c].closed /\ conn'[c].reading = "done"
  BY <1>1, <1>2, ReadFacts
<1>4. UNCHANGED statVars
  BY <1>1, <1>3 DEF EnterReconnecting, SessionLost
<1>5. Building = {} /\ \A o, d \in Conns : ~Greeting(o, d)
  BY <1>1, Builder
<1>6. /\ hand' \in [Conns -> HandType]
      /\ \A o \in Conns : o # c => hand'[o] = hand[o]
      /\ hand'[c].stage = "begun" /\ hand'[c].cancelled = hand[c].cancelled
  <2> DEFINE h == [hand[c] EXCEPT !.stage = "begun"]
  <2>1. hand \in [Conns -> HandType] /\ hand[c] \in HandType
    BY <1>1, Numbered
  <2>2. h \in HandType /\ h.stage = "begun" /\ h.cancelled = hand[c].cancelled
    BY <2>1 DEF HandType
  <2>3. hand' = [hand EXCEPT ![c] = h]
    BY <1>1, <2>1 DEF HandType
  <2> HIDE DEF h
  <2>4. /\ hand' \in [Conns -> HandType] /\ hand'[c] = h
        /\ \A o \in Conns : o # c => hand'[o] = hand[o]
    BY <1>1, <2>1, <2>2, <2>3
  <2>5. QED
    BY <2>2, <2>4
<1>7. /\ Building' = {c} /\ \A o, d \in Conns : ~Greeting(o, d)'
      /\ closer.pc = "idle" /\ \A o \in Conns : ~hand[o].cancelled
      /\ ~strayed' => ~strayed /\ ~conn[c].closed
  <2>1. Building' = {c}
    BY <1>5, <1>6 DEF Building
  <2>2. \A o, d \in Conns : ~Greeting(o, d)'
    BY <1>5, <1>6 DEF Greeting
  <2>3. QED
    BY <1>1, <2>1, <2>2 DEF HandoffInv, OneHandoff
<1>8. ~strayed => sup.pc \in {"hello", "watch", "await"}
  BY <1>1, <1>5 DEF HandoffInv, Served
<1>9. HandoffTypes'
  BY <1>1, <1>3, <1>4, <1>6, Numbered, ZenonT(30) DEF HandoffInv, HandoffTypes, statVars
<1>10. NumberInv'
  <2>1. \A d \in Conns : d > opened => d # c
    BY <1>1, Numbered
  <2>2. \A o \in Conns : hand'[o].stage \notin {"dial", "hello"}
    BY <1>5, <1>6 DEF Building
  <2>3. sup.pc = "dial" => sup.conn # c
    BY <1>1 DEF HandoffInv, NumberInv
  <2>4. QED
    BY <1>1, <1>3, <2>1, <2>2, <2>3, Numbered DEF HandoffInv, NumberInv, Attached
<1>11. OneHandoff'
  BY <1>1, <1>3, <1>6, <1>7 DEF HandoffInv, OneHandoff
<1>12. Served'
  BY <1>1, <1>3, <1>5, <1>7, <1>8 DEF HandoffInv, Served
<1>13. TakenInv'
  BY <1>1, <1>7, Numbered DEF HandoffInv, TakenInv
<1>14. ToldInv'
  BY <1>1, <1>4, <1>7, Numbered DEF HandoffInv, ToldInv, statVars
<1>15. OpenInv'
  BY <1>1, <1>3, <1>5, <1>7, <1>8 DEF HandoffInv, OpenInv
<1>16. QED
  BY <1>9, <1>10, <1>11, <1>12, <1>13, <1>14, <1>15 DEF HandoffInv

\* A handoff leaves its connection to drain, and closes it.
LEMMA HandDrainsKeeps ==
    ASSUME HandoffInv, NEW o \in Conns, HandDrains(o) PROVE HandoffInv'
<1> USE DEF supVars, statVars, endVars
<1> DEFINE k == Dropped(conn, {o})
<1>1. /\ hand[o].stage = "drain" /\ drained' = drained \ {o}
      /\ conn' = [k EXCEPT ![o].stage = "spent"]
      /\ hand' = [hand EXCEPT ![o].stage = "done"]
      /\ owner' = IF owner = o THEN 0 ELSE owner
      /\ UNCHANGED <<inFlight, authError, current, sup, wake, opened, status,
                     told, stop, closer, taken, strayed>>
  BY DEF HandDrains
<1>2. /\ k \in [Conns -> ConnType]
      /\ \A d \in Conns : d # o => k[d] = conn[d]
      /\ k[o].closed /\ ~k[o].up /\ k[o].reading = conn[o].reading
      /\ k[o].draining = conn[o].draining
  BY Numbered, DroppedFacts
<1> HIDE DEF k
<1>3. /\ conn' \in [Conns -> ConnType]
      /\ \A d \in Conns :
            /\ d # o => conn'[d] = conn[d]
            /\ conn'[d].reading = conn[d].reading
            /\ conn'[d].draining = conn[d].draining
            /\ conn[d].closed => conn'[d].closed
      /\ conn'[o].stage = "spent" /\ ~conn'[o].up
  BY <1>1, <1>2 DEF ConnType
<1>4. /\ hand' \in [Conns -> HandType]
      /\ \A p \in Conns : p # o => hand'[p] = hand[p]
      /\ hand'[o].stage = "done"
  BY <1>1, Numbered DEF HandType
<1>5. /\ Building' = Building /\ o \notin Building
      /\ \A p, d \in Conns : Greeting(p, d)' <=> Greeting(p, d)
  BY <1>1, <1>4 DEF Building, Greeting
<1>6. HandoffTypes'
  <2>1. owner' \in 0..MaxConns
    BY <1>1, HandoffAssumption DEF HandoffInv, HandoffTypes
  <2>2. QED
    BY <1>1, <1>3, <1>4, <2>1 DEF HandoffInv, HandoffTypes
<1>7. NumberInv'
  BY <1>1, <1>3, <1>4, Numbered DEF HandoffInv, NumberInv, Attached
<1>8. OneHandoff'
  <2>1. \A p \in Building : owner' = p
    BY <1>1, <1>5, Builder
  <2>2. QED
    BY <1>1, <1>3, <1>4, <1>5, <2>1 DEF HandoffInv, OneHandoff, Building
<1>9. Served'
  <2>1. Successor' = Successor
    BY <1>1, <1>3, Numbered DEF Successor
  <2>2. QED
    BY <1>1, <1>3, <1>5, <2>1 DEF HandoffInv, Served
<1>10. TakenInv'
  BY <1>1, <1>3, <1>4, <1>5, Numbered DEF HandoffInv, TakenInv
<1>11. ToldInv'
  BY <1>1, <1>3, <1>5, Numbered DEF HandoffInv, ToldInv
<1>12. OpenInv'
  BY <1>1, <1>3, <1>5 DEF HandoffInv, OpenInv
<1>13. QED
  BY <1>6, <1>7, <1>8, <1>9, <1>10, <1>11, <1>12 DEF HandoffInv

\* aclose begins.
LEMMA AcloseBeginsKeeps == HandoffInv /\ AcloseBegins => HandoffInv'
<1> SUFFICES ASSUME HandoffInv, AcloseBegins PROVE HandoffInv'
  OBVIOUS
<1> USE DEF poolVars, supVars, statVars
<1> DEFINE k == Cancelled(conn, Closing)
<1>1. /\ closer.pc = "idle" /\ stop' = TRUE /\ closer'.pc = "closing"
      /\ closer'.closing = Closing /\ closer'.awaited = owner
      /\ conn' = IntakesCancelled(k)
      /\ hand' = [p \in Conns |-> [hand[p] EXCEPT !.cancelled = (p = owner)]]
      /\ UNCHANGED <<owner, inFlight, authError, current, drained, sup, wake,
                     opened, status, told, taken, strayed>>
  BY DEF AcloseBegins
<1>2. /\ k \in [Conns -> ConnType]
      /\ \A d \in Conns :
            /\ k[d].up = conn[d].up /\ k[d].draining = conn[d].draining
            /\ conn[d].closed => k[d].closed
            /\ k[d].reading = "on" => conn[d].reading = "on"
            /\ conn[d].reading # "on" => k[d].reading = conn[d].reading
  BY Numbered, CancelledFacts
<1> HIDE DEF k
<1>3. /\ conn' \in [Conns -> ConnType]
      /\ \A d \in Conns :
            /\ conn'[d].up = conn[d].up /\ conn'[d].draining = conn[d].draining
            /\ conn[d].closed => conn'[d].closed
            /\ conn'[d].reading = "on" => conn[d].reading = "on"
            /\ conn[d].reading # "on" => conn'[d].reading = conn[d].reading
            /\ conn'[d].stage # "serving"
  BY <1>1, <1>2, IntakeFacts
<1>4. /\ hand' \in [Conns -> HandType]
      /\ \A p \in Conns : /\ hand'[p].stage = hand[p].stage
                          /\ hand'[p].fresh = hand[p].fresh
                          /\ hand'[p].cancelled <=> p = owner
  <2>1. hand \in [Conns -> HandType]
    BY Numbered
  <2>2. QED
    BY <1>1, <2>1 DEF HandType
<1>5. /\ Building' = Building /\ ~stop
      /\ \A p, d \in Conns : Greeting(p, d)' <=> Greeting(p, d)
  BY <1>1, <1>4 DEF Building, Greeting, HandoffInv, OneHandoff
<1>6. Closing \subseteq Conns /\ current \in Closing \cup {0} /\ drained \subseteq Closing
  BY Numbered DEF Closing
<1>7. HandoffTypes'
  <2>1. closer' \in [pc : {"idle", "closing", "done"}, closing : SUBSET Conns,
                     awaited : 0..MaxConns]
    BY <1>6 DEF AcloseBegins, HandoffInv, HandoffTypes
  <2>2. QED
    BY <1>1, <1>3, <1>4, <2>1 DEF HandoffInv, HandoffTypes
<1>8. NumberInv'
  <2>1. \A d \in Conns : conn[d].reading # "on" => conn'[d].reading = conn[d].reading
    BY <1>3
  <2>2. \A d \in Conns : conn'[d].draining =>
            conn'[d].reading = "done" /\ conn'[d].closed
    BY <1>3 DEF HandoffInv, NumberInv
  <2>3. \A p \in Conns : hand'[p].stage = hand[p].stage /\ hand'[p].fresh = hand[p].fresh
    BY <1>4
  <2>4. \A d \in drained : conn'[d].draining
    BY <1>3, Numbered DEF HandoffInv, NumberInv
  <2>5. QED
    BY <1>1, <2>1, <2>2, <2>3, <2>4, Numbered DEF HandoffInv, NumberInv, Attached
<1>9. OneHandoff'
  <2>1. \A p \in Building : /\ inFlight /\ owner = p /\ conn'[p].draining
                            /\ ~authError /\ hand'[p].cancelled
    BY <1>3, <1>4, Builder
  <2>2. QED
    BY <1>1, <1>4, <1>5, <1>6, <2>1 DEF OneHandoff
<1>10. Served'
  <2>1. Successor' = Successor
    BY <1>1, <1>3, Numbered DEF Successor
  <2>2. QED
    BY <1>1, <1>3, <1>5, <2>1 DEF HandoffInv, Served
<1>11. TakenInv' /\ ToldInv'
  BY <1>1 DEF HandoffInv, TakenInv, ToldInv
<1>12. OpenInv'
  <2>1. ~strayed => \A d \in Conns : conn[d].up =>
            \/ d \in Closing \/ (sup.pc = "teardown" /\ d \in sup.leaving)
            \/ \E p \in Conns : Greeting(p, d)
    <3>1. sup.pc \in Attached \cup {"teardown", "idle", "pause", "ended"}
      BY DEF HandoffInv, HandoffTypes, Attached
    <3>2. QED
      BY <1>5, <1>6, <3>1, Numbered DEF HandoffInv, OpenInv
  <2>2. QED
    BY <1>1, <1>3, <1>5, <2>1 DEF HandoffInv, OpenInv
<1>13. QED
  BY <1>7, <1>8, <1>9, <1>10, <1>11, <1>12 DEF HandoffInv

\* aclose ends: the handoff it waited for has.
LEMMA AcloseEndsKeeps == HandoffInv /\ AcloseEnds => HandoffInv'
<1> SUFFICES ASSUME HandoffInv, AcloseEnds PROVE HandoffInv'
  OBVIOUS
<1> USE DEF taskVars, poolVars, supVars
<1>1. /\ closer.pc = "closing" /\ closer'.pc = "done"
      /\ closer.awaited # 0 => hand[closer.awaited].stage = "done"
      /\ conn' = [c \in Conns |->
                    [conn[c] EXCEPT !.up = @ /\ c \notin closer.closing]]
      /\ UNCHANGED <<hand, owner, inFlight, authError, current, drained, sup,
                     wake, opened, stop, taken, strayed>>
  BY DEF AcloseEnds
<1>2. /\ conn' \in [Conns -> ConnType]
      /\ \A d \in Conns :
            /\ conn'[d].up => conn[d].up /\ d \notin closer.closing
            /\ conn'[d].draining = conn[d].draining
            /\ conn'[d].closed = conn[d].closed
            /\ conn'[d].reading = conn[d].reading
            /\ conn'[d].stage = conn[d].stage
  <2>1. conn \in [Conns -> ConnType]
    BY Numbered
  <2>2. \A d \in Conns : conn'[d] = [conn[d] EXCEPT !.up = @ /\ d \notin closer.closing]
    BY <1>1
  <2>3. \A d \in Conns : conn[d] \in ConnType /\ conn'[d] \in ConnType
    BY <2>1, <2>2, ZenonT(30) DEF ConnType
  <2>4. conn' \in [Conns -> ConnType]
    BY <1>1, <2>2, <2>3
  <2>5. QED
    BY <2>2, <2>3, <2>4 DEF ConnType
<1>3. /\ status' \in {"idle", "connecting", "connected", "reconnecting", "closed",
                      "superseded"}
      /\ told = status => told' = status'
  <2>1. CASE NotifyStatus("closed")
    BY <2>1, Notified
  <2>2. CASE UNCHANGED statVars
    BY <2>2 DEF statVars, HandoffInv, HandoffTypes
  <2>3. QED
    BY <2>1, <2>2 DEF AcloseEnds
<1>4. /\ stop /\ Building = {} /\ Building' = Building
      /\ \A p, d \in Conns : ~Greeting(p, d) /\ ~Greeting(p, d)'
      /\ \A p \in Conns : hand[p].cancelled => hand[p].stage = "done"
  <2>1. stop
    BY <1>1 DEF HandoffInv, OneHandoff
  <2>2. Building = {}
    <3>1. \A p \in Building : closer.awaited = p /\ p # 0
      BY <2>1, Builder DEF HandoffInv, OneHandoff
    <3>2. QED
      BY <1>1, <3>1 DEF Building
  <2>3. \A p, d \in Conns : ~Greeting(p, d) /\ ~Greeting(p, d)'
    BY <1>1, <2>2, Builder DEF Greeting
  <2>4. \A p \in Conns : hand[p].cancelled => hand[p].stage = "done"
    BY <1>1, Numbered DEF HandoffInv, OneHandoff
  <2>5. QED
    BY <1>1, <2>1, <2>2, <2>3, <2>4 DEF Building
<1>5. HandoffTypes'
  <2>1. closer' \in [pc : {"idle", "closing", "done"}, closing : SUBSET Conns,
                     awaited : 0..MaxConns]
    BY HandoffAssumption DEF AcloseEnds
  <2>2. QED
    BY <1>1, <1>2, <1>3, <2>1 DEF HandoffInv, HandoffTypes
<1>6. NumberInv'
  BY <1>1, <1>2, Numbered DEF HandoffInv, NumberInv, Attached
<1>7. OneHandoff'
  BY <1>1, <1>4 DEF HandoffInv, OneHandoff
<1>8. Served'
  <2>1. Successor' = Successor
    BY <1>1, <1>2, Numbered DEF Successor
  <2>2. QED
    BY <1>1, <1>2, <1>4, <2>1 DEF HandoffInv, Served
<1>9. TakenInv' /\ ToldInv'
  BY <1>1, <1>3, <1>4 DEF HandoffInv, TakenInv, ToldInv
<1>10. OpenInv'
  BY <1>1, <1>2, <1>4 DEF HandoffInv, OpenInv
<1>11. QED
  BY <1>5, <1>6, <1>7, <1>8, <1>9, <1>10 DEF HandoffInv

\* A handoff that was not cancelled builds while the runtime runs, alone.
LEMMA Builds ==
    ASSUME HandoffInv, NEW o \in Building, ~hand[o].cancelled
    PROVE  /\ o \in Conns /\ o # 0 /\ ~stop /\ inFlight /\ owner = o /\ ~authError
           /\ closer.pc = "idle" /\ \A p \in Conns : ~hand[p].cancelled
           /\ conn[o].draining /\ conn[o].closed /\ conn[o].reading = "done"
           /\ \A p \in Building : p = o
           /\ \A p, c \in Conns : Greeting(p, c) => p = o
           /\ ~strayed => /\ current = o /\ o \in drained /\ told = status
                          /\ sup.pc \in {"hello", "watch", "await"}
                          /\ sup.pc \in {"watch", "await"} => status = "connected"
<1>1. /\ o \in Conns /\ o # 0 /\ ~stop /\ inFlight /\ owner = o /\ ~authError
      /\ conn[o].draining /\ conn[o].closed /\ conn[o].reading = "done"
      /\ \A p \in Building : p = o
      /\ \A p, c \in Conns : Greeting(p, c) => p = o
      /\ ~strayed => /\ current = o /\ o \in drained
                     /\ sup.pc \in {"hello", "watch", "await"}
  BY Builder
<1>2. closer.pc = "idle" /\ \A p \in Conns : ~hand[p].cancelled
  BY <1>1 DEF HandoffInv, OneHandoff
<1>3. ~strayed => told = status /\ (sup.pc \in {"watch", "await"} => status = "connected")
  BY <1>1 DEF HandoffInv, ToldInv
<1>4. QED
  BY <1>1, <1>2, <1>3

\* The dial of a replacement begins.
LEMMA HandDialBegins ==
    ASSUME HandoffInv, NEW o \in Conns,
           hand[o].stage \in {"begun", "pause"}, ~hand[o].cancelled,
           opened < MaxConns, opened' = opened + 1, conn' = Opened(conn),
           hand' = [hand EXCEPT ![o].stage = "dial", ![o].fresh = opened + 1],
           UNCHANGED <<inFlight, wake, owner, authError, poolVars, sup, statVars,
                       endVars, taken, strayed>>
    PROVE  HandoffInv'
<1> USE DEF poolVars, statVars, endVars
<1> DEFINE n == opened + 1
<1>1. /\ n \in Conns /\ n # 0 /\ n \in 0..MaxConns /\ n > opened /\ n <= n
      /\ \A m \in 0..MaxConns : m <= opened => m <= n
      /\ \A c \in Conns : c > n => c > opened /\ c # n
      /\ opened' = n /\ conn' = Opened(conn)
      /\ hand' = [hand EXCEPT ![o].stage = "dial", ![o].fresh = n]
  <2>1. n <= n
    BY Numbered, HandoffAssumption
  <2>2. QED
    BY <2>1, NextNumber
<1>2. /\ conn' \in [Conns -> ConnType]
      /\ \A d \in Conns :
            /\ d # n => conn'[d] = conn[d]
            /\ conn'[d].closed = conn[d].closed /\ conn'[d].up = conn[d].up
            /\ conn'[d].reading = conn[d].reading
            /\ conn'[d].draining = conn[d].draining
            /\ conn'[d].stage = "serving" => conn[d].stage = "serving"
  BY Numbered, OpenedFacts
<1> HIDE DEF n
<1>3. /\ hand' \in [Conns -> HandType]
      /\ \A p \in Conns : /\ p # o => hand'[p] = hand[p]
                          /\ hand'[p].cancelled = hand[p].cancelled
      /\ hand'[o].stage = "dial" /\ hand'[o].fresh = n
  <2>1. /\ hand \in [Conns -> HandType] /\ n \in 0..MaxConns
        /\ hand' = [hand EXCEPT ![o].stage = "dial", ![o].fresh = n]
    BY <1>1, Numbered
  <2>2. /\ hand' = [hand EXCEPT ![o] = [@ EXCEPT !.stage = "dial", !.fresh = n]]
        /\ [hand[o] EXCEPT !.stage = "dial", !.fresh = n] \in HandType
    BY <2>1, ZenonT(30) DEF HandType
  <2>3. /\ hand' \in [Conns -> HandType]
        /\ \A p \in Conns : p # o => hand'[p] = hand[p]
        /\ hand'[o] = [hand[o] EXCEPT !.stage = "dial", !.fresh = n]
    BY <2>1, <2>2, ZenonT(30)
  <2>4. /\ hand'[o].stage = "dial" /\ hand'[o].fresh = n
        /\ hand'[o].cancelled = hand[o].cancelled
    BY <2>1, <2>3 DEF HandType
  <2>5. QED
    BY <2>3, <2>4
<1>4. o \in Building /\ Building' = Building
  BY <1>3 DEF Building
<1>5. \A p, d \in Conns : ~Greeting(p, d) /\ ~Greeting(p, d)'
  <2>1. \A p, d \in Conns : ~Greeting(p, d)
    BY <1>4, Builds DEF Greeting
  <2>2. QED
    BY <1>3, <2>1 DEF Greeting
<1>6. HandoffTypes'
  BY <1>1, <1>2, <1>3 DEF HandoffInv, HandoffTypes
<1>7. NumberInv'
  <2>1. \A p \in Conns : hand'[p].stage \in {"dial", "hello"} => p = o
    BY <1>3, <1>4, Builds DEF Building
  <2>2. conn[n].reading = "off" /\ n # sup.conn
    BY <1>1, Numbered DEF HandoffInv, NumberInv
  <2>3. \A c \in Conns : c > n => conn'[c].reading = "off"
    BY <1>1, <1>2 DEF HandoffInv, NumberInv
  <2>4. current <= n /\ sup.conn <= n
    BY <1>1 DEF HandoffInv, NumberInv, HandoffTypes
  <2>5. sup.pc = "dial" => sup.conn \in Conns
    BY Numbered DEF Attached
  <2>6. \A p \in Conns : hand'[p].stage \in {"dial", "hello"} =>
            /\ hand'[p].fresh # 0 /\ hand'[p].fresh <= n
            /\ conn'[hand'[p].fresh].reading = "off"
            /\ hand'[p].fresh # sup.conn
    BY <1>1, <1>2, <1>3, <2>1, <2>2
  <2>7. sup.pc = "dial" => conn'[sup.conn].reading = "off"
    BY <1>2, <2>5 DEF HandoffInv, NumberInv
  <2>8. /\ \A d \in Conns : conn'[d].draining =>
              conn'[d].reading = "done" /\ conn'[d].closed
        /\ \A d \in drained : conn'[d].draining
    BY <1>2, Numbered DEF HandoffInv, NumberInv
  <2>9. sup.pc \in Attached => sup.conn # 0
    BY DEF HandoffInv, NumberInv
  <2>10. QED
    <3>1. opened' = n /\ UNCHANGED <<current, drained, sup>>
      BY <1>1
    <3>2. QED
      BY <3>1, <2>3, <2>4, <2>6, <2>7, <2>8, <2>9, ZenonT(30) DEF NumberInv
<1>8. OneHandoff'
  BY <1>2, <1>3, <1>4, Builds DEF HandoffInv, OneHandoff
<1>9. Served'
  <2>1. Successor' = Successor
    BY <1>2, Numbered DEF Successor
  <2>2. QED
    BY <1>2, <1>4, <1>5, <2>1 DEF HandoffInv, Served
<1>10. TakenInv'
  BY <1>4, Builds DEF HandoffInv, TakenInv
<1>11. ToldInv'
  BY <1>2, <1>4, Numbered DEF HandoffInv, ToldInv
<1>12. OpenInv'
  BY <1>2, <1>4, <1>5 DEF HandoffInv, OpenInv
<1>13. QED
  BY <1>6, <1>7, <1>8, <1>9, <1>10, <1>11, <1>12 DEF HandoffInv

\* The dial of a replacement succeeded.
LEMMA HandDialedKeeps ==
    ASSUME HandoffInv, NEW o \in Conns, HandDialed(o) PROVE HandoffInv'
<1> USE DEF poolVars, supVars, statVars, endVars
<1> DEFINE n == hand[o].fresh
<1>1. /\ hand[o].stage = "dial" /\ ~hand[o].cancelled /\ n \in Conns
      /\ conn' = Dialed(conn, n) /\ hand' = [hand EXCEPT ![o].stage = "hello"]
      /\ UNCHANGED <<owner, inFlight, authError, current, drained, sup, wake,
                     opened, status, told, stop, closer, taken, strayed>>
  BY Numbered DEF HandDialed
<1>2. /\ conn[n].reading = "off" /\ ~conn[n].draining /\ n # 0 /\ n <= opened
      /\ sup.pc = "dial" => n # sup.conn
  BY <1>1 DEF HandoffInv, NumberInv
<1> HIDE DEF n
<1>3. /\ conn' \in [Conns -> ConnType]
      /\ \A d \in Conns : d # n => conn'[d] = conn[d]
      /\ conn'[n].closed = conn[n].closed /\ conn'[n].stage = "hello"
      /\ ~conn'[n].draining
  BY <1>1, <1>2, Numbered, DialedFacts
<1>4. /\ hand' \in [Conns -> HandType]
      /\ \A p \in Conns : /\ p # o => hand'[p] = hand[p]
                          /\ hand'[p].cancelled = hand[p].cancelled
      /\ hand'[o].stage = "hello" /\ hand'[o].fresh = n
  <2>1. hand \in [Conns -> HandType]
    BY Numbered
  <2>2. QED
    BY <1>1, <2>1 DEF HandType, n
<1>5. o \in Building /\ Building' = Building
  BY <1>1, <1>4 DEF Building
<1>6. /\ \A p, d \in Conns : ~Greeting(p, d)
      /\ \A p, d \in Conns : Greeting(p, d)' <=> p = o /\ d = n
  <2>1. \A p, d \in Conns : ~Greeting(p, d)
    BY <1>1, <1>5, Builds DEF Greeting
  <2>2. QED
    BY <1>4, <2>1 DEF Greeting
<1>7. HandoffTypes'
  BY <1>1, <1>3, <1>4 DEF HandoffInv, HandoffTypes
<1>8. NumberInv'
  <2>1. \A p \in Conns : hand'[p].stage \in {"dial", "hello"} => p = o
    BY <1>4, <1>5, Builds, <1>1 DEF Building
  <2>2. \A c \in Conns : c > opened => c # n
    BY <1>1, Numbered DEF n
  <2>3. sup.pc = "dial" => sup.conn \in Conns
    BY Numbered DEF Attached
  <2>4. QED
    BY <1>1, <1>2, <1>3, <1>4, <2>1, <2>2, <2>3, Numbered DEF HandoffInv, NumberInv
<1>9. OneHandoff'
  <2>1. \A p \in Building : conn'[p].draining
    BY <1>1, <1>2, <1>3, <1>5, Builds
  <2>2. QED
    BY <1>1, <1>4, <1>5, <2>1, Builds DEF HandoffInv, OneHandoff
<1>10. Served'
  <2>1. Successor' = Successor
    BY <1>1, <1>2, <1>3, Numbered DEF Successor
  <2>2. QED
    BY <1>1, <1>3, <1>5, <1>6, <2>1 DEF HandoffInv, Served
<1>11. TakenInv'
  BY <1>1 DEF HandoffInv, TakenInv
<1>12. ToldInv'
  BY <1>1, <1>5, Builds DEF HandoffInv, ToldInv
<1>13. OpenInv'
  <2>1. ~strayed => sup.pc \in {"hello", "watch", "await"} /\ ~stop
                    /\ closer.pc = "idle"
    BY <1>1, <1>5, Builds
  <2>2. QED
    BY <1>1, <1>3, <1>6, <2>1 DEF HandoffInv, OpenInv, Attached
<1>14. QED
  BY <1>7, <1>8, <1>9, <1>10, <1>11, <1>12, <1>13 DEF HandoffInv

\* The replacement serves.
LEMMA HandServesKeeps ==
    ASSUME HandoffInv, NEW o \in Conns, HandServes(o) PROVE HandoffInv'
<1> USE DEF endVars
<1> DEFINE n == hand[o].fresh
<1>1. /\ hand[o].stage = "hello" /\ ~hand[o].cancelled /\ n \in Conns
      /\ current' = n /\ status' = "connected" /\ told' = told
      /\ hand' = [hand EXCEPT ![o].stage = "drain", ![o].fresh = 0]
      /\ inFlight' = IF owner = o THEN FALSE ELSE inFlight
      /\ wake' = TRUE /\ conn' = StartServing(conn, n)
      /\ strayed' = (strayed \/ sup.pc \notin {"watch", "await"})
      /\ UNCHANGED <<owner, authError, drained, sup, opened, stop, closer, taken>>
  BY Numbered DEF HandServes, Settle
<1>2. n # 0 /\ n <= opened /\ Greeting(o, n) /\ o \in Building
  BY <1>1 DEF HandoffInv, NumberInv, Greeting, Building
<1>3. /\ conn' \in [Conns -> ConnType]
      /\ \A d \in Conns :
            /\ conn'[d].closed = conn[d].closed /\ conn'[d].up = conn[d].up
            /\ conn'[d].reading = conn[d].reading
            /\ conn'[d].draining = conn[d].draining
            /\ d # n => conn'[d].stage = conn[d].stage
  <2>1. conn \in [Conns -> ConnType] /\ conn' = StartServing(conn, n)
    BY <1>1, Numbered
  <2>2. QED
    BY <1>1, <2>1, StartFacts
<1>4. /\ hand' \in [Conns -> HandType]
      /\ \A p \in Conns : /\ p # o => hand'[p] = hand[p]
                          /\ hand'[p].cancelled = hand[p].cancelled
      /\ hand'[o].stage = "drain"
  <2>1. hand \in [Conns -> HandType] /\ 0 \in 0..MaxConns
    BY Numbered, HandoffAssumption
  <2>2. QED
    BY <1>1, <2>1, StageSet
<1>5. Building' = {} /\ \A p, d \in Conns : ~Greeting(p, d)'
  <2>1. Building' = {}
    BY <1>1, <1>2, <1>4, Builds DEF Building
  <2>2. QED
    BY <2>1 DEF Building, Greeting
<1>6. ~strayed' => ~strayed /\ sup.pc \in {"watch", "await"} /\ status = "connected"
                   /\ current = o /\ \A d \in Conns : Greeting(o, d) => d = n
  BY <1>1, <1>2, Builds DEF Greeting
<1> HIDE DEF n
<1>7. HandoffTypes'
  <2>1. n \in 0..MaxConns
    BY <1>1, HandoffAssumption DEF Conns
  <2>2. inFlight' \in BOOLEAN
    BY <1>1 DEF HandoffInv, HandoffTypes
  <2>3. QED
    BY <1>1, <1>3, <1>4, <2>1, <2>2 DEF HandoffInv, HandoffTypes
<1>8. NumberInv'
  <2>1. \A p \in Conns : hand'[p].stage \notin {"dial", "hello"}
    BY <1>5 DEF Building
  <2>2. /\ \A d \in Conns : conn'[d].draining =>
              conn'[d].reading = "done" /\ conn'[d].closed
        /\ \A d \in drained : conn'[d].draining
    BY <1>3, Numbered DEF HandoffInv, NumberInv
  <2>3. /\ \A d \in Conns : d > opened => conn'[d].reading = "off"
        /\ sup.pc = "dial" => conn'[sup.conn].reading = "off"
    BY <1>3, Numbered DEF HandoffInv, NumberInv, Attached
  <2>4. QED
    BY <1>1, <1>2, <2>1, <2>2, <2>3 DEF HandoffInv, NumberInv
<1>9. OneHandoff'
  BY <1>1, <1>2, <1>4, <1>5, Builds DEF HandoffInv, OneHandoff
<1>10. Served'
  <2>1. \A d \in Conns : ~strayed' /\ conn'[d].stage = "serving" =>
            d = n \/ d \in drained
    BY <1>1, <1>2, <1>3, <1>6, Builds DEF HandoffInv, Served
  <2>2. \A d \in Conns : ~strayed' /\ conn'[d].reading = "on" => d = n
    BY <1>1, <1>2, <1>3, <1>6, Builds DEF HandoffInv, Served
  <2>3. QED
    BY <1>1, <1>2, <1>5, <1>6, <2>1, <2>2, Builds DEF Served
<1>11. TakenInv'
  <2>1. ~strayed' /\ taken => conn'[n].closed
    BY <1>1, <1>2, <1>3, <1>6, Builds DEF HandoffInv, TakenInv
  <2>2. \A p \in Conns : hand'[p].stage \notin {"begun", "pause", "dial"}
    BY <1>5 DEF Building
  <2>3. QED
    BY <1>1, <1>5, <1>6, <2>1, <2>2 DEF TakenInv
<1>12. ToldInv'
  BY <1>1, <1>2, <1>6, Builds DEF ToldInv
<1>13. OpenInv'
  <2>1. \A d \in Conns : ~strayed' /\ conn'[d].up => d = n \/ d \in drained
    BY <1>1, <1>2, <1>3, <1>6, Builds DEF HandoffInv, OpenInv, Attached
  <2>2. \A d \in Conns : ~strayed' /\ conn'[d].up /\ conn'[d].draining => d \in drained
    BY <1>1, <1>2, <1>3, <1>6, Builds DEF HandoffInv, OpenInv
  <2>3. QED
    BY <1>1, <1>2, <1>6, <2>1, <2>2, Builds DEF OpenInv
<1>14. QED
  BY <1>7, <1>8, <1>9, <1>10, <1>11, <1>12, <1>13 DEF HandoffInv

\* A handoff gives up and leaves its connection to be drained; a replacement it had
\* begun is closed.
LEMMA HandFailsKeeps ==
    ASSUME HandoffInv, NEW o \in Building, ~hand[o].cancelled,
           NEW cs \in [Conns -> ConnType],
           \A d \in Conns :
               /\ cs[d].up => conn[d].up
               /\ cs[d].draining = conn[d].draining
               /\ cs[d].stage = "serving" => conn[d].stage = "serving"
               /\ cs[d].reading = "on" => conn[d].reading = "on"
               /\ conn[d].reading # "on" => cs[d].reading = conn[d].reading
               /\ conn[d].closed => cs[d].closed
               /\ Greeting(o, d) => ~cs[d].up /\ cs[d].reading # "on",
           HandFails(o, cs), authError' \in BOOLEAN, taken' \in BOOLEAN,
           UNCHANGED <<owner, poolVars, sup, opened, statVars, endVars, strayed>>
    PROVE  HandoffInv'
<1> USE DEF poolVars, statVars, endVars
<1>1. /\ conn' = Dropped(cs, {o}) /\ wake' = TRUE
      /\ inFlight' = IF owner = o THEN FALSE ELSE inFlight
      /\ hand' = [hand EXCEPT ![o].stage = "drain", ![o].fresh = 0]
      /\ o \in Conns
  BY Builds DEF HandFails, Settle
<1>2. /\ conn' \in [Conns -> ConnType]
      /\ \A d \in Conns :
            /\ conn'[d].up => cs[d].up /\ d # o
            /\ conn'[d].draining = cs[d].draining
            /\ conn'[d].reading = cs[d].reading
            /\ cs[d].closed => conn'[d].closed
            /\ conn'[d].stage = "serving" => cs[d].stage = "serving"
  BY <1>1, DroppedFacts
<1>3. \A d \in Conns :
          /\ conn'[d].up => conn[d].up /\ d # o /\ ~Greeting(o, d)
          /\ conn'[d].draining = conn[d].draining
          /\ conn'[d].stage = "serving" => conn[d].stage = "serving"
          /\ conn'[d].reading = "on" => conn[d].reading = "on" /\ ~Greeting(o, d)
          /\ conn[d].reading # "on" => conn'[d].reading = conn[d].reading
          /\ conn[d].closed => conn'[d].closed
  BY <1>2
<1>4. /\ hand' \in [Conns -> HandType]
      /\ \A p \in Conns : /\ p # o => hand'[p] = hand[p]
                          /\ hand'[p].cancelled = hand[p].cancelled
      /\ hand'[o].stage = "drain"
  <2>1. hand \in [Conns -> HandType] /\ 0 \in 0..MaxConns
    BY Numbered, HandoffAssumption
  <2>2. QED
    BY <1>1, <2>1, StageSet
<1>5. Building' = {} /\ \A p, d \in Conns : ~Greeting(p, d)'
  <2>1. Building' = {}
    BY <1>4, Builds DEF Building
  <2>2. QED
    BY <2>1 DEF Building, Greeting
<1>6. HandoffTypes'
  <2>1. inFlight' \in BOOLEAN
    BY <1>1 DEF HandoffInv, HandoffTypes
  <2>2. QED
    BY <1>1, <1>2, <1>4, <2>1 DEF HandoffInv, HandoffTypes
<1>7. NumberInv'
  <2>1. \A p \in Conns : hand'[p].stage \notin {"dial", "hello"}
    BY <1>5 DEF Building
  <2>2. /\ \A d \in Conns : conn'[d].draining =>
              conn'[d].reading = "done" /\ conn'[d].closed
        /\ \A d \in drained : conn'[d].draining
    BY <1>3, Numbered DEF HandoffInv, NumberInv
  <2>3. /\ \A d \in Conns : d > opened => conn'[d].reading = "off"
        /\ sup.pc = "dial" => conn'[sup.conn].reading = "off"
    BY <1>3, Numbered DEF HandoffInv, NumberInv, Attached
  <2>4. QED
    BY <2>1, <2>2, <2>3 DEF HandoffInv, NumberInv
<1>8. OneHandoff'
  BY <1>4, <1>5, Builds DEF HandoffInv, OneHandoff
<1>9. Served'
  <2>1. ~strayed => /\ current = o /\ conn'[current].draining
    BY <1>3, Builds
  <2>2. ~strayed => ~Successor'
    BY <2>1 DEF Successor
  <2>3. \A d \in Conns : ~strayed /\ conn'[d].reading = "on" =>
            d = current /\ sup.pc \in {"hello", "watch", "await"}
    BY <1>3, Builds DEF HandoffInv, Served
  <2>4. QED
    BY <1>3, <1>5, <2>2, <2>3 DEF HandoffInv, Served
<1>10. TakenInv'
  <2>1. \A p \in Conns : hand'[p].stage \notin {"begun", "pause", "dial"}
    BY <1>5 DEF Building
  <2>2. ~strayed => /\ conn'[current].closed
                    /\ sup.pc \in {"hello", "watch", "await"}
    BY <1>3, Builds
  <2>3. QED
    BY <1>5, <2>1, <2>2 DEF TakenInv
<1>11. ToldInv'
  BY Builds DEF ToldInv
<1>12. OpenInv'
  <2>1. ~strayed => sup.pc \in {"hello", "watch", "await"} /\ ~stop
                    /\ closer.pc = "idle"
    BY Builds
  <2>2. \A d \in Conns : ~strayed /\ conn'[d].up => d = current \/ d \in drained
    BY <1>3, <2>1, Builds DEF HandoffInv, OpenInv, Attached
  <2>3. \A d \in Conns : ~strayed /\ conn'[d].up /\ conn'[d].draining => d \in drained
    BY <1>3, <2>1 DEF HandoffInv, OpenInv
  <2>4. QED
    BY <2>1, <2>2, <2>3 DEF OpenInv
<1>13. QED
  BY <1>6, <1>7, <1>8, <1>9, <1>10, <1>11, <1>12 DEF HandoffInv

\* A handoff dials, or gives up.
LEMMA HandDialsKeeps ==
    ASSUME HandoffInv, NEW o \in Conns, HandDials(o) PROVE HandoffInv'
<1>1. /\ hand[o].stage \in {"begun", "pause"} /\ ~hand[o].cancelled
      /\ UNCHANGED <<owner, authError, poolVars, sup, statVars, endVars, taken,
                     strayed>>
  BY DEF HandDials
<1>2. o \in Building
  BY <1>1 DEF Building
<1>3. CASE opened' = opened + 1
  <2>1. /\ opened < MaxConns /\ conn' = Opened(conn)
        /\ hand' = [hand EXCEPT ![o].stage = "dial", ![o].fresh = opened + 1]
        /\ UNCHANGED <<inFlight, wake>>
    BY <1>3, Numbered DEF HandDials
  <2>2. QED
    BY <1>1, <1>3, <2>1, HandDialBegins
<1>4. CASE HandFails(o, conn) /\ UNCHANGED opened
  <2>1. /\ conn \in [Conns -> ConnType] /\ authError' \in BOOLEAN
        /\ taken' \in BOOLEAN /\ \A d \in Conns : ~Greeting(o, d)
    BY <1>1 DEF HandoffInv, HandoffTypes, Greeting
  <2>2. QED
    BY <1>1, <1>2, <1>4, <2>1, HandFailsKeeps
<1>5. QED
  BY <1>3, <1>4 DEF HandDials

\* An attempt at a replacement failed and another follows.
LEMMA HandPausesKeeps ==
    ASSUME HandoffInv, NEW o \in Conns, hand[o].stage \in {"dial", "hello"},
           ~hand[o].cancelled, ~taken,
           hand' = [hand EXCEPT ![o].stage = "pause", ![o].fresh = 0],
           conn' = Discarded(conn, hand[o].fresh),
           UNCHANGED <<inFlight, wake, owner, authError, poolVars, sup, opened,
                       statVars, endVars, taken, strayed>>
    PROVE  HandoffInv'
<1> USE DEF poolVars, statVars, endVars
<1> DEFINE n == hand[o].fresh
<1>1. o \in Building /\ n \in Conns /\ conn' = Discarded(conn, n)
  BY Numbered DEF Building
<1>2. \A d \in Conns : Greeting(o, d) => d = n
  BY DEF Greeting
<1> HIDE DEF n
<1>3. /\ conn' \in [Conns -> ConnType]
      /\ \A d \in Conns :
            /\ conn'[d].up => conn[d].up /\ d # n
            /\ conn'[d].draining = conn[d].draining
            /\ conn'[d].stage = "serving" => conn[d].stage = "serving"
            /\ conn'[d].reading = "on" => conn[d].reading = "on" /\ d # n
            /\ conn[d].reading # "on" => conn'[d].reading = conn[d].reading
            /\ conn[d].closed => conn'[d].closed
  <2>1. conn \in [Conns -> ConnType]
    BY Numbered
  <2>2. QED
    BY <1>1, <2>1, DiscardedFacts
<1>4. /\ hand' \in [Conns -> HandType]
      /\ \A p \in Conns : /\ p # o => hand'[p] = hand[p]
                          /\ hand'[p].cancelled = hand[p].cancelled
      /\ hand'[o].stage = "pause"
  <2>1. hand \in [Conns -> HandType] /\ 0 \in 0..MaxConns
    BY Numbered, HandoffAssumption
  <2>2. QED
    BY <2>1 DEF HandType
<1>5. /\ Building' = Building
      /\ \A p, d \in Conns : ~Greeting(p, d)'
  <2>1. Building' = Building
    BY <1>1, <1>4 DEF Building
  <2>2. \A p \in Conns : p # o => hand[p].stage # "hello"
    BY <1>1, Builds DEF Building
  <2>3. QED
    BY <1>4, <2>1, <2>2 DEF Greeting
<1>6. HandoffTypes'
  BY <1>3, <1>4 DEF HandoffInv, HandoffTypes
<1>7. NumberInv'
  <2>1. \A p \in Conns : hand'[p].stage \notin {"dial", "hello"}
    BY <1>1, <1>4, Builds DEF Building
  <2>2. /\ \A d \in Conns : conn'[d].draining =>
              conn'[d].reading = "done" /\ conn'[d].closed
        /\ \A d \in drained : conn'[d].draining
    BY <1>3, Numbered DEF HandoffInv, NumberInv
  <2>3. /\ \A d \in Conns : d > opened => conn'[d].reading = "off"
        /\ sup.pc = "dial" => conn'[sup.conn].reading = "off"
    BY <1>3, Numbered DEF HandoffInv, NumberInv, Attached
  <2>4. QED
    BY <2>1, <2>2, <2>3 DEF HandoffInv, NumberInv
<1>8. OneHandoff'
  <2>1. \A p \in Building : conn'[p].draining
    BY <1>1, <1>3, Builds
  <2>2. QED
    BY <1>1, <1>4, <1>5, <2>1, Builds DEF HandoffInv, OneHandoff
<1>9. Served'
  <2>1. Successor' = Successor
    BY <1>3, Numbered DEF Successor
  <2>2. \A d \in Conns : ~strayed /\ conn'[d].reading = "on" =>
            d = current /\ sup.pc \in {"hello", "watch", "await"}
    BY <1>1, <1>2, <1>3, Builds DEF HandoffInv, Served
  <2>3. QED
    BY <1>3, <1>5, <2>1, <2>2 DEF HandoffInv, Served
<1>10. TakenInv'
  BY DEF TakenInv
<1>11. ToldInv'
  BY <1>1, Builds DEF ToldInv
<1>12. OpenInv'
  <2>1. ~strayed => sup.pc \in {"hello", "watch", "await"} /\ ~stop
                    /\ closer.pc = "idle"
    BY <1>1, Builds
  <2>2. \A d \in Conns : ~strayed /\ conn'[d].up => d = current \/ d \in drained
    BY <1>1, <1>2, <1>3, <2>1, Builds DEF HandoffInv, OpenInv, Attached
  <2>3. \A d \in Conns : ~strayed /\ conn'[d].up /\ conn'[d].draining => d \in drained
    BY <1>3, <2>1 DEF HandoffInv, OpenInv
  <2>4. QED
    BY <2>1, <2>2, <2>3 DEF OpenInv
<1>13. QED
  BY <1>6, <1>7, <1>8, <1>9, <1>10, <1>11, <1>12 DEF HandoffInv

\* The dial or the hello of a replacement failed.
LEMMA HandTryFailsKeeps ==
    ASSUME HandoffInv, NEW o \in Conns, HandTryFails(o) PROVE HandoffInv'
<1> DEFINE n == hand[o].fresh
<1>1. /\ hand[o].stage \in {"dial", "hello"} /\ ~hand[o].cancelled
      /\ UNCHANGED <<owner, poolVars, sup, opened, statVars, endVars, strayed>>
  BY DEF HandTryFails
<1>2. PICK outcome \in HelloFailures(n) :
        /\ taken' = (taken \/ outcome = "superseded")
        /\ authError' = (authError \/ outcome = "auth")
        /\ \/ /\ ~Terminal(outcome)
              /\ hand' = [hand EXCEPT ![o].stage = "pause", ![o].fresh = 0]
              /\ conn' = Discarded(conn, n)
              /\ UNCHANGED <<inFlight, wake>>
           \/ HandFails(o, Discarded(conn, n))
  BY DEF HandTryFails
<1>3. /\ o \in Building /\ n \in Conns
      /\ authError \in BOOLEAN /\ taken \in BOOLEAN
  BY <1>1, Numbered DEF Building, HandoffInv, HandoffTypes
<1>4. CASE HandFails(o, Discarded(conn, n))
  <2>1. \A d \in Conns : Greeting(o, d) => d = n
    BY DEF Greeting
  <2>2. conn \in [Conns -> ConnType]
    BY Numbered
  <2> HIDE DEF n
  <2>3. /\ Discarded(conn, n) \in [Conns -> ConnType]
        /\ \A d \in Conns :
              LET k == Discarded(conn, n)[d] IN
              /\ k.up => conn[d].up
              /\ k.draining = conn[d].draining
              /\ k.stage = "serving" => conn[d].stage = "serving"
              /\ k.reading = "on" => conn[d].reading = "on"
              /\ conn[d].reading # "on" => k.reading = conn[d].reading
              /\ conn[d].closed => k.closed
              /\ Greeting(o, d) => ~k.up /\ k.reading # "on"
    BY <1>3, <2>1, <2>2, DiscardedFacts
  <2>4. authError' \in BOOLEAN /\ taken' \in BOOLEAN
    BY <1>2
  <2>5. QED
    BY <1>1, <1>3, <1>4, <2>3, <2>4, HandFailsKeeps
<1>5. CASE /\ ~Terminal(outcome)
           /\ hand' = [hand EXCEPT ![o].stage = "pause", ![o].fresh = 0]
           /\ conn' = Discarded(conn, n)
           /\ UNCHANGED <<inFlight, wake>>
  <2>1. ~taken /\ UNCHANGED <<taken, authError>>
    BY <1>2, <1>3, <1>5 DEF Terminal
  <2>2. QED
    BY <1>1, <1>5, <2>1, HandPausesKeeps
<1>6. QED
  BY <1>2, <1>4, <1>5

\* A handoff that aclose cancelled ends, or goes on to drain.
LEMMA HandCancelledKeeps ==
    ASSUME HandoffInv, NEW o \in Conns, HandCancelled(o) PROVE HandoffInv'
<1> USE DEF poolVars, supVars, statVars, endVars
<1> DEFINE builds == o \in Building /\ hand[o].stage # "begun"
<1>1. /\ hand[o].cancelled /\ hand[o].stage # "done"
      /\ hand' = [hand EXCEPT ![o].stage = IF builds THEN "drain" ELSE "done",
                              ![o].cancelled = FALSE]
      /\ inFlight' = (inFlight /\ hand[o].stage = "begun")
      /\ owner' = IF hand[o].stage = "drain" THEN 0 ELSE owner
      /\ conn' = IF hand[o].stage \in {"dial", "hello"}
                 THEN Discarded(conn, hand[o].fresh) ELSE conn
      /\ UNCHANGED <<authError, current, drained, sup, wake, opened, status, told,
                     stop, closer, taken, strayed>>
  BY DEF HandCancelled
<1>2. /\ stop /\ closer.awaited = o
      /\ \A p \in Building : p = o
  BY <1>1, Builder DEF HandoffInv, OneHandoff
<1>3. /\ conn' \in [Conns -> ConnType]
      /\ \A d \in Conns :
            /\ conn'[d].up => conn[d].up /\ ~Greeting(o, d)
            /\ conn'[d].draining = conn[d].draining
            /\ conn'[d].stage = "serving" => conn[d].stage = "serving"
            /\ conn[d].reading # "on" => conn'[d].reading = conn[d].reading
            /\ conn[d].closed => conn'[d].closed
  <2>1. conn \in [Conns -> ConnType]
    BY Numbered
  <2>2. CASE hand[o].stage \in {"dial", "hello"}
    <3>1. hand[o].fresh \in Conns /\ conn' = Discarded(conn, hand[o].fresh)
      BY <1>1, <2>2, Numbered
    <3>2. QED
      BY <2>1, <3>1, DiscardedFacts, SMTT(20) DEF Greeting
  <2>3. CASE hand[o].stage \notin {"dial", "hello"}
    BY <1>1, <2>1, <2>3 DEF Greeting
  <2>4. QED
    BY <2>2, <2>3
<1>4. /\ hand' \in [Conns -> HandType]
      /\ \A p \in Conns : p # o => hand'[p] = hand[p]
      /\ hand'[o].stage \in {"drain", "done"} /\ ~hand'[o].cancelled
  <2>1. hand \in [Conns -> HandType]
    BY Numbered
  <2> HIDE DEF builds
  <2>2. QED
    BY <1>1, <2>1 DEF HandType
<1>5. /\ Building' = {}
      /\ \A p, d \in Conns : ~Greeting(p, d)'
      /\ \A p, d \in Conns : Greeting(p, d) => p = o
  <2>1. Building' = {}
    BY <1>2, <1>4 DEF Building
  <2>2. QED
    BY <1>2, <2>1, Builder DEF Building, Greeting
<1>6. HandoffTypes'
  <2>1. inFlight' \in BOOLEAN
    BY <1>1
  <2>2. owner' \in 0..MaxConns
    BY <1>1, HandoffAssumption DEF HandoffInv, HandoffTypes
  <2>3. QED
    BY <1>1, <1>3, <1>4, <2>1, <2>2 DEF HandoffInv, HandoffTypes
<1>7. NumberInv'
  <2>1. \A p \in Conns : hand'[p].stage \notin {"dial", "hello"}
    BY <1>5 DEF Building
  <2>2. /\ \A d \in Conns : conn'[d].draining =>
              conn'[d].reading = "done" /\ conn'[d].closed
        /\ \A d \in drained : conn'[d].draining
    BY <1>3, Numbered DEF HandoffInv, NumberInv
  <2>3. /\ \A d \in Conns : d > opened => conn'[d].reading = "off"
        /\ sup.pc = "dial" => conn'[sup.conn].reading = "off"
    BY <1>3, Numbered DEF HandoffInv, NumberInv, Attached
  <2>4. QED
    BY <1>1, <2>1, <2>2, <2>3 DEF HandoffInv, NumberInv
<1>8. OneHandoff'
  BY <1>1, <1>4, <1>5 DEF HandoffInv, OneHandoff
<1>9. Served'
  <2>1. Successor' = Successor
    BY <1>1, <1>3, Numbered DEF Successor
  <2>2. QED
    BY <1>1, <1>2, <1>3, <1>5, <2>1 DEF HandoffInv, Served
<1>10. TakenInv' /\ ToldInv'
  BY <1>1, <1>2 DEF HandoffInv, TakenInv, ToldInv
<1>11. OpenInv'
  BY <1>1, <1>2, <1>3, <1>5 DEF HandoffInv, OpenInv
<1>12. QED
  BY <1>6, <1>7, <1>8, <1>9, <1>10, <1>11 DEF HandoffInv

\* No connection has been made.
LEMMA HandoffStart == HandoffInit => HandoffInv
<1> SUFFICES ASSUME HandoffInit PROVE HandoffInv
  OBVIOUS
<1>1. /\ \A c \in Conns : conn[c] = NewConn
      /\ \A o \in Conns : hand[o] = [stage |-> "none", fresh |-> 0,
                                     cancelled |-> FALSE]
      /\ NewConn \in ConnType /\ 0 \in 0..MaxConns
  BY HandoffAssumption DEF HandoffInit, NewConn, ConnType
<1>2. /\ \A c \in Conns : /\ conn[c].stage = "none" /\ conn[c].reading = "off"
                          /\ ~conn[c].draining /\ ~conn[c].up
      /\ \A o \in Conns : hand[o].stage = "none" /\ ~hand[o].cancelled
      /\ Building = {} /\ \A o, c \in Conns : ~Greeting(o, c)
  BY <1>1 DEF NewConn, Building, Greeting
<1>3. HandoffTypes
  BY <1>1 DEF HandoffInit, HandoffTypes, HandType, Outcomes
<1>4. NumberInv /\ OneHandoff
  BY <1>2 DEF HandoffInit, NumberInv, OneHandoff, Attached
<1>5. Served /\ TakenInv /\ ToldInv /\ OpenInv
  BY <1>2 DEF HandoffInit, Served, TakenInv, ToldInv, OpenInv, Attached
<1>6. QED
  BY <1>3, <1>4, <1>5 DEF HandoffInv

\* Every step keeps the invariant.
LEMMA HandoffStep == HandoffInv /\ [HandoffNext]_handoffVars => HandoffInv'
<1> SUFFICES ASSUME HandoffInv, [HandoffNext]_handoffVars PROVE HandoffInv'
  OBVIOUS
<1>1. CASE Supervisor
  BY <1>1, SupStartKeeps, SupResumeKeeps, SupDialedKeeps, SupDialFailsKeeps,
     SupHelloFailsKeeps, SupServesKeeps, SupAwaitsKeeps, SupFollowsKeeps,
     SupLeavesKeeps, SupClosedKeeps
  DEF Supervisor
<1>2. ASSUME NEW c \in Conns, Connection(c) PROVE HandoffInv'
  BY <1>2, HelloAnsweredKeeps, ReadEndsKeeps, GoawayDrainsKeeps,
     GoawayTakesKeeps, ForceDownKeeps, IntakeTakesKeeps
  DEF Connection
<1>3. ASSUME NEW o \in Conns, Handoff(o) PROVE HandoffInv'
  BY <1>3, HandDialsKeeps, HandDialedKeeps, HandServesKeeps, HandTryFailsKeeps,
     HandDrainsKeeps, HandCancelledKeeps
  DEF Handoff
<1>4. CASE UNCHANGED handoffVars
  <2>1. UNCHANGED <<conn, hand, owner, inFlight, authError, current, drained, sup,
                    wake, opened, taken, status, told, stop, closer, strayed>>
    BY <1>4 DEF handoffVars, taskVars, poolVars, supVars, statVars, endVars
  <2>2. /\ Building' = Building /\ Successor' = Successor
        /\ \A p, d \in Conns : Greeting(p, d)' <=> Greeting(p, d)
    BY <2>1 DEF Building, Successor, Greeting
  <2>3. HandoffTypes' /\ NumberInv' /\ OneHandoff'
    BY <2>1, <2>2 DEF HandoffInv, HandoffTypes, NumberInv, OneHandoff
  <2>4. Served' /\ TakenInv' /\ ToldInv' /\ OpenInv'
    BY <2>1, <2>2 DEF HandoffInv, Served, TakenInv, ToldInv, OpenInv
  <2>5. QED
    BY <2>3, <2>4 DEF HandoffInv
<1>5. QED
  BY <1>1, <1>2, <1>3, <1>4, AcloseBeginsKeeps, AcloseEndsKeeps
  DEF HandoffNext, Tasks

\* A step of the whole is one of the runtime or leaves it alone.
LEMMA ConnectIsHandoff ==
    /\ ConnectInit => HandoffInit
    /\ [ConnectNext]_connectVars => [HandoffNext]_handoffVars
BY DEF ConnectInit, ConnectNext, connectVars, Bootstrap, Runtime, Rests

\* The invariant holds of the whole.
LEMMA HandoffHolds == ConnectSpec => []HandoffInv
BY HandoffStart, HandoffStep, ConnectIsHandoff, PTL DEF ConnectSpec

\* The variables of the bootstrap and of the runtime keep to their types.
THEOREM ConnectTypesHold == ConnectSpec => []ConnectTypeOK
<1>1. HandoffInv => HandoffTypeOK
  <2> SUFFICES ASSUME HandoffInv PROVE HandoffTypeOK
    OBVIOUS
  <2>1. /\ sup.pc \in {"idle", "dial", "hello", "watch", "await", "teardown",
                       "pause", "ended"}
        /\ {current, owner, opened, sup.conn} \subseteq 0..MaxConns
    BY DEF HandoffInv, HandoffTypes
  <2>2. QED
    BY <2>1 DEF HandoffInv, HandoffTypes, HandoffTypeOK, ConnType, HandType
<1>2. BootstrapInv /\ HandoffInv => ConnectTypeOK
  BY <1>1 DEF BootstrapInv, ConnectTypeOK
<1>3. QED
  BY <1>2, HandoffHolds, BootstrapStart, BootstrapStep, ConnectIsBootstrap, PTL
  DEF ConnectSpec

\* For any number of connections: the connection that parks intakes is the active one,
\* whatever handoffs, failures, teardowns and aclose come between (_run_handoff,
\* _teardown_cold, aclose).
THEOREM ServesActive == ConnectSpec => []ActiveServes
<1>1. HandoffInv => ActiveServes
  <2> SUFFICES ASSUME HandoffInv, ~strayed, NEW c \in Conns, Serves(c)
               PROVE  c = current
    BY DEF ActiveServes
  <2>1. c \notin drained
    BY DEF HandoffInv, NumberInv, Serves
  <2>2. QED
    BY <2>1 DEF HandoffInv, Served, Serves
<1>2. QED
  BY <1>1, HandoffHolds, PTL

\* The backoff begins, and serve_forever and aclose end, with every socket closed.
THEOREM AllClosed == ConnectSpec => []NothingLeftOpen
<1>1. HandoffInv => NothingLeftOpen
  <2> SUFFICES ASSUME HandoffInv, ~strayed,
                      sup.pc = "pause" \/ (sup.pc = "ended" /\ closer.pc # "closing"),
                      NEW c \in Conns
               PROVE  ~conn[c].up
    BY DEF NothingLeftOpen
  <2>1. stop <=> closer.pc # "idle"
    BY DEF HandoffInv, OneHandoff
  <2>2. closer.pc \in {"idle", "closing", "done"}
    BY DEF HandoffInv, HandoffTypes
  <2>3. QED
    BY <2>1, <2>2 DEF HandoffInv, OpenInv
<1>2. QED
  BY <1>1, HandoffHolds, PTL

\* The callback has been told of the status the runtime is in, though a handoff
\* records its own without a call.
THEOREM CallbackInformed == ConnectSpec => []CallbackKnows
<1>1. HandoffInv => CallbackKnows
  BY DEF HandoffInv, ToldInv, CallbackKnows
<1>2. QED
  BY <1>1, HandoffHolds, PTL

\* A client that has seen a takeover opens no further connection, by a cold dial or
\* by the retries of a handoff.
THEOREM TakeoverStopsDialing == ConnectSpec => TakeoverEndsDialing
<1>1. HandoffInv /\ [HandoffNext]_handoffVars =>
          [taken /\ ~strayed => opened' = opened]_handoffVars
  <2> SUFFICES ASSUME HandoffInv, HandoffNext, taken, ~strayed
               PROVE  opened' = opened
    OBVIOUS
  <2> USE DEF supVars
  <2>1. ~stop => /\ sup.pc \notin {"idle", "pause"}
                 /\ \A o \in Conns : hand[o].stage \notin {"begun", "pause", "dial"}
    BY DEF HandoffInv, TakenInv
  <2>2. CASE Supervisor
    BY <2>1, <2>2
    DEF Supervisor, SupStart, SupResume, SupDialed, SupDialFails, SupHelloFails,
        SupServes, SupAwaits, SupFollows, SupLeaves, SupClosed, Leave
  <2>3. ASSUME NEW o \in Conns, Handoff(o) PROVE opened' = opened
    <3>1. CASE HandDials(o)
      <4>1. hand[o].stage \in {"begun", "pause"} /\ (opened' = opened \/ ~stop)
        BY <3>1 DEF HandDials
      <4>2. QED
        BY <2>1, <4>1
    <3>2. CASE ~HandDials(o)
      BY <2>3, <3>2
      DEF Handoff, HandDialed, HandServes, HandTryFails, HandDrains, HandCancelled
    <3>3. QED
      BY <3>1, <3>2
  <2>4. ASSUME NEW c \in Conns, Connection(c) PROVE opened' = opened
    BY <2>4
    DEF Connection, HelloAnswered, ReadEnds, GoawayDrains, GoawayTakes, ForceDown,
        IntakeTakes
  <2>5. CASE AcloseBegins \/ AcloseEnds
    BY <2>5 DEF AcloseBegins, AcloseEnds
  <2>6. QED
    BY <2>2, <2>3, <2>4, <2>5 DEF HandoffNext, Tasks
<1>2. QED
  BY <1>1, HandoffHolds, ConnectIsHandoff, PTL DEF ConnectSpec, TakeoverEndsDialing
=============================================================================
