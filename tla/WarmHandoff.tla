----------------------------- MODULE WarmHandoff -----------------------------
(***************************************************************************)
(* The tunnel runtime of the Python SDK                                    *)
(* (sdk/python/inkbox/tunnels/client/_runtime.py).  serve_forever dials    *)
(* cold, as the Rust runtime does, but a NO_ERROR GOAWAY on the active     *)
(* connection starts a handoff: a task that builds the replacement before  *)
(* the old connection is torn down.                                        *)
(*                                                                         *)
(* All of it runs on one event loop: what happens between two awaits is    *)
(* one step.  A connection is numbered in the order of creation, and a     *)
(* handoff by the connection it replaces, which starts at most one.        *)
(***************************************************************************)
EXTENDS Integers, FiniteSets

CONSTANT
    MaxConns  \* bound on the connections the runtime opens

ASSUME HandoffAssumption == MaxConns \in Nat \ {0}

Conns == 1..MaxConns

VARIABLES
    conn,       \* the _Connection objects
    hand,       \* the handoff tasks, by the connection they replace
    current,    \* _active, 0 for None
    drained,    \* _draining
    owner,      \* _handoff_task, 0 for None
    inFlight,   \* _handoff_in_flight
    authError,  \* _handoff_terminal_error is set
    taken,      \* _superseded
    wake,       \* _supervisor_wake
    opened,     \* _next_conn_id - 1
    sup,        \* the task that runs serve_forever
    stop,       \* _stop
    closer,     \* a caller of aclose
    status,     \* _status
    told,       \* the status the callback was last given
    strayed     \* one of the races below happened (history)

taskVars == <<hand, owner, inFlight, authError>>
poolVars == <<current, drained>>
supVars == <<sup, wake, opened>>
statVars == <<status, told>>
endVars == <<stop, closer>>
handoffVars == <<conn, taskVars, poolVars, supVars, taken, statVars, endVars,
                 strayed>>

\* _Connection.__init__; "up" is an open socket.
NewConn == [stage |-> "none", answer |-> "none", reading |-> "off",
            closed |-> FALSE, draining |-> FALSE, up |-> FALSE]

\* TunnelRuntime.__init__.
HandoffInit ==
    /\ conn = [c \in Conns |-> NewConn]
    /\ hand = [c \in Conns |->
                  [stage |-> "none", fresh |-> 0, cancelled |-> FALSE]]
    /\ current = 0 /\ drained = {} /\ owner = 0
    /\ inFlight = FALSE /\ authError = FALSE /\ taken = FALSE /\ wake = FALSE
    /\ opened = 0 /\ stop = FALSE /\ strayed = FALSE
    /\ sup = [pc |-> "idle", conn |-> 0, outcome |-> "none", awaited |-> 0,
              leaving |-> {}]
    /\ closer = [pc |-> "idle", closing |-> {}, awaited |-> 0]
    /\ status = "idle" /\ told = "idle"

-----------------------------------------------------------------------------
(* Pieces of the steps.                                                    *)

\* _notify_status.
NotifyStatus(s) ==
    /\ status' = s
    /\ told' = IF status = s THEN told ELSE s

\* Mutant: the end of a connection that is being replaced is reported.
LostEvenDraining(cs, c) ==
    c = current /\ ~stop /\ ~taken /\ status = "connected"

\* The test of _enter_reconnecting.
SessionLost(cs, c) ==
    /\ c = current /\ ~cs[c].draining /\ ~stop /\ ~taken
    /\ status = "connected"

\* _enter_reconnecting, when the connections are cs.
EnterReconnecting(cs, c) ==
    IF SessionLost(cs, c) THEN NotifyStatus("reconnecting")
    ELSE UNCHANGED statVars

\* _publish_connection_closed, and the end of the reader.
Read(cs, c) == [cs EXCEPT ![c] = [@ EXCEPT !.closed = TRUE, !.reading = "done"]]

\* The connections of S are published as closed and their readers cancelled: a
\* cancelled reader handles no event any more.
Cancelled(cs, S) ==
    [c \in Conns |->
        IF c \notin S THEN cs[c]
        ELSE [cs[c] EXCEPT !.closed = TRUE,
                           !.reading = IF @ = "on" THEN "done" ELSE @]]

\* _force_reconnect_conn and the close of the writer.  Intake tasks end when
\* they come to it, and one may have an answer to look at first.
Dropped(cs, S) ==
    [c \in Conns |->
        IF c \notin S THEN cs[c]
        ELSE [cs[c] EXCEPT !.closed = TRUE, !.up = FALSE,
                           !.stage = IF @ = "serving" THEN @ ELSE "spent"]]

\* The cancellation of the runtime's tasks (_tasks): no intake stays parked.
IntakesCancelled(cs) ==
    [c \in Conns |->
        [cs[c] EXCEPT !.stage = IF @ = "serving" THEN "spent" ELSE @]]

\* _open_connection and the reader, once the dial succeeded.
Dialed(cs, c) ==
    [cs EXCEPT ![c] =
        [@ EXCEPT !.stage = "hello", !.up = TRUE, !.reading = "on"]]

\* _start_serving.
StartServing(cs, c) ==
    [cs EXCEPT ![c] = [@ EXCEPT !.stage = "serving", !.answer = "none"]]

\* A new _Connection is dialed.
Opened(cs) == [cs EXCEPT ![opened + 1].stage = "dial"]

\* A handoff that still builds its replacement.
Building ==
    {o \in Conns : hand[o].stage \in {"begun", "dial", "hello", "pause"}}

-----------------------------------------------------------------------------
(* serve_forever and _run_once.                                            *)

\* The first step of _run_once.
ColdConnect ==
    /\ opened < MaxConns
    /\ opened' = opened + 1
    /\ current' = opened + 1
    /\ conn' = Opened(conn)
    /\ sup' = [sup EXCEPT !.pc = "dial", !.conn = opened + 1]

SupStart ==
    /\ sup.pc = "idle"
    /\ IF stop
       THEN /\ NotifyStatus("closed")
            /\ sup' = [sup EXCEPT !.pc = "ended"]
            /\ UNCHANGED <<conn, current, opened>>
       ELSE NotifyStatus("connecting") /\ ColdConnect
    /\ UNCHANGED <<taskVars, drained, wake, endVars, taken, strayed>>

\* The backoff is over.
SupResume ==
    /\ sup.pc = "pause"
    /\ \/ ~stop /\ ColdConnect
       \/ /\ stop
          /\ sup' = [sup EXCEPT !.pc = "ended"]
          /\ UNCHANGED <<conn, current, opened>>
    /\ UNCHANGED <<taskVars, drained, wake, statVars, endVars, taken, strayed>>

\* The connections _teardown_cold tears down.
ColdConns == {sup.conn} \cup drained

\* The supervisor starts over although a handoff builds a replacement, and it
\* did not have the chance to await it.
LeftBuilding == ~stop /\ sup.pc # "watch" /\ Building # {}

\* The start of _teardown_cold, up to its first await.
Leave(outcome) ==
    /\ conn' = IntakesCancelled(Cancelled(conn, ColdConns))
    /\ sup' = [sup EXCEPT !.pc = "teardown", !.outcome = outcome,
                          !.awaited = 0, !.leaving = ColdConns]
    /\ strayed' = (strayed \/ LeftBuilding \/ (taken /\ outcome = "timeout"))
    /\ UNCHANGED <<taskVars, poolVars, wake, opened, statVars, endVars>>

SupDialed ==
    /\ sup.pc = "dial"
    /\ conn' = Dialed(conn, sup.conn)
    /\ sup' = [sup EXCEPT !.pc = "hello"]
    /\ UNCHANGED <<taskVars, poolVars, wake, opened, statVars, endVars, taken,
                   strayed>>

SupDialFails ==
    /\ sup.pc = "dial"
    /\ \E outcome \in {"error", "timeout"} : Leave(outcome)
    /\ UNCHANGED taken

\* How the hello on c may fail: the edge's answer, a closed connection or
\* another status ("error"), or HELLO_TIMEOUT_SEC.
HelloFailures(c) ==
    CASE conn[c].answer = "auth"       -> {"auth", "timeout"}
      [] conn[c].answer = "superseded" -> {"superseded", "timeout"}
      [] OTHER                         -> {"error", "timeout"}

SupHelloFails ==
    /\ sup.pc = "hello"
    /\ \E outcome \in HelloFailures(sup.conn) :
        /\ Leave(outcome)
        /\ taken' = (taken \/ outcome = "superseded")

\* The hello succeeded: _start_serving, _record_connected(emit=True) and the
\* first call of _wait_close_or_handoff, which clears the wake.  Once stop is
\* set the loop ends without the call: the supervisor counts as woken.
SupServes ==
    /\ sup.pc = "hello" /\ conn[sup.conn].answer = "ok"
    /\ conn' = StartServing(conn, sup.conn)
    /\ status' = "connected" /\ told' = "connected"
    /\ wake' = stop
    /\ sup' = [sup EXCEPT !.pc = "watch"]
    /\ UNCHANGED <<taskVars, poolVars, opened, endVars, taken, strayed>>

\* Mutant: the supervisor does not wait for the handoff.
NeverAwaited == FALSE

\* The supervisor has to await a handoff.
HandoffAwaited == inFlight /\ owner # 0

\* _wait_close_or_handoff returned and a handoff is in flight.
SupAwaits ==
    /\ sup.pc = "watch" /\ (wake \/ conn[sup.conn].reading = "done")
    /\ ~stop /\ HandoffAwaited
    /\ sup' = [sup EXCEPT !.pc = "await", !.awaited = owner]
    /\ UNCHANGED <<conn, taskVars, poolVars, wake, opened, statVars, endVars,
                   taken, strayed>>

\* The supervisor was woken, by the end of the reader or by a handoff, and has
\* nothing to await.
Woken ==
    \/ /\ sup.pc = "watch" /\ (wake \/ conn[sup.conn].reading = "done")
       /\ stop \/ ~HandoffAwaited
    \/ sup.pc = "await" /\ hand[sup.awaited].stage = "done"

\* The loop of _run_once ends without looking at the connections: stop was set
\* when _wait_close_or_handoff returned.
StopSeen == stop /\ sup.pc = "watch"

Successor == current # 0 /\ current # sup.conn /\ ~conn[current].draining

\* The supervisor goes on with the replacement, or with its own connection.
SupFollows ==
    /\ Woken /\ ~StopSeen /\ ~authError
    /\ Successor \/ conn[sup.conn].reading = "on"
    /\ sup' = [sup EXCEPT !.pc = "watch", !.awaited = 0,
                          !.conn = IF Successor THEN current ELSE @]
    /\ wake' = stop
    /\ UNCHANGED <<conn, taskVars, poolVars, opened, statVars, endVars, taken,
                   strayed>>

\* _run_once leaves its loop, or raises.
SupLeaves ==
    /\ Woken
    /\ StopSeen \/ authError \/ (~Successor /\ conn[sup.conn].reading = "done")
    /\ Leave(CASE ~StopSeen /\ authError -> "auth"
               [] taken                  -> "superseded"
               [] OTHER                  -> "lost")
    /\ UNCHANGED taken

\* What serve_forever makes of the outcome: the status it ends with, or the
\* one it sleeps in.
ServeVerdict ==
    CASE sup.outcome = "superseded" -> "superseded"
      [] sup.outcome = "error" /\ taken -> "superseded"
      [] sup.outcome = "auth" \/ stop -> "closed"
      [] OTHER -> "reconnecting"

\* The cancelled tasks have ended: the rest of _teardown_cold, and serve_forever
\* up to its sleep or its end.
SupClosed ==
    /\ sup.pc = "teardown"
    /\ conn' = Dropped(conn, sup.leaving)
    /\ drained' = {}
    /\ current' = IF current = sup.conn THEN 0 ELSE current
    /\ NotifyStatus(ServeVerdict)
    /\ sup' = [sup EXCEPT !.pc = IF ServeVerdict = "reconnecting" THEN "pause"
                                 ELSE "ended",
                          !.outcome = "none", !.leaving = {}]
    /\ UNCHANGED <<taskVars, wake, opened, endVars, taken, strayed>>

-----------------------------------------------------------------------------
(* The edge, and the reader and the tasks of a connection.                 *)

\* The edge answers the hello.
HelloAnswered(c) ==
    /\ conn[c].stage = "hello" /\ conn[c].answer = "none"
    /\ conn[c].reading = "on"
    /\ \E a \in {"ok", "auth", "superseded"} :
            conn' = [conn EXCEPT ![c].answer = a]
    /\ UNCHANGED <<taskVars, poolVars, supVars, statVars, endVars, taken,
                   strayed>>

\* The reader sees the end of the connection, an infrastructure fault or a
\* GOAWAY that starts no handoff (also for HANDOFF_SETTLE_SEC).
ReadEnds(c) ==
    /\ conn[c].reading = "on"
    /\ conn' = Read(conn, c)
    /\ EnterReconnecting(conn, c)
    /\ UNCHANGED <<taskVars, poolVars, supVars, endVars, taken, strayed>>

\* The tests of _begin_handoff, but for HANDOFF_SETTLE_SEC.
MayBegin(c) == ~stop /\ ~conn[c].draining /\ current = c /\ ~inFlight

\* A NO_ERROR GOAWAY on the active connection: _begin_handoff, and the end of
\* the reader.
GoawayDrains(c) ==
    /\ conn[c].reading = "on" /\ MayBegin(c)
    /\ inFlight' = TRUE /\ authError' = FALSE /\ owner' = c
    /\ hand' = [hand EXCEPT ![c].stage = "begun"]
    /\ drained' = drained \cup {c}
    /\ conn' = Read([conn EXCEPT ![c].draining = TRUE], c)
    /\ EnterReconnecting(conn', c)
    /\ strayed' = (strayed \/ conn[c].closed)
    /\ UNCHANGED <<current, supVars, endVars, taken>>

\* The GOAWAY of a takeover: _maybe_mark_superseded_goaway.
GoawayTakes(c) ==
    /\ conn[c].reading = "on"
    /\ taken' = (taken \/ c \notin drained)
    /\ conn' = Read(conn, c)
    /\ UNCHANGED <<taskVars, poolVars, supVars, statVars, endVars, strayed>>

\* An intake is answered that the owner token is not valid, or a PING is not
\* acknowledged.
ForceDown(c) ==
    /\ conn[c].stage \in {"serving", "spent"} /\ conn[c].reading = "on"
    /\ ~conn[c].closed
    /\ conn' = Dropped(conn, {c})
    /\ EnterReconnecting(conn, c)
    /\ UNCHANGED <<taskVars, poolVars, supVars, endVars, taken, strayed>>

\* An intake was answered that another client took over: _intake_loop, which may
\* come to the answer when the connection has already ended.
IntakeTakes(c) ==
    /\ conn[c].stage = "serving" /\ c \notin drained
    /\ taken' = TRUE
    /\ conn' = Dropped(conn, {c})
    /\ UNCHANGED <<taskVars, poolVars, supVars, statVars, endVars, strayed>>

-----------------------------------------------------------------------------
(* _run_handoff.                                                           *)

\* The end of the try statement of _run_handoff for the handoff of o.
Settle(o, cs) ==
    /\ hand' = [hand EXCEPT ![o].stage = "drain", ![o].fresh = 0]
    /\ inFlight' = IF owner = o THEN FALSE ELSE inFlight
    /\ wake' = TRUE
    /\ conn' = cs

\* The handoff fails: the old connection is forced down.
HandFails(o, cs) == Settle(o, Dropped(cs, {o}))

\* The next dial of _make_replacement_connection, unless the runtime stopped or
\* the budget is spent.
HandDials(o) ==
    /\ hand[o].stage \in {"begun", "pause"} /\ ~hand[o].cancelled
    /\ \/ /\ ~stop /\ opened < MaxConns
          /\ opened' = opened + 1
          /\ conn' = Opened(conn)
          /\ hand' = [hand EXCEPT ![o].stage = "dial", ![o].fresh = opened + 1]
          /\ UNCHANGED <<inFlight, wake>>
       \/ /\ stop \/ hand[o].stage = "pause"
          /\ HandFails(o, conn)
          /\ UNCHANGED opened
    /\ UNCHANGED <<owner, authError, poolVars, sup, statVars, endVars, taken,
                   strayed>>

HandDialed(o) ==
    /\ hand[o].stage = "dial" /\ ~hand[o].cancelled
    /\ conn' = Dialed(conn, hand[o].fresh)
    /\ hand' = [hand EXCEPT ![o].stage = "hello"]
    /\ UNCHANGED <<owner, inFlight, authError, poolVars, supVars, statVars,
                   endVars, taken, strayed>>

\* The hello of the replacement succeeded: it serves and becomes active, and
\* the status is recorded without a callback.
HandServes(o) ==
    LET c == hand[o].fresh IN
    /\ hand[o].stage = "hello" /\ conn[c].answer = "ok" /\ ~hand[o].cancelled
    /\ current' = c
    /\ status' = "connected" /\ UNCHANGED told
    /\ Settle(o, StartServing(conn, c))
    /\ strayed' = (strayed \/ sup.pc \notin {"watch", "await"})
    /\ UNCHANGED <<owner, authError, drained, sup, opened, endVars, taken>>

\* Mutant: a takeover is noticed only in the answer to the hello.
AnswerDecides(outcome) == outcome \in {"auth", "superseded"}

\* The failures _make_replacement_connection does not retry.
Terminal(outcome) == outcome \in {"auth", "superseded"} \/ taken

\* Mutant: a replacement that failed is not closed.
LeftOpen(cs, c) == cs

\* A replacement that failed is closed, with its reader.
Discarded(cs, c) == Dropped(Cancelled(cs, {c}), {c})

\* The dial or the hello of the replacement failed.
HandTryFails(o) ==
    LET c == hand[o].fresh IN
    /\ hand[o].stage \in {"dial", "hello"} /\ ~hand[o].cancelled
    /\ \E outcome \in HelloFailures(c) :
        /\ taken' = (taken \/ outcome = "superseded")
        /\ authError' = (authError \/ outcome = "auth")
        /\ \/ /\ ~Terminal(outcome)
              /\ hand' = [hand EXCEPT ![o].stage = "pause", ![o].fresh = 0]
              /\ conn' = Discarded(conn, c)
              /\ UNCHANGED <<inFlight, wake>>
           \/ HandFails(o, Discarded(conn, c))
    /\ UNCHANGED <<owner, poolVars, sup, opened, statVars, endVars, strayed>>

\* _drain_old_connection, and the end of the task: intake tasks have ended.
HandDrains(o) ==
    /\ hand[o].stage = "drain" /\ ~hand[o].cancelled
    /\ conn' = [Dropped(conn, {o}) EXCEPT ![o].stage = "spent"]
    /\ drained' = drained \ {o}
    /\ hand' = [hand EXCEPT ![o].stage = "done"]
    /\ owner' = IF owner = o THEN 0 ELSE owner
    /\ UNCHANGED <<inFlight, authError, current, supVars, statVars, endVars,
                   taken, strayed>>

\* aclose cancelled the task.  One that had not run yet ends at once, one that
\* drains leaves its connection to aclose, and any other goes on to drain.
HandCancelled(o) ==
    /\ hand[o].cancelled /\ hand[o].stage # "done"
    /\ LET builds == o \in Building /\ hand[o].stage # "begun" IN
        /\ hand' = [hand EXCEPT ![o].stage = IF builds THEN "drain" ELSE "done",
                                ![o].cancelled = FALSE]
        /\ inFlight' = (inFlight /\ hand[o].stage = "begun")
        /\ owner' = IF hand[o].stage = "drain" THEN 0 ELSE owner
        /\ conn' = IF hand[o].stage \in {"dial", "hello"}
                   THEN Discarded(conn, hand[o].fresh) ELSE conn
    /\ UNCHANGED <<authError, poolVars, supVars, statVars, endVars, taken,
                   strayed>>

-----------------------------------------------------------------------------
(* aclose.                                                                 *)

\* Mutant: aclose closes only what drains.
DrainedOnly == drained

\* The connections aclose closes.
Closing == drained \cup ({current} \ {0})

\* aclose, up to its first await: the dispatch tasks, the readers of these
\* connections and the handoff are cancelled.
AcloseBegins ==
    /\ closer.pc = "idle"
    /\ stop' = TRUE
    /\ closer' = [pc |-> "closing", closing |-> Closing, awaited |-> owner]
    /\ conn' = IntakesCancelled(Cancelled(conn, Closing))
    /\ hand' = [o \in Conns |-> [hand[o] EXCEPT !.cancelled = (o = owner)]]
    /\ UNCHANGED <<owner, inFlight, authError, poolVars, supVars, statVars,
                   taken, strayed>>

\* The tasks have ended: the writers are closed.
AcloseEnds ==
    /\ closer.pc = "closing"
    /\ closer.awaited # 0 => hand[closer.awaited].stage = "done"
    /\ conn' = [c \in Conns |->
                  [conn[c] EXCEPT !.up = @ /\ c \notin closer.closing]]
    /\ closer' = [pc |-> "done", closing |-> {}, awaited |-> 0]
    /\ IF status = "superseded" THEN UNCHANGED statVars
       ELSE NotifyStatus("closed")
    /\ UNCHANGED <<taskVars, poolVars, supVars, stop, taken, strayed>>

Supervisor ==
    \/ SupStart \/ SupResume \/ SupDialed \/ SupDialFails
    \/ SupHelloFails \/ SupServes \/ SupAwaits \/ SupFollows
    \/ SupLeaves \/ SupClosed

Connection(c) ==
    \/ HelloAnswered(c) \/ ReadEnds(c) \/ GoawayDrains(c)
    \/ GoawayTakes(c) \/ ForceDown(c) \/ IntakeTakes(c)

Handoff(o) ==
    \/ HandDials(o) \/ HandDialed(o) \/ HandServes(o) \/ HandTryFails(o)
    \/ HandDrains(o) \/ HandCancelled(o)

\* The tasks that go on by themselves: each waits for another of them, or for
\* the edge and then not beyond a timeout.
Tasks == Supervisor \/ AcloseEnds \/ \E o \in Conns : Handoff(o)

HandoffNext ==
    \/ Tasks \/ AcloseBegins
    \/ \E c \in Conns : Connection(c)

\* serve_forever has returned, or the bound on connections is reached.
Rests == (sup.pc = "ended" \/ opened = MaxConns) /\ UNCHANGED handoffVars

HandoffSpec == HandoffInit /\ [][HandoffNext]_handoffVars

-----------------------------------------------------------------------------
(* Properties.  Most exclude what follows one of three races that the code *)
(* does not guard against (strayed): a handoff that goes on beside a       *)
(* supervisor that starts over, a handoff that begins on a connection that *)
(* was forced down before its reader came to the GOAWAY, and a hello that  *)
(* times out although a takeover was seen.                                 *)

HandoffTypeOK ==
    /\ conn \in [Conns ->
                    [stage : {"none", "dial", "hello", "serving", "spent"},
                     answer : {"none", "ok", "auth", "superseded"},
                     reading : {"off", "on", "done"}, closed : BOOLEAN,
                     draining : BOOLEAN, up : BOOLEAN]]
    /\ hand \in [Conns -> [stage : {"none", "begun", "dial", "hello", "pause",
                                    "drain", "done"},
                           fresh : 0..MaxConns, cancelled : BOOLEAN]]
    /\ sup.pc \in {"idle", "dial", "hello", "watch", "await", "teardown",
                   "pause", "ended"}
    /\ status \in {"idle", "connecting", "connected", "reconnecting", "closed",
                   "superseded"}
    /\ drained \subseteq Conns
    /\ {current, owner, opened, sup.conn} \subseteq 0..MaxConns

\* The connection parks intakes: the edge may hand it requests.
Serves(c) ==
    conn[c].stage = "serving" /\ ~conn[c].closed /\ ~conn[c].draining

\* What the docstring of _Connection says: the runtime holds a single active
\* connection, the pool that parks new intakes, beside those that drain.
OneServes == \A c, d \in Conns : Serves(c) /\ Serves(d) => c = d

\* The connection that parks intakes is the active one, which the supervisor
\* follows and replies are sent on: however handoffs, failures, teardowns and
\* aclose interleave, none is left behind to serve.
ActiveServes == ~strayed => \A c \in Conns : Serves(c) => c = current

\* The backoff begins, and serve_forever and aclose end, with every socket
\* closed: those of the attempt, of its predecessors that drain, and of each
\* replacement a handoff tried.
NothingLeftOpen ==
    /\ ~strayed
    /\ sup.pc = "pause" \/ (sup.pc = "ended" /\ closer.pc # "closing")
    => \A c \in Conns : ~conn[c].up

\* A handoff changes the status without calling on_status back; the callback
\* has nevertheless been told of the status the runtime is in.
CallbackKnows == ~strayed => told = status

\* A client that has seen that another took over opens no further connection,
\* neither by a cold redial nor by the retries of a handoff.
TakeoverEndsDialing ==
    [][taken /\ ~strayed => opened' = opened]_handoffVars

\* aclose returns and ends serve_forever, wherever the supervisor and the
\* handoffs are: none waits for a task that was cancelled, or for a connection
\* that nobody closes.
AcloseReturns ==
    [](stop => <>(strayed \/ (sup.pc = "ended" /\ closer.pc = "done")))
=============================================================================
