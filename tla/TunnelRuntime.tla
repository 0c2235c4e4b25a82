--------------------------- MODULE TunnelRuntime ---------------------------
(***************************************************************************)
(* The tunnel data-plane runtime (sdk/rust/src/tunnels/client/runtime.rs   *)
(* and status.rs): one supervisor (serve_forever / run_once) that dials    *)
(* the edge, says hello, parks a pool of intake workers and cold-redials   *)
(* when the connection goes down; the connection's driver and PING tasks;  *)
(* the dispatch tasks that answer forwarded requests; and any number of    *)
(* concurrent callers of aclose.  Tasks run on a multi-threaded executor,  *)
(* so every access to shared memory (an atomic, the status lock, the stop  *)
(* watch, the status callback) is a step of its own, and a task can be     *)
(* aborted only where it awaits.                                           *)
(*                                                                         *)
(* A connection attempt is a "run", numbered from 1.  Everything run_once  *)
(* creates afresh (the superseded flag, the force_down permit, the         *)
(* dispatch_handles vector, the tasks) is a function of the run.           *)
(***************************************************************************)
EXTENDS Integers, FiniteSets

CONSTANTS
    Slots,       \* intake workers of one connection (effective_pool of them)
    Http,        \* requests the edge may hand out that go through post_response
    Bridged,     \* requests that open a WebSocket bridge (BridgeCtx replies)
    Closers,     \* concurrent callers of aclose
    MaxRuns      \* bound on connection attempts

Requests == Http \cup Bridged

\* What an intake worker does when it is not handing over a request.
WorkerStates == {"off", "spawned", "ready", "parked", "flagged", "done"}

ASSUME RuntimeAssumption ==
    /\ MaxRuns \in Nat \ {0}
    /\ Http \cap Bridged = {}
    /\ Requests \cap WorkerStates = {}
    /\ "supervisor" \notin Closers

Runs     == 1..MaxRuns
Actors   == {"supervisor"} \cup Closers

InitialBackoff == 1
BackoffCap     == 30

\* The strings notify_status is called with.
Statuses == {"connecting", "connected", "reconnecting", "closed", "superseded"}

VARIABLES
    \* shared by all threads of the runtime
    stopped,   \* AtomicBool set by aclose
    stopSig,   \* the value held by the stop watch channel
    gen,       \* AtomicU64 generation
    active,    \* the published connection's run, 0 for None
    last,      \* last_notified_status
    cbs,       \* cbs[a]: status whose callback actor a is about to run
    handle,    \* the TunnelStatusHandle the callback writes
    \* the supervisor's locals
    pc, run, outcome, takenOver, stopping, backoff, batch,
    \* one entry per run
    link,      \* what the edge does with the connection
    driver,    \* connection driver task
    ping,      \* PING monitor task
    supFlag,   \* the superseded AtomicBool
    permit,    \* the permit stored in the force_down Notify
    served,    \* the run was counted in successful_connections
    connGen,   \* ActiveConn.generation
    intake,    \* intake[c][s]
    handles,   \* dispatch_handles: tasks owned by the run
    \* dispatch tasks and aclose callers
    disp, home,
    lingering, \* lingering_tasks
    closer, cbatch

sharedVars == <<stopped, stopSig, gen, active>>
statusVars == <<last, cbs, handle>>
localVars  == <<run, outcome, takenOver, stopping, backoff, batch>>
connVars   == <<link, driver, ping, supFlag, permit>>
poolVars   == <<served, connGen, intake>>
taskVars   == <<handles, disp, home, lingering>>
closeVars  == <<closer, cbatch>>
vars == <<sharedVars, statusVars, pc, localVars, connVars, poolVars, taskVars,
          closeVars>>

-----------------------------------------------------------------------------
(* Initial state: TunnelRuntime::new, before serve_forever or aclose.      *)

Init ==
    /\ stopped = FALSE /\ stopSig = FALSE /\ gen = 0 /\ active = 0
    /\ last = "none" /\ cbs = [a \in Actors |-> "none"]
    /\ handle = "idle"
    /\ pc = "start" /\ run = 0 /\ outcome = "none"
    /\ takenOver = FALSE /\ stopping = FALSE
    /\ backoff = InitialBackoff /\ batch = {}
    /\ link = [c \in Runs |-> "none"] /\ driver = [c \in Runs |-> "off"]
    /\ ping = [c \in Runs |-> "off"] /\ supFlag = [c \in Runs |-> FALSE]
    /\ permit = [c \in Runs |-> FALSE] /\ served = [c \in Runs |-> FALSE]
    /\ connGen = [c \in Runs |-> 0]
    /\ intake = [c \in Runs |-> [s \in Slots |-> "off"]]
    /\ handles = [c \in Runs |-> {}]
    /\ disp = [r \in Requests |-> "none"] /\ home = [r \in Requests |-> 0]
    /\ lingering = {}
    /\ closer = [k \in Closers |-> "idle"] /\ cbatch = [k \in Closers |-> {}]

-----------------------------------------------------------------------------
(* Status notification.                                                    *)

\* Mutant: only repetitions are suppressed.
SuppressedRepeats(status) == last = status

\* The edge-triggered test notify_status makes under the status lock.
Suppressed(status) ==
    \/ last = status
    \/ last = "superseded" /\ status = "closed"

\* notify_status up to the end of its locked block.  The callback runs after
\* the lock is released, as the actor's next step (RunCallback).
Notify(a, status) ==
    /\ handle' = handle
    /\ \/ Suppressed(status) /\ UNCHANGED <<last, cbs>>
       \/ /\ ~Suppressed(status)
          /\ last' = status
          /\ cbs' = [cbs EXCEPT ![a] = status]

\* The on_status callback of TunnelStatusHandle::callback: TunnelStatusHandle::update.
RunCallback(a) ==
    /\ cbs[a] # "none"
    /\ handle' = cbs[a]
    /\ cbs' = [cbs EXCEPT ![a] = "none"]
    /\ UNCHANGED <<sharedVars, last, pc, localVars, connVars, poolVars, taskVars,
                   closeVars>>

-----------------------------------------------------------------------------
(* The supervisor: serve_forever.                                          *)

\* The supervisor is at label l and not inside a status callback.
At(l) == pc = l /\ cbs["supervisor"] = "none"

\* A supervisor step that only notifies and moves on.
Say(from, status, to) ==
    /\ At(from)
    /\ pc' = to
    /\ Notify("supervisor", status)
    /\ UNCHANGED <<sharedVars, localVars, connVars, poolVars, taskVars, closeVars>>

\* A supervisor step that changes nothing but its own control and locals.
Quiet == UNCHANGED <<sharedVars, statusVars, connVars, poolVars, taskVars, closeVars>>

\* Entry of serve_forever: the first is_stopped test.
ServeStart ==
    /\ At("start")
    /\ pc' = IF stopped THEN "closing" ELSE "sayConnecting"
    /\ UNCHANGED localVars /\ Quiet

SayConnecting == Say("sayConnecting", "connecting", "loop")

\* Head of the retry loop: is_stopped, then run_once creates the fresh
\* force_down, superseded and dispatch_handles of the next run.
LoopTop ==
    /\ At("loop")
    /\ \/ /\ stopped
          /\ pc' = "closing" /\ UNCHANGED localVars
       \/ /\ ~stopped /\ run < MaxRuns
          /\ run' = run + 1 /\ outcome' = "none"
          /\ takenOver' = FALSE /\ stopping' = FALSE
          /\ pc' = "dial" /\ UNCHANGED <<backoff, batch>>
    /\ Quiet

\* Mutant: a run that was connected does not reset the backoff.
DecideNoReset ==
    /\ At("decide")
    /\ pc' = CASE outcome = "auth" -> "closing"
               [] outcome = "superseded" -> "saySuperseded"
               [] OTHER -> IF stopped THEN "closing" ELSE "sleep"
    /\ UNCHANGED localVars /\ Quiet

\* The match on run_once's result.  A clean result, or a run that was counted
\* as a successful connection, puts the backoff back to its initial value.
Decide ==
    /\ At("decide")
    /\ \/ outcome = "auth" /\ pc' = "closing" /\ UNCHANGED backoff
       \/ outcome = "superseded" /\ pc' = "saySuperseded" /\ UNCHANGED backoff
       \/ /\ outcome \in {"ok", "transient"}
          /\ backoff' = IF outcome = "ok" \/ served[run] THEN InitialBackoff
                        ELSE backoff
          /\ pc' = IF stopped THEN "closing" ELSE "sleep"
    /\ UNCHANGED <<run, outcome, takenOver, stopping, batch>> /\ Quiet

\* sleep_or_stop: wait_for_stop subscribes and looks at the watch, then races
\* the timer against it (the stop side first).
SleepBegin ==
    /\ At("sleep")
    /\ pc' = IF stopSig THEN "closing" ELSE "sleeping"
    /\ UNCHANGED localVars /\ Quiet

\* Mutant: the delay is doubled without a cap.
SleepEndNoCap ==
    /\ At("sleeping")
    /\ pc' = IF stopSig THEN "closing" ELSE "loop"
    /\ backoff' = IF stopSig THEN backoff ELSE 2 * backoff
    /\ UNCHANGED <<run, outcome, takenOver, stopping, batch>> /\ Quiet

SleepEnd ==
    /\ At("sleeping")
    /\ \/ stopSig /\ pc' = "closing" /\ UNCHANGED backoff
       \/ /\ ~stopSig
          /\ pc' = "loop"
          /\ backoff' = IF 2 * backoff > BackoffCap THEN BackoffCap ELSE 2 * backoff
    /\ UNCHANGED <<run, outcome, takenOver, stopping, batch>> /\ Quiet

\* The two ways serve_forever returns.
SayClosed     == Say("closing", "closed", "returned")
SaySuperseded == Say("saySuperseded", "superseded", "returned")

-----------------------------------------------------------------------------
(* run_once: dial.                                                         *)

\* Leave run_once with result o, with no connection to tear down.
Leave(o) ==
    /\ outcome' = o
    /\ UNCHANGED <<run, takenOver, stopping, backoff, batch>>

\* wait_for_stop around establish_connection: subscribe and look at the watch.
DialBegin ==
    /\ At("dial")
    /\ \/ stopSig /\ pc' = "decide" /\ Leave("ok")
       \/ ~stopSig /\ pc' = "dialing" /\ UNCHANGED localVars
    /\ Quiet

DialStopped ==
    /\ At("dialing") /\ stopSig
    /\ pc' = "decide" /\ Leave("ok") /\ Quiet

\* start_h2_connection succeeded: driver and PING monitor are spawned.
DialOk ==
    /\ At("dialing") /\ ~stopSig
    /\ pc' = "hello"
    /\ link' = [link EXCEPT ![run] = "up"]
    /\ driver' = [driver EXCEPT ![run] = "running"]
    /\ ping' = [ping EXCEPT ![run] = "sleeping"]
    /\ UNCHANGED <<sharedVars, statusVars, localVars, supFlag, permit, poolVars,
                   taskVars, closeVars>>

\* A tcp, tls or h2 error, or the connect deadline.
DialFail ==
    /\ At("dialing") /\ ~stopSig
    /\ pc' = "dialFailed" /\ Leave("transient") /\ Quiet

\* notify_reconnecting reads is_stopped before it notifies.
Reconnecting(from, say, to) ==
    /\ At(from)
    /\ pc' = IF stopped THEN to ELSE say
    /\ UNCHANGED localVars /\ Quiet

DialFailed == Reconnecting("dialFailed", "sayDialFailed", "decide")
SayDialFailed == Say("sayDialFailed", "reconnecting", "decide")

-----------------------------------------------------------------------------
(* run_once: hello.                                                        *)

\* The driver's oneshot has fired (or its sender is gone).
Closed(c) == driver[c] = "done"

HelloBegin ==
    /\ At("hello")
    /\ \/ stopSig /\ pc' = "helloQuit" /\ Leave("ok")
       \/ ~stopSig /\ pc' = "helloing" /\ UNCHANGED localVars
    /\ Quiet

\* The biased select of stop, closed and send_hello, in that order.
HelloStopped ==
    /\ At("helloing") /\ stopSig
    /\ pc' = "helloQuit" /\ Leave("ok") /\ Quiet

HelloClosed ==
    /\ At("helloing") /\ ~stopSig /\ Closed(run)
    /\ pc' = "helloFailed"
    /\ Leave(IF supFlag[run] THEN "superseded" ELSE "transient")
    /\ Quiet

\* The results of send_hello: 200 with an owner token; 401 or 403; 409 with the
\* superseded reason (the edge has already displaced us); anything else, a
\* broken stream or the hello deadline.
HelloReply(o) ==
    /\ At("helloing") /\ ~stopSig /\ ~Closed(run)
    /\ \/ o = "accepted" /\ link[run] = "up" /\ pc' = "park" /\ UNCHANGED localVars
       \/ o = "auth" /\ link[run] = "up" /\ pc' = "helloFailed" /\ Leave(o)
       \/ o = "superseded" /\ link[run] = "displaced"
          /\ pc' = "helloFailed" /\ Leave(o)
       \/ o = "transient" /\ pc' = "helloFailed" /\ Leave(o)
    /\ Quiet

\* A failed hello notifies "reconnecting" unless it is terminal.
HelloFailed ==
    /\ At("helloFailed")
    /\ pc' = IF supFlag[run] \/ outcome # "transient" THEN "helloJoin" ELSE "helloRetry"
    /\ UNCHANGED localVars /\ Quiet

HelloRetry == Reconnecting("helloRetry", "sayHelloRetry", "helloJoin")
SayHelloRetry == Say("sayHelloRetry", "reconnecting", "helloJoin")

\* Abort of the driver and PING tasks: a task that awaits is gone at once, a
\* driver that is past its await finishes what it is doing.
AbortConnection ==
    /\ driver' = [driver EXCEPT ![run] = IF @ = "running" THEN "done" ELSE @]
    /\ ping' = [ping EXCEPT ![run] = "off"]

\* run_once returns: its force_down is dropped, and so is the socket.
DropConnection ==
    /\ permit' = [permit EXCEPT ![run] = FALSE]
    /\ link' = [link EXCEPT ![run] = "none"]
    /\ UNCHANGED <<driver, ping, supFlag>>

\* shutdown_connection_tasks: abort, then wait until both tasks have finished.
HelloAbort ==
    /\ At("helloJoin") \/ At("helloQuit")
    /\ pc' = IF pc = "helloJoin" THEN "helloJoined" ELSE "helloQuitJoined"
    /\ AbortConnection
    /\ UNCHANGED <<sharedVars, statusVars, localVars, link, supFlag, permit, poolVars,
                   taskVars, closeVars>>

\* Mutant: the takeover flag is not read again after the driver is gone.
HelloVerdictStale ==
    /\ At("helloJoined") /\ Closed(run)
    /\ pc' = "decide"
    /\ Leave(IF stopped THEN "ok" ELSE outcome)
    /\ DropConnection
    /\ UNCHANGED <<sharedVars, statusVars, poolVars, taskVars, closeVars>>

\* After the tasks are gone a stop wins, then a takeover seen by the driver
\* meanwhile, then the error itself.
HelloVerdict ==
    /\ At("helloJoined") /\ Closed(run)
    /\ pc' = "decide"
    /\ Leave(IF stopped THEN "ok" ELSE IF supFlag[run] THEN "superseded" ELSE outcome)
    /\ DropConnection
    /\ UNCHANGED <<sharedVars, statusVars, poolVars, taskVars, closeVars>>

HelloQuitJoined ==
    /\ At("helloQuitJoined") /\ Closed(run)
    /\ pc' = "decide" /\ DropConnection
    /\ UNCHANGED <<sharedVars, statusVars, localVars, poolVars, taskVars, closeVars>>

-----------------------------------------------------------------------------
(* run_once: park the pool, publish, serve.                                *)

\* The run takes its generation.
TakeGeneration ==
    /\ At("park")
    /\ gen' = gen + 1
    /\ connGen' = [connGen EXCEPT ![run] = gen + 1]
    /\ pc' = "spawn"
    /\ UNCHANGED <<stopped, stopSig, active, statusVars, localVars, connVars, served,
                   intake, taskVars, closeVars>>

SpawnPool ==
    /\ At("spawn")
    /\ intake' = [intake EXCEPT ![run] = [s \in Slots |-> "spawned"]]
    /\ pc' = "starting"
    /\ UNCHANGED <<sharedVars, statusVars, localVars, connVars, served, connGen,
                   taskVars, closeVars>>

\* Every worker has sent its start signal; the connection is published.
Publish ==
    /\ At("starting")
    /\ \A s \in Slots : intake[run][s] # "spawned"
    /\ active' = run
    /\ pc' = "announce"
    /\ UNCHANGED <<stopped, stopSig, gen, statusVars, localVars, connVars, poolVars,
                   taskVars, closeVars>>

\* successful_connections is counted and "connected" notified.
Announce ==
    /\ At("announce")
    /\ served' = [served EXCEPT ![run] = TRUE]
    /\ Notify("supervisor", "connected")
    /\ pc' = "subscribe"
    /\ UNCHANGED <<sharedVars, localVars, connVars, connGen, intake, taskVars, closeVars>>

ServeBegin ==
    /\ At("subscribe")
    /\ pc' = IF stopSig THEN "loadFlag" ELSE "serve"
    /\ UNCHANGED localVars /\ Quiet

\* Mutant: the select leaves out the stop watch.
ServeWakeNoStop ==
    /\ At("serve")
    /\ Closed(run) \/ permit[run]
    /\ pc' = "loadFlag"
    /\ UNCHANGED localVars /\ Quiet

\* The unbiased select of closed, force_down and stop.
ServeWake ==
    /\ At("serve")
    /\ Closed(run) \/ permit[run] \/ stopSig
    /\ pc' = "loadFlag"
    /\ UNCHANGED localVars /\ Quiet

LoadTakeover ==
    /\ At("loadFlag")
    /\ takenOver' = supFlag[run]
    /\ pc' = "loadStop"
    /\ UNCHANGED <<run, outcome, stopping, backoff, batch>> /\ Quiet

LoadStopping ==
    /\ At("loadStop")
    /\ stopping' = stopped
    /\ pc' = "retire"
    /\ UNCHANGED <<run, outcome, takenOver, backoff, batch>> /\ Quiet

\* Mutant: a connection lost without a stop is not reported.
RetireGenerationQuiet ==
    /\ At("retire")
    /\ gen' = gen + 1
    /\ pc' = "unpublish"
    /\ UNCHANGED <<stopped, stopSig, active, statusVars, localVars, connVars, poolVars,
                   taskVars, closeVars>>

\* Bump the generation: replies of this run are refused from here on.
RetireGeneration ==
    /\ At("retire")
    /\ gen' = gen + 1
    /\ pc' = IF takenOver \/ stopping THEN "unpublish" ELSE "downRetry"
    /\ UNCHANGED <<stopped, stopSig, active, statusVars, localVars, connVars, poolVars,
                   taskVars, closeVars>>

DownRetry == Reconnecting("downRetry", "sayDownRetry", "unpublish")
SayDownRetry == Say("sayDownRetry", "reconnecting", "unpublish")

Unpublish ==
    /\ At("unpublish")
    /\ active' = 0
    /\ pc' = "drain"
    /\ UNCHANGED <<stopped, stopSig, gen, statusVars, localVars, connVars, poolVars,
                   taskVars, closeVars>>

-----------------------------------------------------------------------------
(* run_once: teardown.                                                     *)

Finished(r) == disp[r] \in {"posted", "failed", "aborted"}

\* The dispatch tasks of a set after abort: one that awaits is gone, one that
\* is between its generation test and its send runs on to its next await.
AbortAll(R) == [r \in Requests |-> IF r \in R /\ disp[r] = "running" THEN "aborted"
                                   ELSE disp[r]]

\* The supervisor takes the dispatch tasks out of dispatch_handles.
DrainHandles ==
    /\ At("drain")
    /\ batch' = handles[run]
    /\ handles' = [handles EXCEPT ![run] = {}]
    /\ pc' = "abort"
    /\ UNCHANGED <<sharedVars, statusVars, run, outcome, takenOver, stopping, backoff,
                   connVars, poolVars, disp, home, lingering, closeVars>>

\* Worker states between two awaits, which an abort does not interrupt.
MidPoll == {"flagged"} \cup Requests

\* The workers of run c have been aborted.
Tearing(c) == c # run \/ pc \in {"join", "leave", "decide"}

\* shutdown_owned_tasks aborts intake workers, dispatches, driver and PING.
AbortTasks ==
    /\ At("abort")
    /\ intake' = [intake EXCEPT ![run] =
                    [s \in Slots |-> IF @[s] \in MidPoll THEN @[s] ELSE "done"]]
    /\ disp' = AbortAll(batch)
    /\ AbortConnection
    /\ pc' = "join"
    /\ UNCHANGED <<sharedVars, statusVars, localVars, link, supFlag, permit, served,
                   connGen, handles, home, lingering, closeVars>>

\* Mutant: the unfinished dispatches are dropped.
JoinTasksForget ==
    /\ At("join")
    /\ Closed(run) /\ \A s \in Slots : intake[run][s] = "done"
    /\ batch' = {}
    /\ pc' = "leave"
    /\ UNCHANGED <<sharedVars, statusVars, run, outcome, takenOver, stopping, backoff,
                   connVars, poolVars, taskVars, closeVars>>

\* Mutant: aborted tasks are not waited for.
JoinTasksAtOnce ==
    /\ At("join")
    /\ lingering' = lingering \cup {r \in batch : ~Finished(r)}
    /\ batch' = {}
    /\ pc' = "leave"
    /\ UNCHANGED <<sharedVars, statusVars, run, outcome, takenOver, stopping, backoff,
                   connVars, poolVars, handles, disp, home, closeVars>>

\* ... waits for them, at most the teardown budget, and retain_tasks keeps the
\* dispatches that are still running.
JoinTasks ==
    /\ At("join")
    /\ Closed(run) /\ \A s \in Slots : intake[run][s] = "done"
    /\ lingering' = lingering \cup {r \in batch : ~Finished(r)}
    /\ batch' = {}
    /\ pc' = "leave"
    /\ UNCHANGED <<sharedVars, statusVars, run, outcome, takenOver, stopping, backoff,
                   connVars, poolVars, handles, disp, home, closeVars>>

\* Mutant: dropping an OwnedTask does not abort it.
LeaveRunDetached ==
    /\ At("leave")
    /\ handles' = [handles EXCEPT ![run] = {}]
    /\ Leave(IF takenOver THEN "superseded" ELSE IF stopping THEN "ok" ELSE "transient")
    /\ pc' = "decide" /\ DropConnection
    /\ UNCHANGED <<sharedVars, statusVars, poolVars, disp, home, lingering, closeVars>>

\* run_once returns: dropping the last reference to dispatch_handles aborts
\* whatever a worker pushed after the drain.
LeaveRun ==
    /\ At("leave")
    /\ disp' = AbortAll(handles[run])
    /\ handles' = [handles EXCEPT ![run] = {}]
    /\ Leave(IF takenOver THEN "superseded" ELSE IF stopping THEN "ok" ELSE "transient")
    /\ pc' = "decide" /\ DropConnection
    /\ UNCHANGED <<sharedVars, statusVars, poolVars, home, lingering, closeVars>>

-----------------------------------------------------------------------------
(* Connection driver and PING monitor of run c.                            *)

\* A step of a task other than the supervisor and aclose.
TaskStep == UNCHANGED <<pc, localVars, closeVars>>

\* connection.await returns: with the superseded GOAWAY code once the edge has
\* displaced this client, or for any other reason.
DriverEnds(c) ==
    /\ driver[c] = "running"
    /\ \/ link[c] = "displaced" /\ driver' = [driver EXCEPT ![c] = "goaway"]
       \/ driver' = [driver EXCEPT ![c] = "ending"]
    /\ UNCHANGED <<sharedVars, statusVars, link, ping, supFlag, permit, poolVars, taskVars>>
    /\ TaskStep

\* The takeover flag is stored before closed_tx is sent.
DriverRecords(c) ==
    /\ driver[c] = "goaway"
    /\ supFlag' = [supFlag EXCEPT ![c] = TRUE]
    /\ driver' = [driver EXCEPT ![c] = "ending"]
    /\ UNCHANGED <<sharedVars, statusVars, link, ping, permit, poolVars, taskVars>>
    /\ TaskStep

DriverCloses(c) ==
    /\ driver[c] = "ending"
    /\ driver' = [driver EXCEPT ![c] = "done"]
    /\ UNCHANGED <<sharedVars, statusVars, link, ping, supFlag, permit, poolVars, taskVars>>
    /\ TaskStep

\* After each interval the monitor looks at `stopped` and sends a PING.
PingSends(c) ==
    /\ ping[c] = "sleeping"
    /\ ping' = [ping EXCEPT ![c] = IF stopped THEN "off" ELSE "pinging"]
    /\ UNCHANGED <<sharedVars, statusVars, link, driver, supFlag, permit, poolVars, taskVars>>
    /\ TaskStep

PingAcked(c) ==
    /\ ping[c] = "pinging" /\ link[c] # "silent" /\ ~Closed(c)
    /\ ping' = [ping EXCEPT ![c] = "sleeping"]
    /\ UNCHANGED <<sharedVars, statusVars, link, driver, supFlag, permit, poolVars, taskVars>>
    /\ TaskStep

\* Mutant: the monitor ends without forcing the connection down.
PingFailsQuietly(c) ==
    /\ ping[c] = "pinging"
    /\ ping' = [ping EXCEPT ![c] = "off"]
    /\ UNCHANGED <<sharedVars, statusVars, link, driver, supFlag, permit, poolVars, taskVars>>
    /\ TaskStep

\* The PING fails or is not acknowledged in time: force the connection down,
\* whether or not an aclose has begun meanwhile.
PingFails(c) ==
    /\ ping[c] = "pinging"
    /\ permit' = [permit EXCEPT ![c] = TRUE]
    /\ ping' = [ping EXCEPT ![c] = "off"]
    /\ UNCHANGED <<sharedVars, statusVars, link, driver, supFlag, poolVars, taskVars>>
    /\ TaskStep

-----------------------------------------------------------------------------
(* Intake worker s of run c.                                               *)

SetIntake(c, s, to) == intake' = [intake EXCEPT ![c] = [@ EXCEPT ![s] = to]]

\* An intake step that touches nothing but the worker.
Worker(c, s, from, to) ==
    /\ intake[c][s] = from
    /\ SetIntake(c, s, to)
    /\ UNCHANGED <<sharedVars, statusVars, connVars, served, connGen, taskVars>>
    /\ TaskStep

\* The start signal the supervisor awaits.
IntakeStart(c, s) == Worker(c, s, "spawned", "ready")

\* The loop condition: is_stopped ends the worker.
IntakePark(c, s) == Worker(c, s, "ready", IF stopped THEN "done" ELSE "parked")

\* A non-200 without a reason that matters, a malformed envelope, or an error
\* (which waits 250 ms first): go round the loop again.
IntakeAgain(c, s) == Worker(c, s, "parked", "ready")

\* The edge answers with request r and its dispatch is spawned.  Until the next
\* await the worker holds r (a request as its state), whatever aborts it.
IntakeDeliver(c, s, r) ==
    /\ intake[c][s] = "parked" /\ link[c] = "up" /\ ~Closed(c)
    /\ disp[r] = "none"
    /\ disp' = [disp EXCEPT ![r] = "running"]
    /\ home' = [home EXCEPT ![r] = c]
    /\ SetIntake(c, s, r)
    /\ UNCHANGED <<sharedVars, statusVars, connVars, served, connGen, handles, lingering>>
    /\ TaskStep

\* push_dispatch_task: prune the finished handles and push the new one.  A
\* worker aborted in between ends at its next await.
IntakePush(c, s, r) ==
    /\ intake[c][s] = r
    /\ handles' = [handles EXCEPT ![c] = {q \in @ : ~Finished(q)} \cup {r}]
    /\ SetIntake(c, s, IF Tearing(c) THEN "done" ELSE "ready")
    /\ UNCHANGED <<sharedVars, statusVars, connVars, served, connGen, disp, home, lingering>>
    /\ TaskStep

\* The 409 superseded answer: store the flag, then force the connection down.
IntakeTakenOver(c, s) ==
    /\ intake[c][s] = "parked" /\ link[c] = "displaced" /\ ~Closed(c)
    /\ supFlag' = [supFlag EXCEPT ![c] = TRUE]
    /\ SetIntake(c, s, "flagged")
    /\ UNCHANGED <<sharedVars, statusVars, link, driver, ping, permit, served, connGen,
                   taskVars>>
    /\ TaskStep

\* ... and the 401 answer (the owner token is no longer valid).
IntakeForceDown(c, s) ==
    /\ \/ intake[c][s] = "flagged"
       \/ intake[c][s] = "parked" /\ link[c] \in {"up", "displaced"} /\ ~Closed(c)
    /\ permit' = [permit EXCEPT ![c] = TRUE]
    /\ SetIntake(c, s, "done")
    /\ UNCHANGED <<sharedVars, statusVars, link, driver, ping, supFlag, served, connGen,
                   taskVars>>
    /\ TaskStep

-----------------------------------------------------------------------------
(* Dispatch task of request r.                                             *)

\* Mutant: post_response sends without looking at the generation.
PostCheckUnfenced(r) ==
    /\ disp[r] = "running"
    /\ disp' = [disp EXCEPT ![r] = "checked"]
    /\ UNCHANGED <<sharedVars, statusVars, connVars, poolVars, handles, home, lingering>>
    /\ TaskStep

\* post_response compares the runtime's generation with its connection's and
\* gives up if they differ; a bridge's post_reply makes no such test.
PostCheck(r) ==
    /\ disp[r] = "running"
    /\ disp' = [disp EXCEPT ![r] =
                  IF r \in Bridged \/ gen = connGen[home[r]] THEN "checked" ELSE "failed"]
    /\ UNCHANGED <<sharedVars, statusVars, connVars, poolVars, handles, home, lingering>>
    /\ TaskStep

\* send_request on the connection's own handle; it fails once the driver is gone.
PostSend(r) ==
    /\ disp[r] = "checked"
    /\ disp' = [disp EXCEPT ![r] = IF Closed(home[r]) THEN "failed" ELSE "posted"]
    /\ UNCHANGED <<sharedVars, statusVars, connVars, poolVars, handles, home, lingering>>
    /\ TaskStep

-----------------------------------------------------------------------------
(* The edge: a rival client takes the tunnel, or the path goes silent.     *)

EdgeDisplaces(c) ==
    /\ link[c] = "up" /\ ~Closed(c)
    /\ link' = [link EXCEPT ![c] = "displaced"]
    /\ UNCHANGED <<sharedVars, statusVars, driver, ping, supFlag, permit, poolVars, taskVars>>
    /\ TaskStep

PathGoesSilent(c) ==
    /\ link[c] = "up" /\ ~Closed(c)
    /\ link' = [link EXCEPT ![c] = "silent"]
    /\ UNCHANGED <<sharedVars, statusVars, driver, ping, supFlag, permit, poolVars, taskVars>>
    /\ TaskStep

-----------------------------------------------------------------------------
(* aclose, called by k.                                                    *)

CloserAt(k, l) == closer[k] = l /\ cbs[k] = "none"
CloserTo(k, l) == closer' = [closer EXCEPT ![k] = l]
CloserStep == UNCHANGED <<pc, localVars, connVars, poolVars>>

CloseStore(k) ==
    /\ CloserAt(k, "idle") /\ stopped' = TRUE /\ CloserTo(k, "bump")
    /\ UNCHANGED <<stopSig, gen, active, statusVars, taskVars, cbatch>> /\ CloserStep

CloseBump(k) ==
    /\ CloserAt(k, "bump") /\ gen' = gen + 1 /\ CloserTo(k, "signal")
    /\ UNCHANGED <<stopped, stopSig, active, statusVars, taskVars, cbatch>> /\ CloserStep

CloseSignal(k) ==
    /\ CloserAt(k, "signal") /\ stopSig' = TRUE /\ CloserTo(k, "say")
    /\ UNCHANGED <<stopped, gen, active, statusVars, taskVars, cbatch>> /\ CloserStep

CloseSay(k) ==
    /\ CloserAt(k, "say") /\ Notify(k, "closed") /\ CloserTo(k, "clear")
    /\ UNCHANGED <<sharedVars, taskVars, cbatch>> /\ CloserStep

CloseClear(k) ==
    /\ CloserAt(k, "clear") /\ active' = 0 /\ CloserTo(k, "take")
    /\ UNCHANGED <<stopped, stopSig, gen, statusVars, taskVars, cbatch>> /\ CloserStep

\* mem::take of lingering_tasks, then shutdown_owned_tasks and retain_tasks.
CloseTake(k) ==
    /\ CloserAt(k, "take") /\ CloserTo(k, "join")
    /\ cbatch' = [cbatch EXCEPT ![k] = lingering]
    /\ lingering' = {}
    /\ disp' = AbortAll(lingering)
    /\ UNCHANGED <<sharedVars, statusVars, handles, home>> /\ CloserStep

CloseJoin(k) ==
    /\ CloserAt(k, "join") /\ CloserTo(k, "done")
    /\ lingering' = lingering \cup {r \in cbatch[k] : ~Finished(r)}
    /\ cbatch' = [cbatch EXCEPT ![k] = {}]
    /\ UNCHANGED <<sharedVars, statusVars, handles, disp, home>> /\ CloserStep

-----------------------------------------------------------------------------
(* Next-state relation and fairness.                                       *)

Supervisor ==
    \/ ServeStart \/ SayConnecting \/ LoopTop \/ Decide \/ SleepBegin \/ SleepEnd
    \/ SayClosed \/ SaySuperseded
    \/ DialBegin \/ DialStopped \/ DialOk \/ DialFail \/ DialFailed \/ SayDialFailed
    \/ HelloBegin \/ HelloStopped \/ HelloClosed
    \/ \E o \in {"accepted", "auth", "superseded", "transient"} : HelloReply(o)
    \/ HelloFailed \/ HelloRetry \/ SayHelloRetry \/ HelloAbort \/ HelloVerdict
    \/ HelloQuitJoined
    \/ TakeGeneration \/ SpawnPool \/ Publish \/ Announce \/ ServeBegin \/ ServeWake
    \/ LoadTakeover \/ LoadStopping \/ RetireGeneration \/ DownRetry \/ SayDownRetry
    \/ Unpublish \/ DrainHandles \/ AbortTasks \/ JoinTasks \/ LeaveRun

Driver(c) == DriverEnds(c) \/ DriverRecords(c) \/ DriverCloses(c)
Ping(c) == PingSends(c) \/ PingAcked(c) \/ PingFails(c)

Intake(c, s) ==
    \/ IntakeStart(c, s) \/ IntakePark(c, s) \/ IntakeAgain(c, s)
    \/ IntakeTakenOver(c, s) \/ IntakeForceDown(c, s)
    \/ \E r \in Requests : IntakeDeliver(c, s, r) \/ IntakePush(c, s, r)

Dispatch(r) == PostCheck(r) \/ PostSend(r)

Edge(c) == EdgeDisplaces(c) \/ PathGoesSilent(c)

\* What follows a caller's decision to close.
CloserWork(k) ==
    CloseBump(k) \/ CloseSignal(k) \/ CloseSay(k) \/ CloseClear(k) \/ CloseTake(k)
        \/ CloseJoin(k)

\* Nothing is left to do: everything has returned, or the bound on attempts is
\* reached.
Terminated ==
    /\ \/ pc = "returned" /\ \A k \in Closers : closer[k] = "done"
       \/ pc = "loop" /\ run = MaxRuns
    /\ UNCHANGED vars

Next ==
    \/ Supervisor
    \/ \E c \in Runs : Driver(c) \/ Ping(c) \/ Edge(c)
    \/ \E c \in Runs, s \in Slots : Intake(c, s)
    \/ \E r \in Requests : Dispatch(r)
    \/ \E k \in Closers : CloseStore(k) \/ CloserWork(k)
    \/ \E a \in Actors : RunCallback(a)
    \/ Terminated

\* The executor keeps polling runnable tasks, callbacks return, the PING timer
\* fires, and an aclose that was begun is carried through.  Nothing is assumed
\* of the edge, of the answers to an intake, or of whether anyone calls aclose.
Fairness ==
    /\ WF_vars(Supervisor)
    /\ \A a \in Actors : WF_vars(RunCallback(a))
    /\ \A k \in Closers : WF_vars(CloserWork(k))
    /\ \A c \in Runs : /\ WF_vars(DriverRecords(c) \/ DriverCloses(c))
                       /\ WF_vars(Ping(c))
    /\ \A c \in Runs, s \in Slots :
          WF_vars(\/ IntakeStart(c, s) \/ \E r \in Requests : IntakePush(c, s, r)
                  \/ intake[c][s] = "flagged" /\ IntakeForceDown(c, s))
    /\ \A r \in Requests : WF_vars(Dispatch(r))

Spec     == Init /\ [][Next]_vars
FairSpec == Spec /\ Fairness
-----------------------------------------------------------------------------
(* Properties.                                                             *)

PcLabels ==
    {"start", "sayConnecting", "loop", "decide", "sleep", "sleeping", "closing",
     "saySuperseded", "returned", "dial", "dialing", "dialFailed", "sayDialFailed",
     "hello", "helloing", "helloQuit", "helloFailed", "helloRetry", "sayHelloRetry",
     "helloJoin", "helloJoined", "helloQuitJoined", "park", "spawn", "starting",
     "announce", "subscribe", "serve", "loadFlag", "loadStop", "retire", "downRetry",
     "sayDownRetry", "unpublish", "drain", "abort", "join", "leave"}

SharedTypes == stopped \in BOOLEAN /\ stopSig \in BOOLEAN /\ gen \in Nat /\ active \in 0..MaxRuns

StatusTypes == /\ last \in Statuses \cup {"none"}
               /\ cbs \in [Actors -> Statuses \cup {"none"}]
               /\ handle \in Statuses \cup {"idle"}

LocalTypes == /\ run \in 0..MaxRuns
              /\ outcome \in {"none", "ok", "auth", "superseded", "transient"}
              /\ takenOver \in BOOLEAN /\ stopping \in BOOLEAN
              /\ backoff \in InitialBackoff..BackoffCap /\ batch \in SUBSET Requests

ConnTypes == /\ link \in [Runs -> {"none", "up", "displaced", "silent"}]
             /\ driver \in [Runs -> {"off", "running", "goaway", "ending", "done"}]
             /\ ping \in [Runs -> {"off", "sleeping", "pinging"}]
             /\ supFlag \in [Runs -> BOOLEAN] /\ permit \in [Runs -> BOOLEAN]

PoolTypes == /\ served \in [Runs -> BOOLEAN] /\ connGen \in [Runs -> Nat]
             /\ intake \in [Runs -> [Slots -> WorkerStates \cup Requests]]

TaskTypes == /\ handles \in [Runs -> SUBSET Requests]
             /\ disp \in [Requests -> {"none", "running", "checked", "posted", "failed",
                                       "aborted"}]
             /\ home \in [Requests -> 0..MaxRuns] /\ lingering \in SUBSET Requests

CloseTypes == /\ closer \in [Closers -> {"idle", "bump", "signal", "say", "clear", "take",
                                         "join", "done"}]
              /\ cbatch \in [Closers -> SUBSET Requests]

\* Every variable holds a value of its type; between its runs, and while it
\* starts, the supervisor has no connection (run = 0 only before the first).
TypeOK ==
    /\ SharedTypes /\ StatusTypes /\ pc \in PcLabels /\ LocalTypes /\ ConnTypes
    /\ PoolTypes /\ TaskTypes /\ CloseTypes
    /\ pc \in {"start", "sayConnecting", "loop", "closing", "returned"} \/ run # 0

\* Caller k of aclose has bumped the generation.
Fenced(k) == closer[k] \notin {"idle", "bump"}

\* A reply passes post_response's generation test only on the connection being
\* served, before its teardown retired the generation, and never once an aclose
\* has bumped it: aclose stores `stopped` before the bump, so a run that takes
\* its generation afterwards parks no worker and dispatches nothing.
ReplyFence ==
    [][\A r \in Http :
         disp[r] = "running" /\ disp'[r] = "checked" =>
            /\ home[r] = run
            /\ pc \in {"starting", "announce", "subscribe", "serve", "loadFlag",
                       "loadStop", "retire"}
            /\ \A k \in Closers : ~Fenced(k)]_vars

\* No dispatch task is left running when its run is over, including one pushed
\* by a worker after the supervisor drained dispatch_handles.
NoDispatchSurvivesRun ==
    \A r \in Requests :
        disp[r] = "running" =>
            home[r] = run /\ pc \in {"starting", "announce", "subscribe", "serve",
                                     "loadFlag", "loadStop", "retire", "downRetry",
                                     "sayDownRetry", "unpublish", "drain", "abort",
                                     "join", "leave"}

\* Until run_once returns, an unfinished dispatch task is in a list some owner
\* will abort and wait for: its worker's hand, dispatch_handles, the supervisor's or a closer's
\* teardown batch, or lingering_tasks.  Afterwards only a task past its
\* generation test can be without one.
DispatchOwned ==
    \A r \in Requests :
        disp[r] \in {"running", "checked"} =>
            \/ r \in handles[home[r]] \/ r \in batch \/ r \in lingering
            \/ \E s \in Slots : intake[home[r]][s] = r
            \/ \E k \in Closers : r \in cbatch[k]
            \/ disp[r] = "checked" /\ (home[r] # run \/ pc \in
                   {"decide", "sleep", "sleeping", "loop", "closing", "saySuperseded",
                    "returned"})

\* A takeover GOAWAY that the driver records while hello is failing is never
\* lost: no later run is started (the flag is read after the driver is joined).
HelloTakeoverStops ==
    \A c \in Runs : supFlag[c] /\ ~served[c] /\ c < run => FALSE

\* Reconnects are cold: when a run begins, the driver, the PING monitor and the
\* intake workers of every earlier run have ended, so no stale worker takes a
\* request away from the new connection.
OneConnection ==
    \A c \in Runs :
        c < run => /\ driver[c] \in {"off", "done"} /\ ping[c] = "off"
                   /\ \A s \in Slots : intake[c][s] \in {"off", "done"}

\* The attempt that "connected" was last recorded for.
Announced == IF \E c \in Runs : served[c]
             THEN CHOOSE c \in Runs : served[c] /\ \A d \in Runs : served[d] => d <= c
             ELSE 0

\* The delay after n failures in a row: it doubles, and 2^5 is beyond the cap.
Delay(n) == IF n < 5 THEN 2 ^ n ELSE BackoffCap

\* The delay before a redial is 2^n seconds (capped) after n failures since the
\* last run that reached "connected", or since the first one.
BackoffTracksFailures ==
    pc \in {"sleep", "sleeping"} =>
        backoff = Delay(IF Announced = 0 THEN run - 1 ELSE run - Announced)

\* When serve_forever has returned and no aclose is notifying, the last status
\* recorded is the terminal one of how it ended.
TerminalStatus ==
    /\ pc = "returned"
    /\ \A k \in Closers : closer[k] \in {"idle", "done"}
    => last = IF outcome = "superseded" THEN "superseded" ELSE "closed"

Lifecycle == INSTANCE TunnelLifecycle WITH
                 status <- last, attempt <- run, announced <- Announced,
                 closing <- stopped, ended <- pc = "returned"

\* The runtime implements the life cycle on_status observes: whatever aclose,
\* the edge and the driver do, an attempt is announced once, no attempt follows
\* a loss that was not reported or a close, and nothing is reported after the
\* status serve_forever ended with.
ImplementsLifecycle == Lifecycle!Spec

\* After aclose was called serve_forever returns.
CloseTerminates == stopped ~> pc = "returned"

\* A connection whose peer went silent is given up without the kernel's help.
SilentPathNoticed ==
    \A c \in Runs : (pc = "serve" /\ run = c /\ link[c] = "silent") ~> (pc # "serve" \/ run # c)

\* What the change log promises: a client that saw it was taken over does not
\* reconnect.
TakeoverNeverRedials == \A c \in Runs : supFlag[c] => run <= c

\* What status.rs says of the handle: Closed when the runtime stopped,
\* Superseded when a newer client took ownership.
HandleSettles ==
    /\ pc = "returned"
    /\ \A k \in Closers : closer[k] \in {"idle", "done"}
    /\ \A a \in Actors : cbs[a] = "none"
    => handle = last
=============================================================================
