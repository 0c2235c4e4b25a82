------------------------- MODULE TunnelRuntimeProofs -------------------------
(* Proofs about TunnelRuntime, for every set of workers, requests and callers *)
(* of aclose, and every bound on the number of connection attempts: the types *)
(* and the reply fence; how a connection is taken down; what is reported.     *)
EXTENDS TunnelRuntime, TLAPS

USE DEF sharedVars, statusVars, localVars, connVars, poolVars, taskVars, closeVars

\* notify_status keeps the status variables in their types.
LEMMA NotifyTypes ==
    ASSUME StatusTypes, NEW a \in Actors, NEW status \in Statuses, Notify(a, status)
    PROVE  StatusTypes'
BY DEF StatusTypes, Notify

\* The supervisor is one of those who notify.
LEMMA SupervisorActor == "supervisor" \in Actors
BY DEF Actors

\* A supervisor step that only notifies keeps every variable in its type.
LEMMA SayTypes ==
    ASSUME TypeOK, NEW from, NEW to \in PcLabels, NEW status \in Statuses,
           Say(from, status, to),
           to \in {"loop", "returned"} \/ run # 0
    PROVE  TypeOK'
<1>1. StatusTypes'
  BY NotifyTypes, SupervisorActor DEF TypeOK, Say
<1>2. QED
  BY <1>1 DEF TypeOK, SharedTypes, LocalTypes, ConnTypes, PoolTypes, TaskTypes, CloseTypes, Say


\* A step of the supervisor keeps every variable in its type.
LEMMA SupervisorTypes == TypeOK /\ Supervisor => TypeOK'
<1> SUFFICES ASSUME TypeOK, Supervisor PROVE TypeOK'
  OBVIOUS
<1> USE RuntimeAssumption
<1>a. /\ MaxRuns \in Nat
      /\ run \in Nat
      /\ run # 0 => run \in Runs
      /\ run < MaxRuns => run + 1 \in 0..MaxRuns
  BY DEF TypeOK, LocalTypes, Runs, RuntimeAssumption
<1>1. CASE ServeStart
  BY <1>1, <1>a DEF ServeStart, At, Quiet, TypeOK, PcLabels, SharedTypes, StatusTypes,
     LocalTypes, ConnTypes, PoolTypes, TaskTypes, CloseTypes
<1>2. CASE SayConnecting
  BY <1>2, SayTypes DEF SayConnecting, TypeOK, PcLabels, Statuses, Say, At
<1>3. CASE LoopTop
  <2>1. LocalTypes' /\ (run' = run \/ run' = run + 1)
    BY <1>3, <1>a DEF LoopTop, TypeOK, LocalTypes
  <2>2. QED
    BY <1>3, <1>a, <2>1 DEF LoopTop, At, Quiet, TypeOK, PcLabels, SharedTypes, StatusTypes,
       ConnTypes, PoolTypes, TaskTypes, CloseTypes
<1>4. CASE Decide
  BY <1>4, <1>a DEF Decide, At, Quiet, InitialBackoff, BackoffCap, TypeOK, PcLabels, SharedTypes, StatusTypes,
     LocalTypes, ConnTypes, PoolTypes, TaskTypes, CloseTypes
<1>5. CASE SleepBegin
  BY <1>5, <1>a DEF SleepBegin, At, Quiet, TypeOK, PcLabels, SharedTypes, StatusTypes,
     LocalTypes, ConnTypes, PoolTypes, TaskTypes, CloseTypes
<1>6. CASE SleepEnd
  BY <1>6, <1>a DEF SleepEnd, At, Quiet, InitialBackoff, BackoffCap, TypeOK, PcLabels, SharedTypes, StatusTypes,
     LocalTypes, ConnTypes, PoolTypes, TaskTypes, CloseTypes
<1>7. CASE SayClosed
  BY <1>7, SayTypes DEF SayClosed, TypeOK, PcLabels, Statuses, Say, At
<1>8. CASE SaySuperseded
  BY <1>8, SayTypes DEF SaySuperseded, TypeOK, PcLabels, Statuses, Say, At
<1>9. CASE DialBegin
  BY <1>9, <1>a DEF DialBegin, At, Quiet, Leave, TypeOK, PcLabels, SharedTypes, StatusTypes,
     LocalTypes, ConnTypes, PoolTypes, TaskTypes, CloseTypes
<1>10. CASE DialStopped
  BY <1>10, <1>a DEF DialStopped, At, Quiet, Leave, TypeOK, PcLabels, SharedTypes, StatusTypes,
     LocalTypes, ConnTypes, PoolTypes, TaskTypes, CloseTypes
<1>11. CASE DialOk
  BY <1>11, <1>a DEF DialOk, At, TypeOK, PcLabels, SharedTypes, StatusTypes,
     LocalTypes, ConnTypes, PoolTypes, TaskTypes, CloseTypes
<1>12. CASE DialFail
  BY <1>12, <1>a DEF DialFail, At, Quiet, Leave, TypeOK, PcLabels, SharedTypes, StatusTypes,
     LocalTypes, ConnTypes, PoolTypes, TaskTypes, CloseTypes
<1>13. CASE DialFailed
  BY <1>13, <1>a DEF DialFailed, At, Quiet, Reconnecting, TypeOK, PcLabels, SharedTypes, StatusTypes,
     LocalTypes, ConnTypes, PoolTypes, TaskTypes, CloseTypes
<1>14. CASE SayDialFailed
  BY <1>14, SayTypes DEF SayDialFailed, TypeOK, PcLabels, Statuses, Say, At
<1>15. CASE HelloBegin
  BY <1>15, <1>a DEF HelloBegin, At, Quiet, Leave, TypeOK, PcLabels, SharedTypes, StatusTypes,
     LocalTypes, ConnTypes, PoolTypes, TaskTypes, CloseTypes
<1>16. CASE HelloStopped
  BY <1>16, <1>a DEF HelloStopped, At, Quiet, Leave, TypeOK, PcLabels, SharedTypes, StatusTypes,
     LocalTypes, ConnTypes, PoolTypes, TaskTypes, CloseTypes
<1>17. CASE HelloClosed
  BY <1>17, <1>a DEF HelloClosed, At, Quiet, Leave, TypeOK, PcLabels, SharedTypes, StatusTypes,
     LocalTypes, ConnTypes, PoolTypes, TaskTypes, CloseTypes
<1>18. CASE \E o \in {"accepted", "auth", "superseded", "transient"} : HelloReply(o)
  BY <1>18, <1>a DEF HelloReply, At, Quiet, Leave, TypeOK, PcLabels, SharedTypes, StatusTypes,
     LocalTypes, ConnTypes, PoolTypes, TaskTypes, CloseTypes
<1>19. CASE HelloFailed
  BY <1>19, <1>a DEF HelloFailed, At, Quiet, TypeOK, PcLabels, SharedTypes, StatusTypes,
     LocalTypes, ConnTypes, PoolTypes, TaskTypes, CloseTypes
<1>20. CASE HelloRetry
  BY <1>20, <1>a DEF HelloRetry, At, Quiet, Reconnecting, TypeOK, PcLabels, SharedTypes, StatusTypes,
     LocalTypes, ConnTypes, PoolTypes, TaskTypes, CloseTypes
<1>21. CASE SayHelloRetry
  BY <1>21, SayTypes DEF SayHelloRetry, TypeOK, PcLabels, Statuses, Say, At
<1>22. CASE HelloAbort
  BY <1>22, <1>a DEF HelloAbort, At, AbortConnection, TypeOK, PcLabels, SharedTypes, StatusTypes,
     LocalTypes, ConnTypes, PoolTypes, TaskTypes, CloseTypes
<1>23. CASE HelloVerdict
  BY <1>23, <1>a DEF HelloVerdict, At, Leave, DropConnection, TypeOK, PcLabels, SharedTypes, StatusTypes,
     LocalTypes, ConnTypes, PoolTypes, TaskTypes, CloseTypes
<1>24. CASE HelloQuitJoined
  BY <1>24, <1>a DEF HelloQuitJoined, At, DropConnection, TypeOK, PcLabels, SharedTypes, StatusTypes,
     LocalTypes, ConnTypes, PoolTypes, TaskTypes, CloseTypes
<1>25. CASE TakeGeneration
  BY <1>25, <1>a DEF TakeGeneration, At, TypeOK, PcLabels, SharedTypes, StatusTypes,
     LocalTypes, ConnTypes, PoolTypes, TaskTypes, CloseTypes
<1>26. CASE SpawnPool
  BY <1>26, <1>a DEF SpawnPool, At, WorkerStates, TypeOK, PcLabels, SharedTypes, StatusTypes,
     LocalTypes, ConnTypes, PoolTypes, TaskTypes, CloseTypes
<1>27. CASE Publish
  BY <1>27, <1>a DEF Publish, At, TypeOK, PcLabels, SharedTypes, StatusTypes,
     LocalTypes, ConnTypes, PoolTypes, TaskTypes, CloseTypes
<1>28. CASE Announce
  <2>1. StatusTypes'
    BY <1>28, NotifyTypes, SupervisorActor DEF Announce, TypeOK, Statuses
  <2>2. QED
    BY <1>28, <1>a, <2>1 DEF Announce, At, TypeOK, PcLabels, SharedTypes, LocalTypes, ConnTypes,
       PoolTypes, TaskTypes, CloseTypes
<1>29. CASE ServeBegin
  BY <1>29, <1>a DEF ServeBegin, At, Quiet, TypeOK, PcLabels, SharedTypes, StatusTypes,
     LocalTypes, ConnTypes, PoolTypes, TaskTypes, CloseTypes
<1>30. CASE ServeWake
  BY <1>30, <1>a DEF ServeWake, At, Quiet, TypeOK, PcLabels, SharedTypes, StatusTypes,
     LocalTypes, ConnTypes, PoolTypes, TaskTypes, CloseTypes
<1>31. CASE LoadTakeover
  BY <1>31, <1>a DEF LoadTakeover, At, Quiet, TypeOK, PcLabels, SharedTypes, StatusTypes,
     LocalTypes, ConnTypes, PoolTypes, TaskTypes, CloseTypes
<1>32. CASE LoadStopping
  BY <1>32, <1>a DEF LoadStopping, At, Quiet, TypeOK, PcLabels, SharedTypes, StatusTypes,
     LocalTypes, ConnTypes, PoolTypes, TaskTypes, CloseTypes
<1>33. CASE RetireGeneration
  BY <1>33, <1>a DEF RetireGeneration, At, TypeOK, PcLabels, SharedTypes, StatusTypes,
     LocalTypes, ConnTypes, PoolTypes, TaskTypes, CloseTypes
<1>34. CASE DownRetry
  BY <1>34, <1>a DEF DownRetry, At, Quiet, Reconnecting, TypeOK, PcLabels, SharedTypes, StatusTypes,
     LocalTypes, ConnTypes, PoolTypes, TaskTypes, CloseTypes
<1>35. CASE SayDownRetry
  BY <1>35, SayTypes DEF SayDownRetry, TypeOK, PcLabels, Statuses, Say, At
<1>36. CASE Unpublish
  BY <1>36, <1>a DEF Unpublish, At, TypeOK, PcLabels, SharedTypes, StatusTypes,
     LocalTypes, ConnTypes, PoolTypes, TaskTypes, CloseTypes
<1>37. CASE DrainHandles
  BY <1>37, <1>a DEF DrainHandles, At, TypeOK, PcLabels, SharedTypes, StatusTypes,
     LocalTypes, ConnTypes, PoolTypes, TaskTypes, CloseTypes
<1>38. CASE AbortTasks
  BY <1>38, <1>a DEF AbortTasks, At, AbortConnection, AbortAll, MidPoll, WorkerStates, TypeOK, PcLabels, SharedTypes, StatusTypes,
     LocalTypes, ConnTypes, PoolTypes, TaskTypes, CloseTypes
<1>39. CASE JoinTasks
  BY <1>39, <1>a DEF JoinTasks, At, TypeOK, PcLabels, SharedTypes, StatusTypes,
     LocalTypes, ConnTypes, PoolTypes, TaskTypes, CloseTypes
<1>40. CASE LeaveRun
  BY <1>40, <1>a DEF LeaveRun, At, Leave, DropConnection, AbortAll, TypeOK, PcLabels, SharedTypes, StatusTypes,
     LocalTypes, ConnTypes, PoolTypes, TaskTypes, CloseTypes
<1> QED
  BY <1>1, <1>2, <1>3, <1>4, <1>5, <1>6, <1>7, <1>8, <1>9, <1>10, <1>11, <1>12,
     <1>13, <1>14, <1>15, <1>16, <1>17, <1>18, <1>19, <1>20, <1>21, <1>22,
     <1>23, <1>24, <1>25, <1>26, <1>27, <1>28, <1>29, <1>30, <1>31, <1>32,
     <1>33, <1>34, <1>35, <1>36, <1>37, <1>38, <1>39, <1>40 DEF Supervisor

\* A step of a connection's driver or PING monitor, or of the edge, does too.
LEMMA ConnectionTypes ==
    ASSUME TypeOK, NEW c \in Runs, Driver(c) \/ Ping(c) \/ Edge(c)
    PROVE  TypeOK'
<1>1. ConnTypes'
  BY DEF TypeOK, ConnTypes, Driver, DriverEnds, DriverRecords, DriverCloses, Ping, PingSends, PingAcked,
     PingFails, Edge, EdgeDisplaces, PathGoesSilent
<1>2. UNCHANGED <<sharedVars, statusVars, pc, localVars, poolVars, taskVars, closeVars>>
  BY DEF Driver, DriverEnds, DriverRecords, DriverCloses, Ping, PingSends, PingAcked, PingFails, Edge,
     EdgeDisplaces, PathGoesSilent, TaskStep
<1>3. QED
  BY <1>1, <1>2 DEF TypeOK, SharedTypes, StatusTypes, LocalTypes, PoolTypes, TaskTypes, CloseTypes

\* ... and so do a step of an intake worker,
LEMMA IntakeTypes ==
    ASSUME TypeOK, NEW c \in Runs, NEW s \in Slots, Intake(c, s)
    PROVE  TypeOK'
<1>1. ASSUME NEW from, NEW to \in WorkerStates, Worker(c, s, from, to)
      PROVE  TypeOK'
  BY <1>1 DEF Worker, SetIntake, TaskStep, TypeOK, PcLabels, SharedTypes, StatusTypes, LocalTypes, ConnTypes,
     PoolTypes, TaskTypes, CloseTypes
<1>2. CASE IntakeStart(c, s) \/ IntakePark(c, s) \/ IntakeAgain(c, s)
  BY <1>1, <1>2 DEF IntakeStart, IntakePark, IntakeAgain, WorkerStates
<1>3. CASE IntakeTakenOver(c, s) \/ IntakeForceDown(c, s)
  <2>1. ConnTypes'
    BY <1>3 DEF IntakeTakenOver, IntakeForceDown, TypeOK, ConnTypes
  <2>p. PoolTypes'
    <3>1. \E to \in WorkerStates : SetIntake(c, s, to)
      BY <1>3 DEF IntakeTakenOver, IntakeForceDown, WorkerStates
    <3>2. intake' \in [Runs -> [Slots -> WorkerStates \cup Requests]]
      BY <3>1 DEF SetIntake, TypeOK, PoolTypes
    <3>3. QED
      BY <1>3, <3>2 DEF IntakeTakenOver, IntakeForceDown, TypeOK, PoolTypes
  <2>2. UNCHANGED <<sharedVars, statusVars, pc, localVars, taskVars, closeVars>>
    BY <1>3 DEF IntakeTakenOver, IntakeForceDown, TaskStep
  <2>3. QED
    BY <2>1, <2>p, <2>2 DEF TypeOK, SharedTypes, StatusTypes, LocalTypes, TaskTypes, CloseTypes
<1>4. ASSUME NEW r \in Requests, IntakeDeliver(c, s, r)
      PROVE  TypeOK'
  BY <1>4, SMTT(20) DEF IntakeDeliver, SetIntake, TaskStep, Runs, TypeOK, PcLabels, SharedTypes, StatusTypes, LocalTypes, ConnTypes,
     PoolTypes, TaskTypes, CloseTypes
<1>5. ASSUME NEW r \in Requests, IntakePush(c, s, r)
      PROVE  TypeOK'
  BY <1>5 DEF IntakePush, SetIntake, TaskStep, WorkerStates, TypeOK, PcLabels, SharedTypes, StatusTypes, LocalTypes, ConnTypes,
     PoolTypes, TaskTypes, CloseTypes
<1>6. QED
  BY <1>2, <1>3, <1>4, <1>5 DEF Intake

\* ... a dispatch task,
LEMMA DispatchTypes ==
    ASSUME TypeOK, NEW r \in Requests, Dispatch(r)
    PROVE  TypeOK'
BY SMTT(20) DEF Dispatch, PostCheck, PostSend, TaskStep, TypeOK, PcLabels, SharedTypes, StatusTypes, LocalTypes, ConnTypes,
     PoolTypes, TaskTypes, CloseTypes

\* ... a caller of aclose,
LEMMA CloserTypes ==
    ASSUME TypeOK, NEW k \in Closers, CloseStore(k) \/ CloserWork(k)
    PROVE  TypeOK'
<1>1. CASE CloseStore(k) \/ CloseBump(k) \/ CloseSignal(k) \/ CloseClear(k)
  <2>1. SharedTypes'
    <3>1. stopped' \in BOOLEAN
      BY <1>1 DEF CloseStore, CloseBump, CloseSignal, CloseClear, TypeOK, SharedTypes
    <3>2. stopSig' \in BOOLEAN
      BY <1>1 DEF CloseStore, CloseBump, CloseSignal, CloseClear, TypeOK, SharedTypes
    <3>3. gen' \in Nat
      BY <1>1 DEF CloseStore, CloseBump, CloseSignal, CloseClear, TypeOK, SharedTypes
    <3>4. active' \in 0..MaxRuns
      BY <1>1, RuntimeAssumption DEF CloseStore, CloseBump, CloseSignal, CloseClear, TypeOK,
         SharedTypes, RuntimeAssumption
    <3>5. QED
      BY <3>1, <3>2, <3>3, <3>4 DEF SharedTypes
  <2>c. CloseTypes'
    BY <1>1 DEF CloseStore, CloseBump, CloseSignal, CloseClear, CloserTo, TypeOK, CloseTypes
  <2>2. UNCHANGED <<statusVars, pc, localVars, connVars, poolVars, taskVars>>
    BY <1>1 DEF CloseStore, CloseBump, CloseSignal, CloseClear, CloserStep
  <2>3. QED
    BY <2>1, <2>c, <2>2 DEF TypeOK, StatusTypes, LocalTypes, ConnTypes, PoolTypes, TaskTypes
<1>2. CASE CloseSay(k)
  <2>1. StatusTypes'
    BY <1>2, NotifyTypes DEF CloseSay, TypeOK, Actors, Statuses
  <2>2. QED
    BY <1>2, <2>1 DEF CloseSay, CloserAt, CloserTo, CloserStep, TypeOK, PcLabels, SharedTypes, StatusTypes, LocalTypes, ConnTypes,
     PoolTypes, TaskTypes, CloseTypes
<1>3. CASE CloseTake(k) \/ CloseJoin(k)
  <2>1. TaskTypes' /\ CloseTypes'
    BY <1>3 DEF CloseTake, CloseJoin, AbortAll, CloserTo, TypeOK, TaskTypes, CloseTypes
  <2>2. UNCHANGED <<sharedVars, statusVars, pc, localVars, connVars, poolVars>>
    BY <1>3 DEF CloseTake, CloseJoin, CloserStep
  <2>3. QED
    BY <2>1, <2>2 DEF TypeOK, SharedTypes, StatusTypes, LocalTypes, ConnTypes, PoolTypes
<1>4. QED
  BY <1>1, <1>2, <1>3 DEF CloserWork

\* ... and a status callback.
LEMMA CallbackTypes ==
    ASSUME TypeOK, NEW a \in Actors, RunCallback(a)
    PROVE  TypeOK'
BY DEF RunCallback, TypeOK, PcLabels, SharedTypes, StatusTypes, LocalTypes, ConnTypes,
     PoolTypes, TaskTypes, CloseTypes

\* Type correctness.
THEOREM TypeCorrect == Spec => []TypeOK
<1>1. Init => TypeOK
  <2> SUFFICES ASSUME Init PROVE TypeOK
    OBVIOUS
  <2>m. 0 \in 0..MaxRuns
    BY RuntimeAssumption DEF RuntimeAssumption
  <2>1. SharedTypes
    BY <2>m DEF Init, SharedTypes
  <2>l. LocalTypes
    <3>1. run = 0 /\ backoff = 1 /\ batch = {} /\ outcome = "none"
          /\ takenOver = FALSE /\ stopping = FALSE
      BY DEF Init, InitialBackoff
    <3>2. run \in 0..MaxRuns
      BY <3>1, <2>m
    <3>3. backoff \in InitialBackoff..BackoffCap
      BY <3>1 DEF InitialBackoff, BackoffCap
    <3>4. batch \in SUBSET Requests
      BY <3>1
    <3>5. QED
      BY <3>1, <3>2, <3>3, <3>4 DEF LocalTypes
  <2>2. StatusTypes
    BY DEF Init, StatusTypes
  <2>3. ConnTypes
    BY DEF Init, ConnTypes
  <2>4. PoolTypes
    BY DEF Init, PoolTypes, WorkerStates
  <2>5. TaskTypes
    BY <2>m DEF Init, TaskTypes
  <2>6. CloseTypes
    BY DEF Init, CloseTypes
  <2>7. pc = "start"
    BY DEF Init
  <2>8. QED
    BY <2>1, <2>l, <2>2, <2>3, <2>4, <2>5, <2>6, <2>7 DEF TypeOK, PcLabels
<1>2. TypeOK /\ [Next]_vars => TypeOK'
  <2> SUFFICES ASSUME TypeOK, [Next]_vars PROVE TypeOK'
    OBVIOUS
  <2>1. CASE Supervisor
    BY <2>1, SupervisorTypes
  <2>2. CASE \E c \in Runs : Driver(c) \/ Ping(c) \/ Edge(c)
    BY <2>2, ConnectionTypes
  <2>3. CASE \E c \in Runs, s \in Slots : Intake(c, s)
    BY <2>3, IntakeTypes
  <2>4. CASE \E r \in Requests : Dispatch(r)
    BY <2>4, DispatchTypes
  <2>5. CASE \E k \in Closers : CloseStore(k) \/ CloserWork(k)
    BY <2>5, CloserTypes
  <2>6. CASE \E a \in Actors : RunCallback(a)
    BY <2>6, CallbackTypes
  <2>7. CASE Terminated \/ UNCHANGED vars
    BY <2>7 DEF Terminated, vars, TypeOK, PcLabels, SharedTypes, StatusTypes, LocalTypes, ConnTypes,
     PoolTypes, TaskTypes, CloseTypes
  <2>8. QED
    BY <2>1, <2>2, <2>3, <2>4, <2>5, <2>6, <2>7 DEF Next
<1>3. QED
  BY <1>1, <1>2, PTL DEF Spec
-----------------------------------------------------------------------------
(* The reply fence.                                                        *)

\* Labels at which the current run has not taken its generation yet.
Dialling ==
    {"dial", "dialing", "dialFailed", "sayDialFailed", "hello", "helloing", "helloQuit",
     "helloFailed", "helloRetry", "sayHelloRetry", "helloJoin", "helloJoined",
     "helloQuitJoined", "park"}

\* ... and those at which it has taken it and not retired it.
Serving ==
    {"spawn", "starting", "announce", "subscribe", "serve", "loadFlag", "loadStop", "retire"}

\* ... and those of its teardown.
Retiring == {"downRetry", "sayDownRetry", "unpublish", "drain", "abort", "join", "leave"}

\* Run c holds the runtime's current generation.
Current(c) == connGen[c] > 0 /\ connGen[c] = gen

\* Generations never run ahead, and a run without one has had no worker and no
\* dispatch.
GenerationInv ==
    /\ \A c \in Runs : connGen[c] <= gen
    /\ \A c \in Runs : c > run => connGen[c] = 0
    /\ pc \in Dialling => connGen[run] = 0
    /\ pc \in Serving \cup Retiring => connGen[run] > 0
    /\ \A c \in Runs : Current(c) => c = run /\ pc \in Serving

\* A worker or a dispatch exists only for a run that has taken its generation,
\* and not before its pool is spawned.
OwnerInv ==
    /\ \A c \in Runs, s \in Slots :
          intake[c][s] # "off" => connGen[c] > 0 /\ ~(c = run /\ pc = "spawn")
    /\ \A r \in Requests :
          disp[r] # "none" => /\ home[r] \in Runs /\ connGen[home[r]] > 0
                              /\ ~(home[r] = run /\ pc = "spawn")

\* Once an aclose has bumped the generation, a run that takes a later one has no
\* worker that can be handed a request and no dispatch that can reply.
StopInv ==
    /\ \A k \in Closers : closer[k] # "idle" => stopped
    /\ \A k \in Closers, c \in Runs : Fenced(k) /\ Current(c) =>
          /\ \A s \in Slots : intake[c][s] \in {"off", "spawned", "ready", "done"}
          /\ \A r \in Requests : disp[r] = "running" => home[r] # c

\* What the invariant looks at besides the supervisor's label.
fenceVars == <<stopped, gen, run, connGen, intake, disp, home, closer>>

\* The inductive invariant, beside TypeOK.
Fence == GenerationInv /\ OwnerInv /\ StopInv

\* A step that only moves the supervisor, and not across one of the points where
\* a run takes or retires its generation, keeps the fence.
LEMMA MoveFence ==
    ASSUME Fence, UNCHANGED fenceVars,
           pc' \in Dialling => pc \in Dialling,
           pc' \in Serving \cup Retiring => pc \in Serving \cup Retiring,
           pc \in Serving => pc' \in Serving,
           pc' = "spawn" => pc = "spawn"
    PROVE  Fence'
BY DEF fenceVars, Fence, GenerationInv, OwnerInv, StopInv, Current, Fenced

\* Aborting tasks, or taking them from one list to another, keeps it too.
LEMMA AbortFence ==
    ASSUME TypeOK, Fence,
           UNCHANGED <<stopped, gen, run, connGen, closer, home>>,
           pc \notin Dialling, pc' \notin Dialling \cup Serving,
           pc \in Retiring,
           \A c \in Runs, s \in Slots : intake'[c][s] # intake[c][s] => c = run,
           \A r \in Requests : disp'[r] \in {disp[r], "aborted"},
           \A r \in Requests : disp'[r] # disp[r] => disp[r] # "none"
    PROVE  Fence'
BY DEF Fence, GenerationInv, OwnerInv, StopInv, Current, Fenced, Dialling, Serving, Retiring

\* A step of the supervisor keeps the fence.
LEMMA SupervisorFence == TypeOK /\ Fence /\ Supervisor => Fence'
<1> SUFFICES ASSUME TypeOK, Fence, Supervisor PROVE Fence'
  OBVIOUS
<1>1. CASE ServeStart \/ SayConnecting \/ SleepBegin \/ SleepEnd \/ Decide
           \/ SayClosed \/ SaySuperseded
  <2>1. UNCHANGED fenceVars /\ pc \notin Dialling \cup Serving \cup Retiring
        /\ pc' \notin Dialling \cup Serving \cup Retiring
    BY <1>1 DEF ServeStart, SayConnecting, SleepBegin, SleepEnd, Decide, SayClosed,
       SaySuperseded, Say, At, Quiet, Dialling, Serving, Retiring, fenceVars
  <2>2. QED
    BY <2>1, MoveFence DEF Serving
<1>2. CASE LoopTop
  <2>1. CASE stopped
    <3>1. UNCHANGED fenceVars /\ pc = "loop" /\ pc' = "closing"
      BY <1>2, <2>1 DEF LoopTop, At, Quiet, fenceVars
    <3>2. QED
      BY <3>1, MoveFence DEF Dialling, Serving, Retiring
  <2>2. CASE ~stopped
    <3>1. /\ run' = run + 1 /\ pc' = "dial" /\ pc = "loop"
          /\ UNCHANGED <<stopped, gen, connGen, intake, disp, home, closer>>
      BY <1>2, <2>2 DEF LoopTop, At, Quiet
    <3>2. run \in Nat /\ run' \in Runs /\ \A c \in Runs : c \in Nat
      BY <1>2, <2>2, RuntimeAssumption
      DEF LoopTop, TypeOK, LocalTypes, Runs, RuntimeAssumption
    <3>3. GenerationInv'
      BY <3>1, <3>2 DEF Fence, GenerationInv, Current, Dialling, Serving, Retiring
    <3>4. OwnerInv' /\ StopInv'
      BY <3>1, <3>2 DEF Fence, OwnerInv, StopInv, Current, Fenced
    <3>5. QED
      BY <3>3, <3>4 DEF Fence
  <2>3. QED
    BY <2>1, <2>2
<1>3. CASE DialBegin \/ DialStopped \/ DialOk \/ DialFail \/ DialFailed \/ SayDialFailed
  <2>1. UNCHANGED fenceVars /\ pc \in Dialling /\ pc' \in Dialling \cup {"decide"}
    BY <1>3 DEF DialBegin, DialStopped, DialOk, DialFail, DialFailed, SayDialFailed, Say,
       Reconnecting, Leave, At, Quiet, Dialling, fenceVars
  <2>2. QED
    BY <2>1, MoveFence DEF Dialling, Serving, Retiring
<1>4. CASE HelloBegin \/ HelloStopped \/ HelloClosed \/ HelloFailed \/ HelloRetry
           \/ SayHelloRetry
           \/ \E o \in {"accepted", "auth", "superseded", "transient"} : HelloReply(o)
  <2>1. UNCHANGED fenceVars /\ pc \in Dialling /\ pc' \in Dialling
    BY <1>4 DEF HelloBegin, HelloStopped, HelloClosed, HelloFailed, HelloRetry, SayHelloRetry,
       HelloReply, Say, Reconnecting, Leave, At, Quiet, Dialling, fenceVars
  <2>2. QED
    BY <2>1, MoveFence DEF Dialling, Serving, Retiring
<1>5. CASE HelloAbort \/ HelloVerdict \/ HelloQuitJoined
  <2>1. UNCHANGED fenceVars /\ pc \in Dialling /\ pc' \in Dialling \cup {"decide"}
    BY <1>5 DEF HelloAbort, HelloVerdict, HelloQuitJoined, Leave, At, Dialling, fenceVars
  <2>2. QED
    BY <2>1, MoveFence DEF Dialling, Serving, Retiring
<1>6. CASE TakeGeneration
  <2>1. /\ pc = "park" /\ pc' = "spawn" /\ gen' = gen + 1 /\ gen \in Nat
        /\ connGen[run] = 0 /\ run \in Runs
        /\ connGen' = [connGen EXCEPT ![run] = gen + 1]
        /\ UNCHANGED <<stopped, run, intake, disp, home, closer>>
    BY <1>6, RuntimeAssumption
    DEF TakeGeneration, At, TypeOK, SharedTypes, LocalTypes, Runs, RuntimeAssumption, Fence,
        GenerationInv, Dialling
  <2>2. /\ connGen \in [Runs -> Nat] /\ run \in Nat /\ \A c \in Runs : c \in Nat
        /\ connGen'[run] = gen + 1
        /\ \A c \in Runs : c # run => connGen'[c] = connGen[c]
    BY <2>1 DEF TypeOK, PoolTypes, Runs
  <2>3. GenerationInv'
    BY <2>1, <2>2 DEF Fence, GenerationInv, Current, Dialling, Serving, Retiring
  <2>4. OwnerInv'
    BY <2>1, <2>2 DEF Fence, OwnerInv
  <2>5. StopInv'
    BY <2>1, <2>2 DEF Fence, GenerationInv, OwnerInv, StopInv, Current, Fenced
  <2>6. QED
    BY <2>3, <2>4, <2>5 DEF Fence
<1>7. CASE SpawnPool
  <2>1. /\ pc = "spawn" /\ pc' = "starting"
        /\ intake' = [intake EXCEPT ![run] = [s \in Slots |-> "spawned"]]
        /\ UNCHANGED <<stopped, gen, run, connGen, disp, home, closer>>
    BY <1>7 DEF SpawnPool, At
  <2>2. run \in Runs /\ connGen[run] > 0
    BY <2>1, RuntimeAssumption
    DEF TypeOK, LocalTypes, Runs, RuntimeAssumption, Fence, GenerationInv, Serving
  <2>3. /\ \A s \in Slots : intake'[run][s] = "spawned"
        /\ \A c \in Runs : c # run => intake'[c] = intake[c]
    BY <2>1, <2>2 DEF TypeOK, PoolTypes
  <2>4. GenerationInv'
    BY <2>1 DEF Fence, GenerationInv, Current, Dialling, Serving, Retiring
  <2>5. OwnerInv'
    BY <2>1, <2>2, <2>3 DEF Fence, OwnerInv
  <2>6. StopInv'
    BY <2>1, <2>2, <2>3 DEF Fence, OwnerInv, StopInv, Current, Fenced
  <2>7. QED
    BY <2>4, <2>5, <2>6 DEF Fence
<1>8. CASE Publish \/ Announce \/ ServeBegin \/ ServeWake \/ LoadTakeover \/ LoadStopping
  <2>1. UNCHANGED fenceVars /\ pc \in Serving /\ pc' \in Serving \ {"spawn"}
    BY <1>8 DEF Publish, Announce, ServeBegin, ServeWake, LoadTakeover, LoadStopping, At, Quiet,
       Serving, fenceVars
  <2>2. QED
    BY <2>1, MoveFence DEF Dialling, Serving, Retiring
<1>9. CASE RetireGeneration
  <2>1. /\ pc = "retire" /\ pc' \in Retiring /\ gen' = gen + 1
        /\ UNCHANGED <<stopped, run, connGen, intake, disp, home, closer>>
    BY <1>9 DEF RetireGeneration, At, Retiring
  <2>2. gen \in Nat /\ \A c \in Runs : connGen[c] \in Nat
    BY DEF TypeOK, SharedTypes, PoolTypes
  <2>3. \A c \in Runs : ~(Current(c))'
    BY <2>1, <2>2 DEF Fence, GenerationInv, Current
  <2>4. GenerationInv'
    BY <2>1, <2>2, <2>3 DEF Fence, GenerationInv, Dialling, Serving, Retiring
  <2>5. OwnerInv' /\ StopInv'
    BY <2>1, <2>3 DEF Fence, OwnerInv, StopInv, Fenced, Retiring
  <2>6. QED
    BY <2>4, <2>5 DEF Fence
<1>10. CASE DownRetry \/ SayDownRetry \/ Unpublish \/ DrainHandles \/ JoinTasks
  <2>1. UNCHANGED fenceVars /\ pc \in Retiring /\ pc' \in Retiring
    BY <1>10 DEF DownRetry, SayDownRetry, Unpublish, DrainHandles, JoinTasks, Say, Reconnecting,
       At, Quiet, Retiring, fenceVars
  <2>2. QED
    BY <2>1, MoveFence DEF Dialling, Serving, Retiring
<1>11. CASE AbortTasks \/ LeaveRun
  <2>1. UNCHANGED <<stopped, gen, run, connGen, closer, home>>
    BY <1>11 DEF AbortTasks, LeaveRun, Leave
  <2>2. pc \in Retiring /\ pc' \in {"join", "decide"}
    BY <1>11 DEF AbortTasks, LeaveRun, At, Retiring
  <2>3. \A c \in Runs, s \in Slots : intake'[c][s] # intake[c][s] => c = run
    BY <1>11 DEF AbortTasks, LeaveRun, TypeOK, PoolTypes
  <2>4. \E R : disp' = AbortAll(R)
    BY <1>11 DEF AbortTasks, LeaveRun
  <2>5. \A r \in Requests : /\ disp'[r] \in {disp[r], "aborted"}
                            /\ disp'[r] # disp[r] => disp[r] # "none"
    BY <2>4 DEF AbortAll
  <2>6. QED
    BY <2>1, <2>2, <2>3, <2>5, AbortFence DEF Dialling, Serving, Retiring
<1>12. QED
  BY <1>1, <1>2, <1>3, <1>4, <1>5, <1>6, <1>7, <1>8, <1>9, <1>10, <1>11 DEF Supervisor

\* The worker states in which a worker cannot be handed a request at once.
Idle == {"off", "spawned", "ready", "done"}

\* So does a step of one worker that has been spawned, unless it takes the worker
\* out of the idle states after a stop.
LEMMA WorkerFence ==
    ASSUME TypeOK, Fence, NEW c \in Runs, NEW s \in Slots, NEW to,
           SetIntake(c, s, to), intake[c][s] # "off",
           intake[c][s] \in Idle /\ stopped => to \in Idle,
           UNCHANGED <<stopped, gen, run, connGen, disp, home, closer, pc>>
    PROVE  Fence'
<1>1. /\ intake'[c][s] = to
      /\ \A d \in Runs, q \in Slots : d # c \/ q # s => intake'[d][q] = intake[d][q]
  BY DEF SetIntake, TypeOK, PoolTypes
<1>2. GenerationInv'
  BY DEF Fence, GenerationInv, Current
<1>3. OwnerInv'
  BY <1>1 DEF Fence, OwnerInv
<1>4. StopInv'
  BY <1>1 DEF Fence, StopInv, Current, Fenced, Idle
<1>5. QED
  BY <1>2, <1>3, <1>4 DEF Fence

\* ... and so does every step of an intake worker.
LEMMA IntakeFence ==
    ASSUME TypeOK, Fence, NEW c \in Runs, NEW s \in Slots, Intake(c, s)
    PROVE  Fence'
<1>1. CASE IntakeStart(c, s) \/ IntakePark(c, s) \/ IntakeAgain(c, s)
  <2>1. PICK to : /\ SetIntake(c, s, to) /\ intake[c][s] # "off"
                  /\ intake[c][s] \in Idle /\ stopped => to \in Idle
    BY <1>1 DEF IntakeStart, IntakePark, IntakeAgain, Worker, Idle
  <2>2. UNCHANGED <<stopped, gen, run, connGen, disp, home, closer, pc>>
    BY <1>1 DEF IntakeStart, IntakePark, IntakeAgain, Worker, TaskStep
  <2>3. QED
    BY <2>1, <2>2, WorkerFence
<1>2. CASE IntakeTakenOver(c, s) \/ IntakeForceDown(c, s)
  <2>1. PICK to : SetIntake(c, s, to) /\ intake[c][s] \in {"parked", "flagged"}
    BY <1>2 DEF IntakeTakenOver, IntakeForceDown
  <2>2. UNCHANGED <<stopped, gen, run, connGen, disp, home, closer, pc>>
    BY <1>2 DEF IntakeTakenOver, IntakeForceDown, TaskStep
  <2>3. QED
    BY <2>1, <2>2, WorkerFence DEF Idle
<1>3. ASSUME NEW r \in Requests, IntakePush(c, s, r)
      PROVE  Fence'
  <2>1. r \notin WorkerStates
    BY RuntimeAssumption DEF RuntimeAssumption
  <2>2. /\ \E to : SetIntake(c, s, to)
        /\ intake[c][s] # "off" /\ intake[c][s] \notin Idle
    BY <1>3, <2>1 DEF IntakePush, WorkerStates, Idle
  <2>3. UNCHANGED <<stopped, gen, run, connGen, disp, home, closer, pc>>
    BY <1>3 DEF IntakePush, TaskStep
  <2>4. QED
    BY <2>2, <2>3, WorkerFence
<1>4. ASSUME NEW r \in Requests, IntakeDeliver(c, s, r)
      PROVE  Fence'
  <2>1. /\ intake[c][s] = "parked"
        /\ \A d \in Runs, q \in Slots :
              intake'[d][q] = IF d = c /\ q = s THEN r ELSE intake[d][q]
    BY <1>4 DEF IntakeDeliver, SetIntake, TypeOK, PoolTypes
  <2>2. /\ disp'[r] = "running" /\ home'[r] = c
        /\ \A q \in Requests : q # r => disp'[q] = disp[q] /\ home'[q] = home[q]
    BY <1>4 DEF IntakeDeliver, TypeOK, TaskTypes
  <2>3. UNCHANGED <<stopped, gen, run, connGen, closer, pc>>
    BY <1>4 DEF IntakeDeliver, TaskStep
  <2>4. GenerationInv'
    BY <2>3 DEF Fence, GenerationInv, Current
  <2>5. OwnerInv'
    BY <2>1, <2>2, <2>3 DEF Fence, OwnerInv
  <2>6. \A k \in Closers : Fenced(k) /\ Current(c) => FALSE
    BY <2>1 DEF Fence, StopInv
  <2>7. StopInv'
    BY <2>1, <2>2, <2>3, <2>6 DEF Fence, StopInv, Current, Fenced
  <2>8. QED
    BY <2>4, <2>5, <2>7 DEF Fence
<1>5. QED
  BY <1>1, <1>2, <1>3, <1>4 DEF Intake

\* A reply in progress does not touch the fence.
LEMMA DispatchFence ==
    ASSUME TypeOK, Fence, NEW r \in Requests, Dispatch(r)
    PROVE  Fence'
<1>1. UNCHANGED <<stopped, gen, run, connGen, intake, home, closer, pc>>
  BY DEF Dispatch, PostCheck, PostSend, TaskStep
<1>2. /\ disp[r] # "none" /\ disp'[r] # "running"
      /\ \A q \in Requests : q # r => disp'[q] = disp[q]
  BY DEF Dispatch, PostCheck, PostSend, TypeOK, TaskTypes
<1>3. GenerationInv' /\ OwnerInv'
  BY <1>1, <1>2 DEF Fence, GenerationInv, OwnerInv, Current
<1>4. StopInv'
  BY <1>1, <1>2 DEF Fence, StopInv, Current, Fenced
<1>5. QED
  BY <1>3, <1>4 DEF Fence

\* A step of aclose keeps it: the bump makes no run current.
LEMMA CloserFence ==
    ASSUME TypeOK, Fence, NEW k \in Closers, CloseStore(k) \/ CloserWork(k)
    PROVE  Fence'
<1>1. UNCHANGED <<run, connGen, intake, home, pc>>
  BY DEF CloseStore, CloserWork, CloseBump, CloseSignal, CloseSay, CloseClear, CloseTake,
     CloseJoin, CloserStep
<1>2. /\ closer \in [Closers -> {"idle", "bump", "signal", "say", "clear", "take", "join", "done"}]
      /\ disp \in [Requests -> {"none", "running", "checked", "posted", "failed", "aborted"}]
  BY DEF TypeOK, CloseTypes, TaskTypes
<1>3. CASE CloseStore(k)
  <2>1. /\ stopped' = TRUE /\ closer[k] = "idle" /\ closer'[k] = "bump"
        /\ \A j \in Closers : j # k => closer'[j] = closer[j]
        /\ UNCHANGED <<gen, disp>>
    BY <1>2, <1>3 DEF CloseStore, CloserAt, CloserTo
  <2>2. QED
    BY <1>1, <2>1 DEF Fence, GenerationInv, OwnerInv, StopInv, Current, Fenced
<1>4. CASE CloseBump(k)
  <2>1. /\ gen' = gen + 1 /\ closer[k] = "bump"
        /\ \A j \in Closers : j # k => closer'[j] = closer[j]
        /\ UNCHANGED <<stopped, disp>>
    BY <1>2, <1>4 DEF CloseBump, CloserAt, CloserTo, CloserStep
  <2>2. gen \in Nat /\ \A c \in Runs : connGen[c] \in Nat
    BY DEF TypeOK, SharedTypes, PoolTypes
  <2>3. \A c \in Runs : ~(Current(c))'
    BY <1>1, <2>1, <2>2 DEF Fence, GenerationInv, Current
  <2>4. GenerationInv' /\ OwnerInv'
    BY <1>1, <2>1, <2>2, <2>3 DEF Fence, GenerationInv, OwnerInv
  <2>5. StopInv'
    BY <1>1, <2>1, <2>3 DEF Fence, StopInv
  <2>6. QED
    BY <2>4, <2>5 DEF Fence
<1>5. CASE CloseSignal(k) \/ CloseSay(k) \/ CloseClear(k) \/ CloseTake(k) \/ CloseJoin(k)
  <2>1. /\ UNCHANGED <<stopped, gen>> /\ closer[k] \notin {"idle", "bump"}
        /\ \A j \in Closers : j # k => closer'[j] = closer[j]
    BY <1>2, <1>5 DEF CloseSignal, CloseSay, CloseClear, CloseTake, CloseJoin, CloserAt, CloserTo
  <2>2. \A r \in Requests : disp'[r] = disp[r] \/ (disp[r] = "running" /\ disp'[r] = "aborted")
    <3>1. UNCHANGED disp \/ \E R : disp' = AbortAll(R)
      BY <1>5 DEF CloseSignal, CloseSay, CloseClear, CloseTake, CloseJoin
    <3>2. QED
      BY <3>1 DEF AbortAll
  <2>3. GenerationInv' /\ OwnerInv'
    BY <1>1, <2>1, <2>2 DEF Fence, GenerationInv, OwnerInv, Current
  <2>4. StopInv'
    BY <1>1, <2>1, <2>2 DEF Fence, StopInv, Current, Fenced
  <2>5. QED
    BY <2>3, <2>4 DEF Fence
<1>6. QED
  BY <1>3, <1>4, <1>5 DEF CloserWork

\* The fence is an invariant of the runtime.
LEMMA FenceInvariant == Spec => [](TypeOK /\ Fence)
<1>1. Init => Fence
  BY RuntimeAssumption
  DEF RuntimeAssumption, Init, Fence, GenerationInv, OwnerInv, StopInv, Fenced, Current,
      Dialling, Serving, Retiring, Runs
<1>2. TypeOK /\ Fence /\ [Next]_vars => Fence'
  <2> SUFFICES ASSUME TypeOK, Fence, [Next]_vars PROVE Fence'
    OBVIOUS
  <2>1. CASE Supervisor
    BY <2>1, SupervisorFence
  <2>2. CASE \E c \in Runs : Driver(c) \/ Ping(c) \/ Edge(c)
    <3>1. UNCHANGED <<fenceVars, pc>>
      BY <2>2 DEF Driver, DriverEnds, DriverRecords, DriverCloses, Ping, PingSends, PingAcked, PingFails,
         Edge, EdgeDisplaces, PathGoesSilent, TaskStep, fenceVars
    <3>2. QED
      BY <3>1, MoveFence
  <2>3. CASE \E c \in Runs, s \in Slots : Intake(c, s)
    BY <2>3, IntakeFence
  <2>4. CASE \E r \in Requests : Dispatch(r)
    BY <2>4, DispatchFence
  <2>5. CASE \E k \in Closers : CloseStore(k) \/ CloserWork(k)
    BY <2>5, CloserFence
  <2>6. CASE (\E a \in Actors : RunCallback(a)) \/ Terminated \/ UNCHANGED vars
    <3>1. UNCHANGED <<fenceVars, pc>>
      BY <2>6 DEF RunCallback, Terminated, vars, fenceVars
    <3>2. QED
      BY <3>1, MoveFence
  <2>7. QED
    BY <2>1, <2>2, <2>3, <2>4, <2>5, <2>6 DEF Next
<1>3. QED
  BY <1>1, <1>2, TypeCorrect, PTL DEF Spec

\* A step that takes a dispatch past the generation test is that dispatch's own.
LEMMA OnlyPostCheck ==
    ASSUME TypeOK, [Next]_vars, NEW r \in Requests,
           disp[r] = "running", disp'[r] = "checked"
    PROVE  PostCheck(r)
<1>1. disp \in [Requests -> {"none", "running", "checked", "posted", "failed", "aborted"}]
  BY DEF TypeOK, TaskTypes
<1>2. ASSUME NEW R, disp' = AbortAll(R)
      PROVE  FALSE
  BY <1>2 DEF AbortAll
<1>3. CASE Supervisor
  <2>1. UNCHANGED disp \/ \E R : disp' = AbortAll(R)
    BY <1>3 DEF Supervisor, ServeStart, SayConnecting, LoopTop, Decide, SleepBegin, SleepEnd,
       SayClosed, SaySuperseded, DialBegin, DialStopped, DialOk, DialFail, DialFailed,
       SayDialFailed, HelloBegin, HelloStopped, HelloClosed, HelloReply, HelloFailed,
       HelloRetry, SayHelloRetry, HelloAbort, HelloVerdict, HelloQuitJoined, TakeGeneration,
       SpawnPool, Publish, Announce, ServeBegin, ServeWake, LoadTakeover, LoadStopping,
       RetireGeneration, DownRetry, SayDownRetry, Unpublish, DrainHandles, AbortTasks,
       JoinTasks, LeaveRun, Quiet, Say, Reconnecting
  <2>2. QED
    BY <1>2, <2>1
<1>4. CASE \E c \in Runs : Driver(c) \/ Ping(c) \/ Edge(c)
  BY <1>4 DEF Driver, DriverEnds, DriverRecords, DriverCloses, Ping, PingSends, PingAcked, PingFails,
     Edge, EdgeDisplaces, PathGoesSilent
<1>5. CASE \E c \in Runs, s \in Slots : Intake(c, s)
  <2>1. UNCHANGED disp
        \/ \E q \in Requests : disp[q] = "none" /\ disp' = [disp EXCEPT ![q] = "running"]
    BY <1>5 DEF Intake, IntakeStart, IntakePark, IntakeAgain, Worker, IntakeTakenOver,
       IntakeForceDown, IntakeDeliver, IntakePush
  <2>2. QED
    BY <1>1, <2>1
<1>6. CASE \E q \in Requests : Dispatch(q)
  <2>1. PICK q \in Requests : Dispatch(q)
    BY <1>6
  <2>2. \A p \in Requests : p # q => disp'[p] = disp[p]
    BY <1>1, <2>1 DEF Dispatch, PostCheck, PostSend
  <2>3. q = r
    BY <2>2
  <2>4. QED
    BY <2>1, <2>3 DEF Dispatch, PostSend
<1>7. CASE \E k \in Closers : CloseStore(k) \/ CloserWork(k)
  <2>1. UNCHANGED disp \/ \E R : disp' = AbortAll(R)
    BY <1>7 DEF CloseStore, CloserWork, CloseBump, CloseSignal, CloseSay, CloseClear, CloseTake,
       CloseJoin
  <2>2. QED
    BY <1>2, <2>1
<1>8. CASE (\E a \in Actors : RunCallback(a)) \/ Terminated \/ UNCHANGED vars
  BY <1>8 DEF RunCallback, Terminated, vars
<1>9. QED
  BY <1>3, <1>4, <1>5, <1>6, <1>7, <1>8 DEF Next

\* Only the connection being served can pass post_response's generation test,
\* and none can once an aclose has bumped the generation.
THEOREM RepliesFenced == Spec => ReplyFence
<1> DEFINE Passed ==
        \A r \in Http :
            disp[r] = "running" /\ disp'[r] = "checked" =>
                /\ home[r] = run
                /\ pc \in {"starting", "announce", "subscribe", "serve", "loadFlag",
                           "loadStop", "retire"}
                /\ \A k \in Closers : ~Fenced(k)
<1>1. TypeOK /\ Fence /\ [Next]_vars => Passed
  <2> SUFFICES ASSUME TypeOK, Fence, [Next]_vars, NEW r \in Http,
                      disp[r] = "running", disp'[r] = "checked"
               PROVE  /\ home[r] = run
                      /\ pc \in {"starting", "announce", "subscribe", "serve", "loadFlag",
                                 "loadStop", "retire"}
                      /\ \A k \in Closers : ~Fenced(k)
    OBVIOUS
  <2>1. r \in Requests /\ r \notin Bridged
    BY RuntimeAssumption DEF RuntimeAssumption, Requests
  <2>2. PostCheck(r)
    BY <2>1, OnlyPostCheck
  <2>3. gen = connGen[home[r]]
    BY <2>1, <2>2 DEF PostCheck, TypeOK, TaskTypes
  <2>4. home[r] \in Runs /\ Current(home[r]) /\ ~(home[r] = run /\ pc = "spawn")
    BY <2>1, <2>3 DEF Fence, OwnerInv, Current
  <2>5. home[r] = run /\ pc \in Serving
    BY <2>4 DEF Fence, GenerationInv
  <2>6. \A k \in Closers : ~Fenced(k)
    BY <2>1, <2>4 DEF Fence, StopInv
  <2>7. QED
    BY <2>4, <2>5, <2>6 DEF Serving
<1>2. TypeOK /\ Fence /\ [Next]_vars => [Passed]_vars
  BY <1>1
<1>3. QED
  BY <1>2, FenceInvariant, PTL DEF Spec, ReplyFence


(*************************************************************************)
(* How a connection is taken down: what is left of a run when the next   *)
(* one begins, and who owns a dispatch task until then.                  *)
(*************************************************************************)

\* Labels at which no run is under way.
Between ==
    {"start", "sayConnecting", "loop", "decide", "sleep", "sleeping", "closing",
     "saySuperseded", "returned"}

\* Labels at which the current run has no connection yet.
Undialled == {"dial", "dialing", "dialFailed", "sayDialFailed"}

\* Labels at which the connection tasks of the current run have been aborted.
Aborted == {"helloJoined", "helloQuitJoined", "join", "leave"}

\* Labels at which the current run has been counted as a connection.
Counted == {"subscribe", "serve", "loadFlag", "loadStop", "retire"} \cup Retiring

Over(c) == c < run \/ (c = run /\ pc \in Between)
Ahead(c) == c > run \/ (c = run /\ pc \in Undialled)

\* The supervisor is in a run only with one of its numbers, and numbers compare.
LEMMA RunNumbers ==
    ASSUME TypeOK
    PROVE  /\ run \in Nat /\ MaxRuns \in Nat
           /\ \A c \in Runs : c \in Nat
           /\ run # 0 => run \in Runs
           /\ pc \in Dialling \cup Serving \cup Retiring => run \in Runs
           /\ pc \in {"decide", "sleep", "sleeping", "saySuperseded"} => run \in Runs
BY RuntimeAssumption
DEF RuntimeAssumption, TypeOK, LocalTypes, Runs, PcLabels, Dialling, Serving, Retiring
-----------------------------------------------------------------------------
(* The tasks of a connection.                                              *)

\* Every task of a run that is over has ended, a run that has not dialled has
\* none, and the joins of a teardown wait for tasks that can only end.
ConnectionInv ==
    /\ \A c \in Runs : Over(c) =>
          /\ driver[c] \in {"off", "done"} /\ ping[c] = "off"
          /\ \A s \in Slots : intake[c][s] \in {"off", "done"}
    /\ \A c \in Runs : Ahead(c) => driver[c] = "off" /\ ping[c] = "off" /\ ~supFlag[c]
    /\ pc \in Aborted => driver[run] # "running" /\ ping[run] = "off"
    /\ pc = "join" => \A s \in Slots : intake[run][s] \in MidPoll \cup {"done"}
    /\ pc = "leave" => driver[run] = "done" /\ \A s \in Slots : intake[run][s] = "done"

\* A run whose pool is not spawned has no worker.
LEMMA NoWorkerYet ==
    ASSUME TypeOK, Fence, pc \in Dialling \cup {"spawn"}
    PROVE  \A s \in Slots : intake[run][s] = "off"
BY RunNumbers DEF Fence, GenerationInv, OwnerInv, TypeOK, PoolTypes, Serving

\* A step that only moves the supervisor keeps the tasks as they must be, unless
\* it ends the run, or the wait for its tasks.
LEMMA MoveConnection ==
    ASSUME ConnectionInv, UNCHANGED <<run, driver, ping, supFlag, intake>>,
           pc' \in Between => pc \in Between,
           pc' \in Undialled => pc \in Undialled,
           pc' \in Aborted => pc = pc'
    PROVE  ConnectionInv'
BY DEF ConnectionInv, Over, Ahead, Between, Undialled, Aborted

\* ... and one that ends the run keeps them if its tasks have ended.
LEMMA EndConnection ==
    ASSUME TypeOK, ConnectionInv, UNCHANGED <<run, driver, ping, supFlag, intake>>,
           pc' = "decide", driver[run] \in {"off", "done"}, ping[run] = "off",
           \A s \in Slots : intake[run][s] \in {"off", "done"}
    PROVE  ConnectionInv'
BY DEF ConnectionInv, Over, Ahead, Between, Undialled, Aborted

\* A step of the supervisor keeps them.
LEMMA SupervisorConnection == TypeOK /\ Fence /\ ConnectionInv /\ Supervisor => ConnectionInv'
<1> SUFFICES ASSUME TypeOK, Fence, ConnectionInv, Supervisor PROVE ConnectionInv'
  OBVIOUS
<1> DEFINE tasks == <<run, driver, ping, supFlag, intake>>
<1>1. CASE ServeStart \/ SayConnecting \/ SleepBegin \/ SleepEnd \/ Decide
           \/ SayClosed \/ SaySuperseded
  <2>1. UNCHANGED tasks /\ pc \in Between /\ pc' \in Between
    BY <1>1 DEF ServeStart, SayConnecting, SleepBegin, SleepEnd, Decide, SayClosed,
       SaySuperseded, Say, At, Quiet, Between
  <2>2. QED
    BY <2>1, MoveConnection DEF Between, Undialled, Aborted
<1>2. CASE LoopTop
  <2>1. CASE stopped
    <3>1. UNCHANGED tasks /\ pc \in Between /\ pc' = "closing"
      BY <1>2, <2>1 DEF LoopTop, At, Quiet, Between
    <3>2. QED
      BY <3>1, MoveConnection DEF Between, Undialled, Aborted
  <2>2. CASE ~stopped
    <3>1. /\ run' = run + 1 /\ pc' = "dial" /\ pc = "loop"
          /\ UNCHANGED <<driver, ping, supFlag, intake>>
      BY <1>2, <2>2 DEF LoopTop, At, Quiet
    <3>2. \A c \in Runs : /\ Over(c)' => Over(c)
                          /\ Ahead(c)' => Ahead(c)
      BY <3>1, RunNumbers DEF Over, Ahead, Between, Undialled
    <3>3. QED
      BY <3>1, <3>2 DEF ConnectionInv, Aborted
  <2>3. QED
    BY <2>1, <2>2
<1>3. CASE DialBegin \/ DialStopped \/ DialFail \/ DialFailed \/ SayDialFailed
  <2>1. UNCHANGED tasks /\ pc \in Undialled /\ pc' \in Undialled \cup {"decide"}
    BY <1>3 DEF DialBegin, DialStopped, DialFail, DialFailed, SayDialFailed, Say,
       Reconnecting, Leave, At, Quiet, Undialled
  <2>2. CASE pc' \in Undialled
    BY <2>1, <2>2, MoveConnection DEF Between, Undialled, Aborted
  <2>3. CASE pc' = "decide"
    <3>1. run \in Runs /\ \A s \in Slots : intake[run][s] = "off"
      BY <2>1, RunNumbers, NoWorkerYet DEF Undialled, Dialling
    <3>2. driver[run] = "off" /\ ping[run] = "off"
      BY <2>1, <3>1 DEF ConnectionInv, Ahead
    <3>3. QED
      BY <2>1, <2>3, <3>1, <3>2, EndConnection
  <2>4. QED
    BY <2>1, <2>2, <2>3
<1>4. CASE DialOk
  <2>1. /\ pc = "dialing" /\ pc' = "hello"
        /\ driver' = [driver EXCEPT ![run] = "running"]
        /\ ping' = [ping EXCEPT ![run] = "sleeping"]
        /\ UNCHANGED <<run, supFlag, intake>>
    BY <1>4 DEF DialOk, At
  <2>2. /\ run \in Nat /\ \A c \in Runs : c \in Nat
        /\ \A c \in Runs : c # run => driver'[c] = driver[c] /\ ping'[c] = ping[c]
    BY <2>1, RunNumbers DEF TypeOK, ConnTypes
  <2>3. QED
    BY <2>1, <2>2 DEF ConnectionInv, Over, Ahead, Between, Undialled, Aborted
<1>5. CASE HelloBegin \/ HelloStopped \/ HelloClosed \/ HelloFailed \/ HelloRetry
           \/ SayHelloRetry
           \/ \E o \in {"accepted", "auth", "superseded", "transient"} : HelloReply(o)
  <2>1. UNCHANGED tasks
        /\ pc' \in {"helloQuit", "helloing", "helloFailed", "park", "helloJoin",
                    "helloRetry", "sayHelloRetry"}
    BY <1>5 DEF HelloBegin, HelloStopped, HelloClosed, HelloFailed, HelloRetry, SayHelloRetry,
       HelloReply, Say, Reconnecting, Leave, At, Quiet
  <2>2. QED
    BY <2>1, MoveConnection DEF Between, Undialled, Aborted
<1>6. CASE HelloAbort
  <2>1. /\ pc \in {"helloJoin", "helloQuit"} /\ pc' \in {"helloJoined", "helloQuitJoined"}
        /\ driver' = [driver EXCEPT ![run] = IF @ = "running" THEN "done" ELSE @]
        /\ ping' = [ping EXCEPT ![run] = "off"]
        /\ UNCHANGED <<run, supFlag, intake>>
    BY <1>6 DEF HelloAbort, AbortConnection, At
  <2>2. /\ run \in Runs /\ run \in Nat /\ \A c \in Runs : c \in Nat
        /\ \A c \in Runs : c # run => driver'[c] = driver[c] /\ ping'[c] = ping[c]
        /\ driver'[run] # "running" /\ ping'[run] = "off"
    BY <2>1, RunNumbers DEF TypeOK, ConnTypes, Dialling
  <2>3. QED
    BY <2>1, <2>2 DEF ConnectionInv, Over, Ahead, Between, Undialled, Aborted
<1>7. CASE HelloVerdict \/ HelloQuitJoined
  <2>1. /\ UNCHANGED tasks /\ pc \in Aborted \cap Dialling /\ pc' = "decide"
        /\ driver[run] = "done"
    BY <1>7 DEF HelloVerdict, HelloQuitJoined, Leave, DropConnection, Closed, At, Aborted, Dialling
  <2>2. run \in Runs /\ \A s \in Slots : intake[run][s] = "off"
    BY <2>1, RunNumbers, NoWorkerYet
  <2>3. ping[run] = "off"
    BY <2>1 DEF ConnectionInv
  <2>4. QED
    BY <2>1, <2>2, <2>3, EndConnection
<1>8. CASE TakeGeneration \/ Publish \/ Announce \/ ServeBegin \/ ServeWake \/ LoadTakeover
           \/ LoadStopping \/ RetireGeneration \/ DownRetry \/ SayDownRetry \/ Unpublish
           \/ DrainHandles
  <2>1. UNCHANGED tasks /\ pc' \in (Serving \cup Retiring) \ {"join", "leave"}
    BY <1>8 DEF TakeGeneration, Publish, Announce, ServeBegin, ServeWake, LoadTakeover,
       LoadStopping, RetireGeneration, DownRetry, SayDownRetry, Unpublish, DrainHandles, Say,
       Reconnecting, At, Quiet, Serving, Retiring
  <2>2. QED
    BY <2>1, MoveConnection DEF Between, Undialled, Aborted, Serving, Retiring
<1>9. CASE SpawnPool
  <2>1. /\ pc = "spawn" /\ pc' = "starting"
        /\ intake' = [intake EXCEPT ![run] = [s \in Slots |-> "spawned"]]
        /\ UNCHANGED <<run, driver, ping, supFlag>>
    BY <1>9 DEF SpawnPool, At
  <2>2. /\ run \in Nat /\ \A c \in Runs : c \in Nat
        /\ \A c \in Runs : c # run => intake'[c] = intake[c]
    BY <2>1, RunNumbers DEF TypeOK, PoolTypes
  <2>3. QED
    BY <2>1, <2>2 DEF ConnectionInv, Over, Ahead, Between, Undialled, Aborted
<1>10. CASE AbortTasks
  <2>1. /\ pc = "abort" /\ pc' = "join"
        /\ driver' = [driver EXCEPT ![run] = IF @ = "running" THEN "done" ELSE @]
        /\ ping' = [ping EXCEPT ![run] = "off"]
        /\ UNCHANGED <<run, supFlag>>
    BY <1>10 DEF AbortTasks, AbortConnection, At
  <2>2. run \in Runs /\ run \in Nat /\ \A c \in Runs : c \in Nat
    BY <2>1, RunNumbers DEF Retiring
  <2>3. /\ \A c \in Runs : c # run => driver'[c] = driver[c] /\ ping'[c] = ping[c]
        /\ driver'[run] # "running" /\ ping'[run] = "off"
    BY <2>1, <2>2 DEF TypeOK, ConnTypes
  <2>4. /\ \A c \in Runs : c # run => intake'[c] = intake[c]
        /\ \A s \in Slots : intake'[run][s] \in MidPoll \cup {"done"}
    BY <1>10, <2>2 DEF AbortTasks, TypeOK, PoolTypes
  <2>5. QED
    BY <2>1, <2>2, <2>3, <2>4 DEF ConnectionInv, Over, Ahead, Between, Undialled, Aborted
<1>11. CASE JoinTasks
  <2>1. /\ UNCHANGED tasks /\ pc = "join" /\ pc' = "leave"
        /\ driver[run] = "done" /\ \A s \in Slots : intake[run][s] = "done"
    BY <1>11 DEF JoinTasks, Closed, At
  <2>2. QED
    BY <2>1 DEF ConnectionInv, Over, Ahead, Between, Undialled, Aborted
<1>12. CASE LeaveRun
  <2>1. UNCHANGED tasks /\ pc = "leave" /\ pc' = "decide"
    BY <1>12 DEF LeaveRun, Leave, DropConnection, At
  <2>2. driver[run] = "done" /\ ping[run] = "off" /\ \A s \in Slots : intake[run][s] = "done"
    BY <2>1 DEF ConnectionInv, Aborted
  <2>3. QED
    BY <2>1, <2>2, EndConnection
<1>13. QED
  BY <1>1, <1>2, <1>3, <1>4, <1>5, <1>6, <1>7, <1>8, <1>9, <1>10, <1>11, <1>12 DEF Supervisor

\* A step of a connection's driver or PING monitor keeps them: a task that has
\* ended takes no step, and an aborted driver only goes on to its end.
LEMMA ConnectionConnection ==
    ASSUME TypeOK, ConnectionInv, NEW c \in Runs, Driver(c) \/ Ping(c) \/ Edge(c)
    PROVE  ConnectionInv'
<1>1. /\ UNCHANGED <<run, pc, intake>>
      /\ \A d \in Runs : d # c => /\ driver'[d] = driver[d] /\ ping'[d] = ping[d]
                                  /\ supFlag'[d] = supFlag[d]
  BY DEF Driver, DriverEnds, DriverRecords, DriverCloses, Ping, PingSends, PingAcked, PingFails,
     Edge, EdgeDisplaces, PathGoesSilent, TaskStep, TypeOK, ConnTypes
<1>2. /\ driver[c] \in {"off", "done"} => driver'[c] = driver[c]
      /\ driver[c] # "running" => driver'[c] # "running"
      /\ ping[c] = "off" => ping'[c] = "off"
      /\ driver[c] = "off" => supFlag'[c] = supFlag[c]
  BY DEF Driver, DriverEnds, DriverRecords, DriverCloses, Ping, PingSends, PingAcked, PingFails,
     Edge, EdgeDisplaces, PathGoesSilent, TypeOK, ConnTypes
<1>3. pc \in Aborted => run \in Runs
  BY RunNumbers DEF Aborted, Dialling, Retiring
<1>4. \A d \in Runs : /\ driver[d] \in {"off", "done"} => driver'[d] = driver[d]
                      /\ driver[d] # "running" => driver'[d] # "running"
                      /\ ping[d] = "off" => ping'[d] = "off"
                      /\ driver[d] = "off" => supFlag'[d] = supFlag[d]
  BY <1>1, <1>2
<1>5. \A d \in Runs : Over(d)' = Over(d) /\ Ahead(d)' = Ahead(d)
  BY <1>1 DEF Over, Ahead
<1>6. QED
  BY <1>1, <1>3, <1>4, <1>5 DEF ConnectionInv, Aborted

\* A worker that is off or done takes no step; an aborted one only ends; and a
\* run that has not dialled has no worker.
LEMMA WorkerSteps ==
    ASSUME TypeOK, Fence, ConnectionInv, NEW c \in Runs, NEW s \in Slots, Intake(c, s)
    PROVE  /\ intake[c][s] \notin {"off", "done"}
           /\ c = run /\ pc \notin Between \cup Dialling \cup {"spawn", "leave"}
           /\ pc = "join" => intake[c][s] \in MidPoll /\ intake'[c][s] = "done"
           /\ UNCHANGED <<run, pc, driver, ping>>
           /\ \A d \in Runs, q \in Slots : d # c \/ q # s => intake'[d][q] = intake[d][q]
           /\ \A d \in Runs : d # c => supFlag'[d] = supFlag[d]
<1>r. \A r \in Requests : r \notin WorkerStates
  BY RuntimeAssumption DEF RuntimeAssumption
<1>1. intake[c][s] \notin {"off", "done"}
  BY <1>r DEF Intake, IntakeStart, IntakePark, IntakeAgain, Worker, IntakeTakenOver,
     IntakeForceDown, IntakeDeliver, IntakePush, WorkerStates
<1>2. ~Over(c) /\ ~(c = run /\ pc \in {"spawn", "leave"})
  BY <1>1 DEF ConnectionInv, Fence, OwnerInv
<1>3. connGen[c] > 0
  BY <1>1 DEF Fence, OwnerInv
<1>4. c = run /\ pc \notin Between \cup Dialling \cup {"spawn", "leave"}
  BY <1>2, <1>3, RunNumbers DEF Over, Fence, GenerationInv
<1>5. pc = "join" => intake[c][s] \in MidPoll /\ intake'[c][s] = "done"
  <2> SUFFICES ASSUME pc = "join" PROVE intake[c][s] \in MidPoll /\ intake'[c][s] = "done"
    OBVIOUS
  <2>1. intake[c][s] \in MidPoll
    BY <1>1, <1>4 DEF ConnectionInv
  <2>2. IntakeForceDown(c, s) \/ \E r \in Requests : IntakePush(c, s, r)
    BY <1>r, <2>1 DEF Intake, IntakeStart, IntakePark, IntakeAgain, Worker, IntakeTakenOver,
       IntakeDeliver, MidPoll, WorkerStates
  <2>3. SetIntake(c, s, "done")
    BY <2>2 DEF IntakeForceDown, IntakePush, Tearing
  <2>4. QED
    BY <2>1, <2>3 DEF SetIntake, TypeOK, PoolTypes
<1>6. UNCHANGED <<run, pc, driver, ping>>
  BY DEF Intake, IntakeStart, IntakePark, IntakeAgain, Worker, IntakeTakenOver,
     IntakeForceDown, IntakeDeliver, IntakePush, TaskStep
<1>7. \E to : SetIntake(c, s, to)
  BY DEF Intake, IntakeStart, IntakePark, IntakeAgain, Worker, IntakeTakenOver,
     IntakeForceDown, IntakeDeliver, IntakePush
<1>8. \A d \in Runs, q \in Slots : d # c \/ q # s => intake'[d][q] = intake[d][q]
  BY <1>7 DEF SetIntake, TypeOK, PoolTypes
<1>9. \A d \in Runs : d # c => supFlag'[d] = supFlag[d]
  BY DEF Intake, IntakeStart, IntakePark, IntakeAgain, Worker, IntakeTakenOver,
     IntakeForceDown, IntakeDeliver, IntakePush, TypeOK, ConnTypes
<1>10. QED
  BY <1>1, <1>4, <1>5, <1>6, <1>8, <1>9

\* So a step of an intake worker keeps them.
LEMMA IntakeConnection ==
    ASSUME TypeOK, Fence, ConnectionInv, NEW c \in Runs, NEW s \in Slots, Intake(c, s)
    PROVE  ConnectionInv'
<1>1. run \in Nat /\ \A d \in Runs : d \in Nat
  BY RunNumbers
<1>2. \A d \in Runs : Over(d)' \/ Ahead(d)' => d # c
  BY <1>1, WorkerSteps DEF Over, Ahead, Undialled, Dialling
<1>3. QED
  BY <1>2, WorkerSteps DEF ConnectionInv, Over, Ahead, Aborted

\* The tasks are as they must be in every state.
LEMMA ConnectionInvariant == Spec => [](TypeOK /\ Fence /\ ConnectionInv)
<1>1. Init => ConnectionInv
  BY DEF Init, ConnectionInv, Over, Ahead, Aborted
<1>2. TypeOK /\ Fence /\ ConnectionInv /\ [Next]_vars => ConnectionInv'
  <2> SUFFICES ASSUME TypeOK, Fence, ConnectionInv, [Next]_vars PROVE ConnectionInv'
    OBVIOUS
  <2>1. CASE Supervisor
    BY <2>1, SupervisorConnection
  <2>2. CASE \E c \in Runs : Driver(c) \/ Ping(c) \/ Edge(c)
    BY <2>2, ConnectionConnection
  <2>3. CASE \E c \in Runs, s \in Slots : Intake(c, s)
    BY <2>3, IntakeConnection
  <2>4. CASE \/ \E r \in Requests : Dispatch(r)
             \/ \E k \in Closers : CloseStore(k) \/ CloserWork(k)
             \/ \E a \in Actors : RunCallback(a)
             \/ Terminated \/ UNCHANGED vars
    <3>1. UNCHANGED <<run, driver, ping, supFlag, intake, pc>>
      BY <2>4 DEF Dispatch, PostCheck, PostSend, TaskStep, CloseStore, CloserWork, CloseBump,
         CloseSignal, CloseSay, CloseClear, CloseTake, CloseJoin, CloserStep, RunCallback,
         Terminated, vars
    <3>2. QED
      BY <3>1, MoveConnection
  <2>5. QED
    BY <2>1, <2>2, <2>3, <2>4 DEF Next
<1>3. QED
  BY <1>1, <1>2, FenceInvariant, PTL DEF Spec

\* Reconnects are cold: when a run begins no driver, PING monitor or worker of an
\* earlier one is left, whatever the edge, the callers of aclose and the tasks do.
THEOREM ColdReconnect == Spec => []OneConnection
<1>1. ConnectionInv => OneConnection
  BY DEF ConnectionInv, OneConnection, Over
<1>2. QED
  BY <1>1, ConnectionInvariant, PTL
-----------------------------------------------------------------------------
(* A takeover noticed while hello fails.                                   *)

\* A run that was taken over without having connected is the last one: the
\* supervisor goes on either to report it or because of a stop.
TakeoverInv ==
    /\ stopSig => stopped
    /\ pc \in {"start", "sayConnecting"} => run = 0
    /\ pc \in {"helloQuit", "helloQuitJoined"} => stopped
    /\ pc \in Counted => served[run]
    /\ \A c \in Runs : supFlag[c] /\ ~served[c] =>
          /\ c >= run
          /\ c = run /\ pc = "decide" => stopped \/ outcome = "superseded"
          /\ c = run /\ pc \in {"sleep", "sleeping", "loop"} => stopped

\* What it looks at besides the supervisor's label and the result of the run.
takeoverVars == <<stopSig, stopped, run, supFlag, served>>

\* A step that moves the supervisor elsewhere keeps it.
LEMMA MoveTakeover ==
    ASSUME TakeoverInv, UNCHANGED takeoverVars,
           pc' \in {"helloQuit", "helloQuitJoined"} =>
               stopSig \/ pc \in {"helloQuit", "helloQuitJoined"},
           pc' \in Counted => pc \in Counted,
           pc' \notin {"start", "sayConnecting"} \/ pc = "start",
           pc' \notin {"decide", "sleep", "sleeping", "loop"}
    PROVE  TakeoverInv'
BY DEF TakeoverInv, takeoverVars

\* A step of the supervisor keeps it.
LEMMA SupervisorTakeover ==
    TypeOK /\ ConnectionInv /\ TakeoverInv /\ Supervisor => TakeoverInv'
<1> SUFFICES ASSUME TypeOK, ConnectionInv, TakeoverInv, Supervisor PROVE TakeoverInv'
  OBVIOUS
<1>1. CASE ServeStart \/ SayConnecting \/ SayClosed \/ SaySuperseded \/ SleepBegin \/ SleepEnd
  <2>1. /\ UNCHANGED takeoverVars
        /\ \/ pc' \in {"closing", "returned"}
           \/ pc = "start" /\ pc' = "sayConnecting"
           \/ pc = "sayConnecting" /\ pc' = "loop"
           \/ pc \in {"sleep", "sleeping"} /\ pc' \in {"sleeping", "loop"}
    BY <1>1 DEF ServeStart, SayConnecting, SayClosed, SaySuperseded, SleepBegin, SleepEnd, Say,
       At, Quiet, takeoverVars
  <2>2. CASE pc' \in {"closing", "returned"} \/ (pc = "start" /\ pc' = "sayConnecting")
    BY <2>1, <2>2, MoveTakeover DEF Counted, Retiring
  <2>3. CASE pc = "sayConnecting" /\ pc' = "loop"
    <3>1. \A c \in Runs : c # run
      BY <2>3, RunNumbers DEF TakeoverInv, Runs
    <3>2. QED
      BY <2>1, <2>3, <3>1 DEF TakeoverInv, takeoverVars, Counted, Retiring
  <2>4. CASE pc \in {"sleep", "sleeping"} /\ pc' \in {"sleeping", "loop"}
    BY <2>1, <2>4 DEF TakeoverInv, takeoverVars, Counted, Retiring
  <2>5. QED
    BY <2>1, <2>2, <2>3, <2>4
<1>2. CASE Decide
  <2>1. /\ pc = "decide" /\ UNCHANGED <<takeoverVars, outcome>>
        /\ pc' \in {"closing", "saySuperseded"}
           \/ (pc' = "sleep" /\ ~stopped /\ outcome # "superseded")
    BY <1>2 DEF Decide, At, Quiet, takeoverVars
  <2>2. QED
    BY <2>1 DEF TakeoverInv, takeoverVars, Counted, Retiring
<1>3. CASE LoopTop
  <2>1. CASE stopped
    <3>1. UNCHANGED takeoverVars /\ pc' = "closing"
      BY <1>3, <2>1 DEF LoopTop, At, Quiet, takeoverVars
    <3>2. QED
      BY <3>1, MoveTakeover DEF Counted, Retiring
  <2>2. CASE ~stopped
    <3>1. /\ run' = run + 1 /\ pc' = "dial" /\ pc = "loop"
          /\ UNCHANGED <<stopSig, stopped, supFlag, served>>
      BY <1>3, <2>2 DEF LoopTop, At, Quiet
    <3>2. \A c \in Runs : supFlag[c] /\ ~served[c] => c >= run + 1
      BY <2>2, <3>1, RunNumbers DEF TakeoverInv
    <3>3. QED
      BY <3>1, <3>2 DEF TakeoverInv, Counted, Retiring
  <2>3. QED
    BY <2>1, <2>2
<1>4. CASE DialBegin \/ DialStopped \/ DialFail \/ DialFailed \/ SayDialFailed
  <2>1. UNCHANGED takeoverVars /\ pc \in Undialled /\ pc' \in Undialled \cup {"decide"}
    BY <1>4 DEF DialBegin, DialStopped, DialFail, DialFailed, SayDialFailed, Say,
       Reconnecting, Leave, At, Quiet, Undialled, takeoverVars
  <2>2. \A c \in Runs : c = run => ~supFlag[c]
    BY <2>1 DEF ConnectionInv, Ahead
  <2>3. QED
    BY <2>1, <2>2 DEF TakeoverInv, takeoverVars, Undialled, Counted, Retiring
<1>5. CASE DialOk \/ HelloBegin \/ HelloStopped \/ HelloClosed \/ HelloFailed \/ HelloRetry
           \/ SayHelloRetry \/ HelloAbort
           \/ \E o \in {"accepted", "auth", "superseded", "transient"} : HelloReply(o)
  <2>1. /\ UNCHANGED takeoverVars /\ pc' \in Dialling \ {"decide"}
        /\ pc' \in {"helloQuit", "helloQuitJoined"} =>
               stopSig \/ pc \in {"helloQuit", "helloQuitJoined"}
    BY <1>5 DEF DialOk, HelloBegin, HelloStopped, HelloClosed, HelloFailed, HelloRetry,
       SayHelloRetry, HelloReply, HelloAbort, Say, Reconnecting, Leave, At, Quiet, Dialling,
       takeoverVars
  <2>2. QED
    BY <2>1, MoveTakeover DEF Dialling, Counted, Retiring
<1>6. CASE HelloVerdict \/ HelloQuitJoined
  <2>1. UNCHANGED takeoverVars /\ pc' = "decide"
    BY <1>6 DEF HelloVerdict, HelloQuitJoined, Leave, DropConnection, takeoverVars
  <2>2. stopped \/ (supFlag[run] => outcome' = "superseded")
    BY <1>6 DEF HelloVerdict, HelloQuitJoined, Leave, At, TakeoverInv
  <2>3. QED
    BY <2>1, <2>2 DEF TakeoverInv, takeoverVars, Counted, Retiring
<1>7. CASE TakeGeneration \/ SpawnPool \/ Publish
  <2>1. UNCHANGED takeoverVars /\ pc' \in {"spawn", "starting", "announce"}
    BY <1>7 DEF TakeGeneration, SpawnPool, Publish, takeoverVars
  <2>2. QED
    BY <2>1, MoveTakeover DEF Counted, Retiring
<1>8. CASE Announce
  <2>1. /\ pc = "announce" /\ pc' = "subscribe" /\ served' = [served EXCEPT ![run] = TRUE]
        /\ UNCHANGED <<stopSig, stopped, run, supFlag>>
    BY <1>8 DEF Announce, At
  <2>2. /\ run \in Runs /\ served'[run]
        /\ \A c \in Runs : c # run => served'[c] = served[c]
    BY <2>1, RunNumbers DEF TypeOK, PoolTypes, Serving
  <2>3. QED
    BY <2>1, <2>2 DEF TakeoverInv
<1>9. CASE ServeBegin \/ ServeWake \/ LoadTakeover \/ LoadStopping \/ RetireGeneration
           \/ DownRetry \/ SayDownRetry \/ Unpublish \/ DrainHandles \/ AbortTasks \/ JoinTasks
  <2>1. UNCHANGED takeoverVars /\ pc \in Counted /\ pc' \in Counted
    BY <1>9 DEF ServeBegin, ServeWake, LoadTakeover, LoadStopping, RetireGeneration, DownRetry,
       SayDownRetry, Unpublish, DrainHandles, AbortTasks, JoinTasks, AbortConnection, Say,
       Reconnecting, At, Quiet, Counted, Retiring, takeoverVars
  <2>2. QED
    BY <2>1, MoveTakeover DEF Counted, Retiring
<1>10. CASE LeaveRun
  <2>1. UNCHANGED takeoverVars /\ pc = "leave" /\ pc' = "decide"
    BY <1>10 DEF LeaveRun, Leave, DropConnection, At, takeoverVars
  <2>2. served[run]
    BY <2>1 DEF TakeoverInv, Counted, Retiring
  <2>3. QED
    BY <2>1, <2>2 DEF TakeoverInv, takeoverVars, Counted, Retiring
<1>11. QED
  BY <1>1, <1>2, <1>3, <1>4, <1>5, <1>6, <1>7, <1>8, <1>9, <1>10 DEF Supervisor

\* A flag is raised only by a task that runs: never for a run that is over.
LEMMA FlagRaised ==
    ASSUME TypeOK, Fence, ConnectionInv, TakeoverInv,
           UNCHANGED <<stopSig, stopped, run, pc, outcome, served>>,
           \A c \in Runs : Over(c) => supFlag'[c] = supFlag[c]
    PROVE  TakeoverInv'
<1>1. \A c \in Runs : supFlag'[c] # supFlag[c] => c >= run /\ ~(c = run /\ pc \in Between)
  BY RunNumbers DEF Over
<1>2. QED
  BY <1>1 DEF TakeoverInv, Between

\* Runs taken over before they connected end the program in every state.
LEMMA TakeoverInvariant == Spec => [](TypeOK /\ Fence /\ ConnectionInv /\ TakeoverInv)
<1>1. Init => TakeoverInv
  BY DEF Init, TakeoverInv, Counted, Retiring
<1>2. TypeOK /\ Fence /\ ConnectionInv /\ TakeoverInv /\ [Next]_vars => TakeoverInv'
  <2> SUFFICES ASSUME TypeOK, Fence, ConnectionInv, TakeoverInv, [Next]_vars
               PROVE TakeoverInv'
    OBVIOUS
  <2>1. CASE Supervisor
    BY <2>1, SupervisorTakeover
  <2>2. CASE \E c \in Runs : Driver(c) \/ Ping(c) \/ Edge(c)
    <3>1. UNCHANGED <<stopSig, stopped, run, pc, outcome, served>>
      BY <2>2 DEF Driver, DriverEnds, DriverRecords, DriverCloses, Ping, PingSends, PingAcked,
         PingFails, Edge, EdgeDisplaces, PathGoesSilent, TaskStep
    <3>2. \A c \in Runs : driver[c] \in {"off", "done"} => supFlag'[c] = supFlag[c]
      BY <2>2 DEF Driver, DriverEnds, DriverRecords, DriverCloses, Ping, PingSends, PingAcked,
         PingFails, Edge, EdgeDisplaces, PathGoesSilent, TypeOK, ConnTypes
    <3>3. QED
      BY <3>1, <3>2, FlagRaised DEF ConnectionInv
  <2>3. CASE \E c \in Runs, s \in Slots : Intake(c, s)
    <3>1. PICK c \in Runs, s \in Slots : Intake(c, s)
      BY <2>3
    <3>2. UNCHANGED <<stopSig, stopped, run, pc, outcome, served>>
      BY <3>1 DEF Intake, IntakeStart, IntakePark, IntakeAgain, Worker, IntakeTakenOver,
         IntakeForceDown, IntakeDeliver, IntakePush, TaskStep
    <3>3. \A d \in Runs : Over(d) => supFlag'[d] = supFlag[d]
      BY <3>1, WorkerSteps, RunNumbers DEF Over
    <3>4. QED
      BY <3>2, <3>3, FlagRaised
  <2>4. CASE \E k \in Closers : CloseStore(k) \/ CloserWork(k)
    <3>1. /\ UNCHANGED <<run, supFlag, served, pc, outcome>>
          /\ stopped => stopped'
      BY <2>4 DEF CloseStore, CloserWork, CloseBump, CloseSignal, CloseSay, CloseClear,
         CloseTake, CloseJoin, CloserStep
    <3>2. stopSig' => stopped'
      BY <2>4, <3>1 DEF CloseStore, CloserWork, CloseBump, CloseSignal, CloseSay, CloseClear,
         CloseTake, CloseJoin, CloserAt, Fence, StopInv, TakeoverInv
    <3>3. QED
      BY <3>1, <3>2 DEF TakeoverInv
  <2>5. CASE \/ \E r \in Requests : Dispatch(r)
             \/ \E a \in Actors : RunCallback(a)
             \/ Terminated \/ UNCHANGED vars
    <3>1. UNCHANGED <<takeoverVars, pc, outcome>>
      BY <2>5 DEF Dispatch, PostCheck, PostSend, TaskStep, RunCallback, Terminated, vars,
         takeoverVars
    <3>2. QED
      BY <3>1 DEF TakeoverInv, takeoverVars
  <2>6. QED
    BY <2>1, <2>2, <2>3, <2>4, <2>5 DEF Next
<1>3. QED
  BY <1>1, <1>2, ConnectionInvariant, PTL DEF Spec

\* A takeover that the driver records while hello fails is never lost: no later
\* run begins.
THEOREM TakeoverDuringHello == Spec => []HelloTakeoverStops
<1>1. TypeOK /\ TakeoverInv => HelloTakeoverStops
  BY RunNumbers DEF TakeoverInv, HelloTakeoverStops
<1>2. QED
  BY <1>1, TakeoverInvariant, PTL
-----------------------------------------------------------------------------
(* The dispatch tasks of a run.                                            *)

\* Labels at which the current run has workers, and so may have dispatch tasks.
Working == (Serving \ {"spawn"}) \cup Retiring

\* Somebody will abort r before the run is over: run_once when it returns, the
\* worker that will push it, or the teardown that has just drained it.
Held(r) ==
    \/ r \in handles[run]
    \/ \E s \in Slots : intake[run][s] = r
    \/ pc = "abort" /\ r \in batch

\* A running dispatch belongs to the run under way and is held; a request in a
\* worker's hand was handed out on that worker's connection.
DispatchInv ==
    /\ \A r \in Requests :
          disp[r] = "running" => home[r] = run /\ pc \in Working /\ Held(r)
    /\ \A c \in Runs, s \in Slots, r \in Requests :
          intake[c][s] = r => home[r] = c /\ disp[r] # "none"
    /\ batch # {} => pc \in {"abort", "join"}

\* What it looks at besides the supervisor's label.
dispatchVars == <<run, disp, home, handles, intake, batch>>

\* An abort leaves no running task of the set running, and starts none.
LEMMA Aborts ==
    ASSUME NEW R, NEW r \in Requests
    PROVE  /\ AbortAll(R)[r] = "running" <=> disp[r] = "running" /\ r \notin R
           /\ AbortAll(R)[r] \in {disp[r], "aborted"}
           /\ AbortAll(R)[r] # disp[r] => disp[r] = "running"
BY DEF AbortAll

\* A step that only moves the supervisor within a run, or between runs, keeps it.
LEMMA MoveDispatch ==
    ASSUME DispatchInv, UNCHANGED dispatchVars,
           pc \in Working => pc' \in Working,
           pc \in {"abort", "join"} => pc' = pc
    PROVE  DispatchInv'
BY DEF DispatchInv, Held, dispatchVars

\* A step of the supervisor keeps it.
LEMMA SupervisorDispatch ==
    TypeOK /\ Fence /\ ConnectionInv /\ DispatchInv /\ Supervisor => DispatchInv'
<1> SUFFICES ASSUME TypeOK, Fence, ConnectionInv, DispatchInv, Supervisor PROVE DispatchInv'
  OBVIOUS
<1>r. \A r \in Requests : r \notin WorkerStates
  BY RuntimeAssumption DEF RuntimeAssumption
<1>1. CASE ServeStart \/ SayConnecting \/ SleepBegin \/ SleepEnd \/ Decide
           \/ SayClosed \/ SaySuperseded
  <2>1. UNCHANGED dispatchVars /\ pc \notin Working
    BY <1>1 DEF ServeStart, SayConnecting, SleepBegin, SleepEnd, Decide, SayClosed,
       SaySuperseded, Say, At, Quiet, Working, Serving, Retiring, dispatchVars
  <2>2. QED
    BY <2>1, MoveDispatch DEF Working, Retiring
<1>2. CASE LoopTop
  <2>1. pc = "loop" /\ UNCHANGED <<disp, home, handles, intake, batch>>
    BY <1>2 DEF LoopTop, At, Quiet
  <2>2. QED
    BY <2>1 DEF DispatchInv, Working, Serving, Retiring
<1>3. CASE DialBegin \/ DialStopped \/ DialOk \/ DialFail \/ DialFailed \/ SayDialFailed
           \/ HelloBegin \/ HelloStopped \/ HelloClosed \/ HelloFailed \/ HelloRetry
           \/ SayHelloRetry
           \/ \E o \in {"accepted", "auth", "superseded", "transient"} : HelloReply(o)
  <2>1. UNCHANGED dispatchVars /\ pc \in Dialling
    BY <1>3 DEF DialBegin, DialStopped, DialOk, DialFail, DialFailed, SayDialFailed, HelloBegin,
       HelloStopped, HelloClosed, HelloFailed, HelloRetry, SayHelloRetry, HelloReply, Say,
       Reconnecting, Leave, At, Quiet, Dialling, dispatchVars
  <2>2. QED
    BY <2>1, MoveDispatch DEF Dialling, Working, Serving, Retiring
<1>4. CASE HelloAbort \/ HelloVerdict \/ HelloQuitJoined \/ TakeGeneration
  <2>1. UNCHANGED dispatchVars /\ pc \in Dialling
    BY <1>4 DEF HelloAbort, HelloVerdict, HelloQuitJoined, TakeGeneration, Leave, At, Dialling,
       dispatchVars
  <2>2. QED
    BY <2>1, MoveDispatch DEF Dialling, Working, Serving, Retiring
<1>5. CASE SpawnPool
  <2>1. /\ pc = "spawn" /\ pc' = "starting"
        /\ intake' = [intake EXCEPT ![run] = [s \in Slots |-> "spawned"]]
        /\ UNCHANGED <<run, disp, home, handles, batch>>
    BY <1>5 DEF SpawnPool, At
  <2>2. \A r \in Requests : disp[r] # "running"
    BY <2>1 DEF DispatchInv, Working, Retiring
  <2>3. \A c \in Runs, s \in Slots : intake'[c][s] \in {intake[c][s], "spawned"}
    BY <2>1 DEF TypeOK, PoolTypes
  <2>4. QED
    BY <1>r, <2>1, <2>2, <2>3 DEF DispatchInv, WorkerStates
<1>6. CASE Publish \/ Announce \/ ServeBegin \/ ServeWake \/ LoadTakeover \/ LoadStopping
           \/ RetireGeneration \/ DownRetry \/ SayDownRetry \/ Unpublish
  <2>1. UNCHANGED dispatchVars /\ pc' \in Working /\ pc \notin {"abort", "join"}
    BY <1>6 DEF Publish, Announce, ServeBegin, ServeWake, LoadTakeover, LoadStopping,
       RetireGeneration, DownRetry, SayDownRetry, Unpublish, Say, Reconnecting, At, Quiet,
       Working, Serving, Retiring, dispatchVars
  <2>2. QED
    BY <2>1, MoveDispatch
<1>7. CASE DrainHandles
  <2>1. /\ pc = "drain" /\ pc' = "abort" /\ batch' = handles[run]
        /\ UNCHANGED <<run, disp, home, intake>>
    BY <1>7 DEF DrainHandles, At
  <2>2. QED
    BY <2>1 DEF DispatchInv, Held, Working, Retiring
<1>8. CASE AbortTasks
  <2>1. /\ pc = "abort" /\ pc' = "join" /\ disp' = AbortAll(batch)
        /\ UNCHANGED <<run, home, handles, batch>>
    BY <1>8 DEF AbortTasks, At
  <2>2. \A c \in Runs, s \in Slots :
           /\ intake'[c][s] \in {intake[c][s], "done"}
           /\ intake[c][s] \in Requests => intake'[c][s] = intake[c][s]
    BY <1>8 DEF AbortTasks, MidPoll, TypeOK, PoolTypes
  <2>3. run \in Runs
    BY <2>1, RunNumbers DEF Retiring
  <2>4. \A r \in Requests : disp'[r] = "running" =>
           home'[r] = run' /\ pc' \in Working /\ Held(r)'
    BY <2>1, <2>2, <2>3, Aborts DEF DispatchInv, Held, Working, Retiring
  <2>5. \A c \in Runs, s \in Slots, r \in Requests :
           intake'[c][s] = r => home'[r] = c /\ disp'[r] # "none"
    BY <1>r, <2>1, <2>2, Aborts DEF DispatchInv, WorkerStates
  <2>6. QED
    BY <2>1, <2>4, <2>5 DEF DispatchInv
<1>9. CASE JoinTasks
  <2>1. /\ pc = "join" /\ pc' = "leave" /\ batch' = {}
        /\ UNCHANGED <<run, disp, home, handles, intake>>
    BY <1>9 DEF JoinTasks, At
  <2>2. QED
    BY <2>1 DEF DispatchInv, Held, Working, Retiring
<1>10. CASE LeaveRun
  <2>1. /\ pc = "leave" /\ pc' = "decide" /\ disp' = AbortAll(handles[run])
        /\ UNCHANGED <<run, home, intake, batch>>
    BY <1>10 DEF LeaveRun, Leave, At
  <2>2. \A s \in Slots : intake[run][s] = "done"
    BY <2>1 DEF ConnectionInv
  <2>3. \A r \in Requests : disp[r] = "running" => r \in handles[run]
    BY <1>r, <2>1, <2>2 DEF DispatchInv, Held, WorkerStates
  <2>4. \A r \in Requests : disp'[r] # "running"
    BY <2>1, <2>3, Aborts
  <2>5. \A c \in Runs, s \in Slots, r \in Requests :
           intake'[c][s] = r => home'[r] = c /\ disp'[r] # "none"
    BY <2>1, Aborts DEF DispatchInv
  <2>6. QED
    BY <2>1, <2>4, <2>5 DEF DispatchInv
<1>11. QED
  BY <1>1, <1>2, <1>3, <1>4, <1>5, <1>6, <1>7, <1>8, <1>9, <1>10 DEF Supervisor

\* The two steps of a worker that concern a dispatch: handing it out ...
LEMMA Delivered ==
    ASSUME TypeOK, NEW c \in Runs, NEW s \in Slots, NEW r \in Requests, IntakeDeliver(c, s, r)
    PROVE  /\ disp[r] = "none" /\ disp'[r] = "running" /\ home'[r] = c
           /\ \A q \in Requests : q # r => disp'[q] = disp[q] /\ home'[q] = home[q]
           /\ intake'[c][s] = r /\ intake[c][s] = "parked"
           /\ UNCHANGED <<run, pc, handles, lingering, batch, cbatch>>
BY DEF IntakeDeliver, SetIntake, TaskStep, TypeOK, PoolTypes, TaskTypes

\* ... and pushing its handle.
LEMMA Pushed ==
    ASSUME TypeOK, NEW c \in Runs, NEW s \in Slots, NEW r \in Requests, IntakePush(c, s, r)
    PROVE  /\ intake[c][s] = r /\ intake'[c][s] \in {"done", "ready"}
           /\ handles'[c] = {q \in handles[c] : ~Finished(q)} \cup {r}
           /\ \A d \in Runs : d # c => handles'[d] = handles[d]
           /\ UNCHANGED <<run, pc, disp, home, lingering, batch, cbatch>>
BY DEF IntakePush, SetIntake, TaskStep, TypeOK, PoolTypes, TaskTypes

\* The others leave the dispatches alone, and move between states of their own.
LEMMA Unconcerned ==
    ASSUME TypeOK, NEW c \in Runs, NEW s \in Slots,
           \/ IntakeStart(c, s) \/ IntakePark(c, s) \/ IntakeAgain(c, s)
           \/ IntakeTakenOver(c, s) \/ IntakeForceDown(c, s)
    PROVE  /\ intake[c][s] \in WorkerStates /\ intake'[c][s] \in WorkerStates
           /\ UNCHANGED <<run, pc, disp, home, handles, lingering, batch, cbatch>>
<1>1. \E to \in WorkerStates : SetIntake(c, s, to)
  BY DEF IntakeStart, IntakePark, IntakeAgain, Worker, IntakeTakenOver, IntakeForceDown,
     WorkerStates
<1>2. intake[c][s] \in WorkerStates
  BY DEF IntakeStart, IntakePark, IntakeAgain, Worker, IntakeTakenOver, IntakeForceDown,
     WorkerStates
<1>3. UNCHANGED <<run, pc, disp, home, handles, lingering, batch, cbatch>>
  BY DEF IntakeStart, IntakePark, IntakeAgain, Worker, IntakeTakenOver, IntakeForceDown, TaskStep
<1>4. QED
  BY <1>1, <1>2, <1>3 DEF SetIntake, TypeOK, PoolTypes

\* A step of an intake worker keeps it.
LEMMA IntakeDispatch ==
    ASSUME TypeOK, Fence, ConnectionInv, DispatchInv,
           NEW c \in Runs, NEW s \in Slots, Intake(c, s)
    PROVE  DispatchInv'
<1>r. \A r \in Requests : r \notin WorkerStates
  BY RuntimeAssumption DEF RuntimeAssumption
<1>w. /\ c = run /\ pc \notin Between \cup Dialling \cup {"spawn", "leave"}
      /\ \A d \in Runs, q \in Slots : d # c \/ q # s => intake'[d][q] = intake[d][q]
  BY WorkerSteps
<1>p. pc \in Working
  BY <1>w DEF TypeOK, PcLabels, Between, Dialling, Working, Serving, Retiring
<1>1. CASE \/ IntakeStart(c, s) \/ IntakePark(c, s) \/ IntakeAgain(c, s)
           \/ IntakeTakenOver(c, s) \/ IntakeForceDown(c, s)
  <2>1. /\ intake[c][s] \in WorkerStates /\ intake'[c][s] \in WorkerStates
        /\ UNCHANGED <<run, pc, disp, home, handles, batch>>
    BY <1>1, Unconcerned
  <2>2. QED
    BY <1>r, <1>w, <2>1 DEF DispatchInv, Held
<1>2. ASSUME NEW r \in Requests, IntakeDeliver(c, s, r)
      PROVE  DispatchInv'
  BY <1>r, <1>w, <1>p, <1>2, Delivered DEF DispatchInv, Held, WorkerStates
<1>3. ASSUME NEW r \in Requests, IntakePush(c, s, r)
      PROVE  DispatchInv'
  <2>1. \A q \in Requests : disp[q] = "running" => ~Finished(q)
    BY DEF Finished
  <2>2. \A q \in Requests : disp'[q] = "running" => Held(q)'
    BY <1>w, <1>3, <2>1, Pushed DEF DispatchInv, Held
  <2>3. \A d \in Runs, t \in Slots, q \in Requests :
           intake'[d][t] = q => home'[q] = d /\ disp'[q] # "none"
    BY <1>r, <1>w, <1>3, Pushed DEF DispatchInv, WorkerStates
  <2>4. QED
    BY <1>3, <2>2, <2>3, Pushed DEF DispatchInv
<1>4. QED
  BY <1>1, <1>2, <1>3 DEF Intake

\* The invariant holds in every state.
LEMMA DispatchInvariant == Spec => [](TypeOK /\ Fence /\ ConnectionInv /\ DispatchInv)
<1>1. Init => DispatchInv
  BY RuntimeAssumption DEF RuntimeAssumption, WorkerStates, Init, DispatchInv
<1>2. TypeOK /\ Fence /\ ConnectionInv /\ DispatchInv /\ [Next]_vars => DispatchInv'
  <2> SUFFICES ASSUME TypeOK, Fence, ConnectionInv, DispatchInv, [Next]_vars
               PROVE DispatchInv'
    OBVIOUS
  <2>1. CASE Supervisor
    BY <2>1, SupervisorDispatch
  <2>2. CASE \E c \in Runs, s \in Slots : Intake(c, s)
    BY <2>2, IntakeDispatch
  <2>3. CASE \E r \in Requests : Dispatch(r)
    <3>1. PICK r \in Requests : Dispatch(r)
      BY <2>3
    <3>2. /\ UNCHANGED <<run, pc, home, handles, intake, batch>>
          /\ disp[r] # "none" /\ disp'[r] \notin {"none", "running"}
          /\ \A q \in Requests : q # r => disp'[q] = disp[q]
      BY <3>1 DEF Dispatch, PostCheck, PostSend, TaskStep, TypeOK, TaskTypes
    <3>3. QED
      BY <3>2 DEF DispatchInv, Held
  <2>4. CASE \E k \in Closers : CloseStore(k) \/ CloserWork(k)
    <3>1. UNCHANGED <<run, pc, home, handles, intake, batch>>
      BY <2>4 DEF CloseStore, CloserWork, CloseBump, CloseSignal, CloseSay, CloseClear, CloseTake,
         CloseJoin, CloserStep
    <3>2. disp' = disp \/ disp' = AbortAll(lingering)
      BY <2>4 DEF CloseStore, CloserWork, CloseBump, CloseSignal, CloseSay, CloseClear, CloseTake,
         CloseJoin
    <3>3. \A r \in Requests : /\ disp'[r] = "running" => disp[r] = "running"
                              /\ disp[r] # "none" => disp'[r] # "none"
      BY <3>2, Aborts
    <3>4. QED
      BY <3>1, <3>3 DEF DispatchInv, Held
  <2>5. CASE \/ \E c \in Runs : Driver(c) \/ Ping(c) \/ Edge(c)
             \/ \E a \in Actors : RunCallback(a)
             \/ Terminated \/ UNCHANGED vars
    <3>1. UNCHANGED <<dispatchVars, pc>>
      BY <2>5 DEF Driver, DriverEnds, DriverRecords, DriverCloses, Ping, PingSends, PingAcked,
         PingFails, Edge, EdgeDisplaces, PathGoesSilent, TaskStep, RunCallback, Terminated, vars,
         dispatchVars
    <3>2. QED
      BY <3>1, MoveDispatch
  <2>6. QED
    BY <2>1, <2>2, <2>3, <2>4, <2>5 DEF Next
<1>3. QED
  BY <1>1, <1>2, ConnectionInvariant, PTL DEF Spec

\* No dispatch task outlives its run, not even one that a worker pushes after the
\* teardown has drained dispatch_handles.
THEOREM DispatchEndsWithRun == Spec => []NoDispatchSurvivesRun
<1>1. DispatchInv => NoDispatchSurvivesRun
  BY DEF DispatchInv, NoDispatchSurvivesRun, Working, Serving, Retiring
<1>2. QED
  BY <1>1, DispatchInvariant, PTL
-----------------------------------------------------------------------------
(* Ownership of the dispatch tasks.                                        *)

\* An owner's list, or a worker's hand, holds r.
Listed(r) ==
    \/ r \in handles[home[r]] \/ r \in batch \/ r \in lingering
    \/ \E s \in Slots : intake[home[r]][s] = r
    \/ \E k \in Closers : r \in cbatch[k]

\* The run of r has returned.
HomeOver(r) ==
    \/ home[r] # run
    \/ pc \in {"decide", "sleep", "sleeping", "loop", "closing", "saySuperseded", "returned"}

\* DispatchOwned, in these words.
OwnedInv ==
    \A r \in Requests : /\ disp[r] = "running" => Listed(r)
                        /\ disp[r] = "checked" => Listed(r) \/ HomeOver(r)

\* What it looks at besides the supervisor's label.
ownedVars == <<run, disp, home, handles, intake, batch, lingering, cbatch>>

\* A step that only moves the supervisor, not from the end of a run into one,
\* keeps every task owned.
LEMMA MoveOwned ==
    ASSUME OwnedInv, UNCHANGED ownedVars,
           \A r \in Requests : disp[r] = "checked" /\ HomeOver(r) => HomeOver(r)'
    PROVE  OwnedInv'
BY DEF OwnedInv, ownedVars, Listed

\* A request that was handed out was handed out by a run that has begun.
LEMMA HomeBegun ==
    ASSUME TypeOK, Fence, NEW r \in Requests, disp[r] # "none"
    PROVE  home[r] \in Runs /\ home[r] <= run
BY RunNumbers DEF Fence, GenerationInv, OwnerInv

\* A step of the supervisor keeps every task owned.
LEMMA SupervisorOwned ==
    TypeOK /\ Fence /\ ConnectionInv /\ DispatchInv /\ OwnedInv /\ Supervisor => OwnedInv'
<1> SUFFICES ASSUME TypeOK, Fence, ConnectionInv, DispatchInv, OwnedInv, Supervisor
             PROVE OwnedInv'
  OBVIOUS
<1> DEFINE Returned == {"decide", "sleep", "sleeping", "loop", "closing", "saySuperseded",
                        "returned"}
<1>r. \A r \in Requests : r \notin WorkerStates
  BY RuntimeAssumption DEF RuntimeAssumption
<1>1. CASE ServeStart \/ SayConnecting \/ SleepBegin \/ SleepEnd \/ Decide
           \/ SayClosed \/ SaySuperseded
  <2>1. UNCHANGED ownedVars /\ (pc \in Returned => pc' \in Returned)
    BY <1>1 DEF ServeStart, SayConnecting, SleepBegin, SleepEnd, Decide, SayClosed,
       SaySuperseded, Say, At, Quiet, ownedVars
  <2>2. QED
    BY <2>1, MoveOwned DEF HomeOver, ownedVars
<1>2. CASE LoopTop
  <2>1. CASE stopped
    <3>1. UNCHANGED ownedVars /\ pc' = "closing"
      BY <1>2, <2>1 DEF LoopTop, At, Quiet, ownedVars
    <3>2. QED
      BY <3>1, MoveOwned DEF HomeOver, ownedVars
  <2>2. CASE ~stopped
    <3>1. /\ run' = run + 1
          /\ UNCHANGED <<disp, home, handles, intake, batch, lingering, cbatch>>
      BY <1>2, <2>2 DEF LoopTop, At, Quiet
    <3>2. \A r \in Requests : disp[r] # "none" => HomeOver(r)'
      BY <3>1, HomeBegun, RunNumbers DEF HomeOver
    <3>3. QED
      BY <3>1, <3>2 DEF OwnedInv, Listed
  <2>3. QED
    BY <2>1, <2>2
<1>3. CASE DialBegin \/ DialStopped \/ DialOk \/ DialFail \/ DialFailed \/ SayDialFailed
           \/ HelloBegin \/ HelloStopped \/ HelloClosed \/ HelloFailed \/ HelloRetry
           \/ SayHelloRetry
           \/ \E o \in {"accepted", "auth", "superseded", "transient"} : HelloReply(o)
  <2>1. UNCHANGED ownedVars /\ pc \in Dialling
    BY <1>3 DEF DialBegin, DialStopped, DialOk, DialFail, DialFailed, SayDialFailed, HelloBegin,
       HelloStopped, HelloClosed, HelloFailed, HelloRetry, SayHelloRetry, HelloReply, Say,
       Reconnecting, Leave, At, Quiet, Dialling, ownedVars
  <2>2. QED
    BY <2>1, MoveOwned DEF Dialling, HomeOver, ownedVars
<1>4. CASE HelloAbort \/ HelloVerdict \/ HelloQuitJoined \/ TakeGeneration
  <2>1. UNCHANGED ownedVars /\ pc \in Dialling
    BY <1>4 DEF HelloAbort, HelloVerdict, HelloQuitJoined, TakeGeneration, Leave, At, Dialling,
       ownedVars
  <2>2. QED
    BY <2>1, MoveOwned DEF Dialling, HomeOver, ownedVars
<1>5. CASE SpawnPool
  <2>1. /\ pc = "spawn" /\ pc' = "starting"
        /\ intake' = [intake EXCEPT ![run] = [s \in Slots |-> "spawned"]]
        /\ UNCHANGED <<run, disp, home, handles, batch, lingering, cbatch>>
    BY <1>5 DEF SpawnPool, At
  <2>2. \A s \in Slots : intake[run][s] = "off"
    BY <2>1, NoWorkerYet
  <2>3. \A c \in Runs, s \in Slots, r \in Requests : intake[c][s] = r => intake'[c][s] = r
    BY <1>r, <2>1, <2>2 DEF TypeOK, PoolTypes, WorkerStates
  <2>4. \A r \in Requests : disp[r] # "none" => home[r] \in Runs
    BY HomeBegun
  <2>5. QED
    BY <2>1, <2>3, <2>4 DEF OwnedInv, Listed, HomeOver
<1>6. CASE Publish \/ Announce \/ ServeBegin \/ ServeWake \/ LoadTakeover \/ LoadStopping
           \/ RetireGeneration \/ DownRetry \/ SayDownRetry \/ Unpublish
  <2>1. UNCHANGED ownedVars /\ pc \notin Returned
    BY <1>6 DEF Publish, Announce, ServeBegin, ServeWake, LoadTakeover, LoadStopping,
       RetireGeneration, DownRetry, SayDownRetry, Unpublish, Say, Reconnecting, At, Quiet,
       ownedVars
  <2>2. QED
    BY <2>1, MoveOwned DEF HomeOver, ownedVars
<1>7. CASE DrainHandles
  <2>1. /\ pc = "drain" /\ pc' = "abort" /\ batch' = handles[run] /\ batch = {}
        /\ UNCHANGED <<run, disp, home, intake, lingering, cbatch>>
    BY <1>7 DEF DrainHandles, At, DispatchInv
  <2>2. \A c \in Runs : c # run => handles'[c] = handles[c]
    BY <1>7 DEF DrainHandles, TypeOK, TaskTypes
  <2>3. \A r \in Requests : disp[r] # "none" => home[r] \in Runs
    BY HomeBegun
  <2>4. \A r \in Requests : disp[r] # "none" /\ Listed(r) => Listed(r)'
    BY <2>1, <2>2, <2>3 DEF Listed
  <2>5. \A r \in Requests : HomeOver(r) => HomeOver(r)'
    BY <2>1 DEF HomeOver
  <2>6. QED
    BY <2>1, <2>4, <2>5 DEF OwnedInv
<1>8. CASE AbortTasks
  <2>1. /\ pc = "abort" /\ pc' = "join" /\ disp' = AbortAll(batch)
        /\ UNCHANGED <<run, home, handles, batch, lingering, cbatch>>
    BY <1>8 DEF AbortTasks, At
  <2>2. \A c \in Runs, s \in Slots : intake[c][s] \in Requests => intake'[c][s] = intake[c][s]
    BY <1>8 DEF AbortTasks, MidPoll, TypeOK, PoolTypes
  <2>3. \A r \in Requests : disp[r] # "none" => home[r] \in Runs
    BY HomeBegun
  <2>4. \A r \in Requests : disp[r] # "none" /\ Listed(r) => Listed(r)'
    BY <2>1, <2>2, <2>3 DEF Listed
  <2>5. \A r \in Requests : HomeOver(r) => HomeOver(r)'
    BY <2>1 DEF HomeOver
  <2>6. \A r \in Requests : disp'[r] \in {"running", "checked"} => disp'[r] = disp[r]
    BY <2>1, Aborts
  <2>7. QED
    BY <2>4, <2>5, <2>6 DEF OwnedInv
<1>9. CASE JoinTasks
  <2>1. /\ pc = "join" /\ pc' = "leave" /\ batch' = {}
        /\ lingering' = lingering \cup {r \in batch : ~Finished(r)}
        /\ UNCHANGED <<run, disp, home, handles, intake, cbatch>>
    BY <1>9 DEF JoinTasks, At
  <2>2. \A r \in Requests : disp[r] \in {"running", "checked"} /\ Listed(r) => Listed(r)'
    BY <2>1 DEF Listed, Finished
  <2>3. \A r \in Requests : HomeOver(r) => HomeOver(r)'
    BY <2>1 DEF HomeOver
  <2>4. QED
    BY <2>1, <2>2, <2>3 DEF OwnedInv
<1>10. CASE LeaveRun
  <2>1. /\ pc = "leave" /\ pc' = "decide" /\ disp' = AbortAll(handles[run])
        /\ UNCHANGED <<run, home, intake, batch, lingering, cbatch>>
    BY <1>10 DEF LeaveRun, Leave, At
  <2>2. \A s \in Slots : intake[run][s] = "done"
    BY <2>1 DEF ConnectionInv
  <2>3. \A r \in Requests : disp[r] = "running" => r \in handles[run]
    BY <1>r, <2>1, <2>2 DEF DispatchInv, Held, WorkerStates
  <2>4. \A r \in Requests : disp'[r] # "running" /\ (disp'[r] = "checked" => disp[r] = "checked")
    BY <2>1, <2>3, Aborts
  <2>5. \A r \in Requests : HomeOver(r)'
    BY <2>1 DEF HomeOver
  <2>6. QED
    BY <2>4, <2>5 DEF OwnedInv
<1>11. QED
  BY <1>1, <1>2, <1>3, <1>4, <1>5, <1>6, <1>7, <1>8, <1>9, <1>10 DEF Supervisor

\* A step of an intake worker keeps every task owned.
LEMMA IntakeOwned ==
    ASSUME TypeOK, Fence, ConnectionInv, DispatchInv, OwnedInv,
           NEW c \in Runs, NEW s \in Slots, Intake(c, s)
    PROVE  OwnedInv'
<1>r. \A r \in Requests : r \notin WorkerStates
  BY RuntimeAssumption DEF RuntimeAssumption
<1>w. \A d \in Runs, q \in Slots : d # c \/ q # s => intake'[d][q] = intake[d][q]
  BY WorkerSteps
<1>h. \A r \in Requests : disp[r] # "none" => home[r] \in Runs
  BY HomeBegun
<1>1. CASE \/ IntakeStart(c, s) \/ IntakePark(c, s) \/ IntakeAgain(c, s)
           \/ IntakeTakenOver(c, s) \/ IntakeForceDown(c, s)
  <2>1. /\ intake[c][s] \in WorkerStates
        /\ UNCHANGED <<run, pc, disp, home, handles, lingering, batch, cbatch>>
    BY <1>1, Unconcerned
  <2>2. \A r \in Requests : disp[r] # "none" /\ Listed(r) => Listed(r)'
    BY <1>r, <1>w, <1>h, <2>1 DEF Listed
  <2>3. \A r \in Requests : HomeOver(r) => HomeOver(r)'
    BY <2>1 DEF HomeOver
  <2>4. QED
    BY <2>1, <2>2, <2>3 DEF OwnedInv
<1>2. ASSUME NEW r \in Requests, IntakeDeliver(c, s, r)
      PROVE  OwnedInv'
  <2>1. /\ disp[r] = "none" /\ disp'[r] = "running" /\ home'[r] = c
        /\ \A q \in Requests : q # r => disp'[q] = disp[q] /\ home'[q] = home[q]
        /\ intake'[c][s] = r /\ intake[c][s] = "parked"
        /\ UNCHANGED <<run, pc, handles, lingering, batch, cbatch>>
    BY <1>2, Delivered
  <2>2. Listed(r)'
    BY <2>1 DEF Listed
  <2>3. ASSUME NEW q \in Requests, q # r, disp[q] # "none"
        PROVE  Listed(q) => Listed(q)'
    BY <1>r, <1>w, <1>h, <2>1, <2>3 DEF Listed, WorkerStates
  <2>4. \A q \in Requests : q # r /\ HomeOver(q) => HomeOver(q)'
    BY <2>1 DEF HomeOver
  <2>5. QED
    BY <2>1, <2>2, <2>3, <2>4 DEF OwnedInv
<1>3. ASSUME NEW r \in Requests, IntakePush(c, s, r)
      PROVE  OwnedInv'
  <2>1. /\ intake[c][s] = r
        /\ handles'[c] = {q \in handles[c] : ~Finished(q)} \cup {r}
        /\ \A d \in Runs : d # c => handles'[d] = handles[d]
        /\ UNCHANGED <<run, pc, disp, home, lingering, batch, cbatch>>
    BY <1>3, Pushed
  <2>2. home[r] = c
    BY <2>1 DEF DispatchInv
  <2>3. ASSUME NEW q \in Requests, disp[q] \in {"running", "checked"}, Listed(q)
        PROVE  Listed(q)'
    <3>1. ~Finished(q) /\ home[q] \in Runs
      BY <1>h, <2>3 DEF Finished
    <3>2. CASE q = r
      BY <2>1, <2>2, <3>2 DEF Listed
    <3>3. CASE q # r
      BY <1>w, <2>1, <2>3, <3>1, <3>3 DEF Listed
    <3>4. QED
      BY <3>2, <3>3
  <2>4. \A q \in Requests : HomeOver(q) => HomeOver(q)'
    BY <2>1 DEF HomeOver
  <2>5. QED
    BY <2>1, <2>3, <2>4 DEF OwnedInv
<1>4. QED
  BY <1>1, <1>2, <1>3 DEF Intake

\* A caller of aclose holds tasks only while it waits for them.
ClosingInv == \A k \in Closers : cbatch[k] # {} => closer[k] = "join"

\* A step of a caller keeps that.
LEMMA CloserBatch ==
    ASSUME TypeOK, ClosingInv, NEW k \in Closers, CloseStore(k) \/ CloserWork(k)
    PROVE  ClosingInv'
<1>1. /\ closer \in [Closers -> {"idle", "bump", "signal", "say", "clear", "take", "join", "done"}]
      /\ cbatch \in [Closers -> SUBSET Requests]
  BY DEF TypeOK, CloseTypes
<1>2. \A j \in Closers : j # k => closer'[j] = closer[j] /\ cbatch'[j] = cbatch[j]
  BY <1>1 DEF CloseStore, CloserWork, CloseBump, CloseSignal, CloseSay, CloseClear, CloseTake,
     CloseJoin, CloserTo
<1>3. cbatch'[k] # {} => closer'[k] = "join"
  BY <1>1 DEF ClosingInv, CloseStore, CloserWork, CloseBump, CloseSignal, CloseSay, CloseClear,
     CloseTake, CloseJoin, CloserAt, CloserTo
<1>4. QED
  BY <1>2, <1>3 DEF ClosingInv

\* Every caller of aclose puts back what it took and could not end.
LEMMA CloserOwned ==
    ASSUME TypeOK, ClosingInv, OwnedInv, NEW k \in Closers, CloseStore(k) \/ CloserWork(k)
    PROVE  OwnedInv'
<1>1. UNCHANGED <<run, pc, home, handles, intake, batch>>
  BY DEF CloseStore, CloserWork, CloseBump, CloseSignal, CloseSay, CloseClear, CloseTake,
     CloseJoin, CloserStep
<1>2. CASE CloseStore(k) \/ CloseBump(k) \/ CloseSignal(k) \/ CloseSay(k) \/ CloseClear(k)
  <2>1. UNCHANGED ownedVars
    BY <1>1, <1>2 DEF CloseStore, CloseBump, CloseSignal, CloseSay, CloseClear, ownedVars
  <2>2. QED
    BY <1>1, <2>1, MoveOwned DEF HomeOver, ownedVars
<1>3. CASE CloseTake(k)
  <2>1. /\ disp' = AbortAll(lingering) /\ cbatch'[k] = lingering
        /\ \A j \in Closers : j # k => cbatch'[j] = cbatch[j]
    BY <1>3 DEF CloseTake, TypeOK, CloseTypes
  <2>2. cbatch[k] = {}
    BY <1>3 DEF CloseTake, CloserAt, ClosingInv
  <2>3. QED
    BY <1>1, <2>1, <2>2, Aborts DEF OwnedInv, Listed, HomeOver
<1>4. CASE CloseJoin(k)
  <2>1. /\ lingering' = lingering \cup {r \in cbatch[k] : ~Finished(r)}
        /\ \A j \in Closers : j # k => cbatch'[j] = cbatch[j]
        /\ disp' = disp
    BY <1>4 DEF CloseJoin, TypeOK, CloseTypes
  <2>2. \A r \in Requests : disp[r] \in {"running", "checked"} /\ Listed(r) => Listed(r)'
    BY <1>1, <2>1 DEF Listed, Finished
  <2>3. \A r \in Requests : HomeOver(r) => HomeOver(r)'
    BY <1>1 DEF HomeOver
  <2>4. QED
    BY <2>1, <2>2, <2>3 DEF OwnedInv
<1>5. QED
  BY <1>2, <1>3, <1>4 DEF CloserWork

\* Every task is owned in every state.
LEMMA OwnedInvariant == Spec => [](TypeOK /\ DispatchInv /\ OwnedInv)
<1> DEFINE Inv == TypeOK /\ Fence /\ ConnectionInv /\ DispatchInv
<1>1. Init => ClosingInv /\ OwnedInv
  BY DEF Init, ClosingInv, OwnedInv
<1>2. Inv /\ ClosingInv /\ OwnedInv /\ [Next]_vars => ClosingInv' /\ OwnedInv'
  <2> SUFFICES ASSUME Inv, ClosingInv, OwnedInv, [Next]_vars
               PROVE ClosingInv' /\ OwnedInv'
    OBVIOUS
  <2>1. CASE Supervisor
    <3>1. UNCHANGED closeVars
      BY <2>1 DEF Supervisor, ServeStart, SayConnecting, LoopTop, Decide, SleepBegin, SleepEnd,
       SayClosed, SaySuperseded, DialBegin, DialStopped, DialOk, DialFail, DialFailed,
       SayDialFailed, HelloBegin, HelloStopped, HelloClosed, HelloReply, HelloFailed,
       HelloRetry, SayHelloRetry, HelloAbort, HelloVerdict, HelloQuitJoined, TakeGeneration,
       SpawnPool, Publish, Announce, ServeBegin, ServeWake, LoadTakeover, LoadStopping,
       RetireGeneration, DownRetry, SayDownRetry, Unpublish, DrainHandles, AbortTasks,
       JoinTasks, LeaveRun, Quiet, Say, Reconnecting
    <3>2. ClosingInv'
      BY <3>1 DEF ClosingInv
    <3>3. QED
      BY <2>1, <3>2, SupervisorOwned
  <2>2. CASE \E c \in Runs, s \in Slots : Intake(c, s)
    <3>1. UNCHANGED closeVars
      BY <2>2 DEF Intake, IntakeStart, IntakePark, IntakeAgain, Worker, IntakeTakenOver,
         IntakeForceDown, IntakeDeliver, IntakePush, TaskStep
    <3>2. ClosingInv'
      BY <3>1 DEF ClosingInv
    <3>3. QED
      BY <2>2, <3>2, IntakeOwned
  <2>3. CASE \E r \in Requests : Dispatch(r)
    <3>1. PICK r \in Requests : Dispatch(r)
      BY <2>3
    <3>2. /\ UNCHANGED <<run, pc, home, handles, intake, batch, lingering, closer, cbatch>>
          /\ disp[r] \in {"running", "checked"} /\ disp'[r] # "running"
          /\ disp'[r] = "checked" => disp[r] = "running"
          /\ \A q \in Requests : q # r => disp'[q] = disp[q]
      BY <3>1 DEF Dispatch, PostCheck, PostSend, TaskStep, TypeOK, TaskTypes
    <3>3. QED
      BY <3>2 DEF ClosingInv, OwnedInv, Listed, HomeOver
  <2>4. CASE \E k \in Closers : CloseStore(k) \/ CloserWork(k)
    BY <2>4, CloserBatch, CloserOwned
  <2>5. CASE \/ \E c \in Runs : Driver(c) \/ Ping(c) \/ Edge(c)
             \/ \E a \in Actors : RunCallback(a)
             \/ Terminated \/ UNCHANGED vars
    <3>1. UNCHANGED <<ownedVars, pc, closer>>
      BY <2>5 DEF Driver, DriverEnds, DriverRecords, DriverCloses, Ping, PingSends, PingAcked,
         PingFails, Edge, EdgeDisplaces, PathGoesSilent, TaskStep, RunCallback, Terminated, vars,
         ownedVars
    <3>2. QED
      BY <3>1, MoveOwned DEF HomeOver, ownedVars, ClosingInv
  <2>6. QED
    BY <2>1, <2>2, <2>3, <2>4, <2>5 DEF Next
<1>3. QED
  BY <1>1, <1>2, DispatchInvariant, PTL DEF Spec

\* Until run_once returns, every unfinished dispatch task is in a list whose owner
\* aborts it and waits for it; afterwards only one past its generation test is not.
THEOREM DispatchesOwned == Spec => []DispatchOwned
<1>1. OwnedInv => DispatchOwned
  BY DEF OwnedInv, DispatchOwned, Listed, HomeOver
<1>2. QED
  BY <1>1, OwnedInvariant, PTL


(*************************************************************************)
(* What is reported: the status the supervisor ends with, that it        *)
(* implements the life cycle of TunnelLifecycle, and the delays.         *)
(*************************************************************************)

\* Labels at which the current run has not been announced.
Unannounced == Dialling \cup {"spawn", "starting", "announce"}
-----------------------------------------------------------------------------
(* The results of the runs.                                                *)

\* The latest run that was counted as a connection exists, if any was, and how
\* the supervisor goes on agrees with how the last run ended.
ResultInv ==
    /\ outcome = "ok" \/ stopping => stopped
    /\ pc \in {"start", "sayConnecting", "loop", "sleep", "sleeping", "closing"} =>
           outcome # "superseded"
    /\ pc = "saySuperseded" => outcome = "superseded"
    /\ pc = "closing" => stopped \/ run > 0
    /\ \A c \in Runs : served[c] => c <= run
    /\ pc \in Unannounced => ~served[run]
    /\ (\E c \in Runs : served[c]) =>
           \E c \in Runs : served[c] /\ \A d \in Runs : served[d] => d <= c

\* What it looks at besides the supervisor's label.
resultVars == <<outcome, stopping, stopped, run, served>>

\* A step that moves the supervisor within a run keeps it.
LEMMA MoveResult ==
    ASSUME ResultInv, UNCHANGED resultVars,
           pc' \in {"start", "sayConnecting", "loop", "sleep", "sleeping", "closing"} =>
               outcome # "superseded",
           pc' = "saySuperseded" => outcome = "superseded",
           pc' = "closing" => stopped \/ run > 0,
           pc' \in Unannounced => pc \in Unannounced
    PROVE  ResultInv'
BY DEF ResultInv, resultVars

\* A step of the supervisor keeps it.
LEMMA SupervisorResult == TypeOK /\ TakeoverInv /\ ResultInv /\ Supervisor => ResultInv'
<1> SUFFICES ASSUME TypeOK, TakeoverInv, ResultInv, Supervisor PROVE ResultInv'
  OBVIOUS
<1> USE DEF Unannounced
<1>1. CASE ServeStart \/ SayConnecting \/ SleepBegin \/ SleepEnd \/ SayClosed \/ SaySuperseded
  <2>1. /\ UNCHANGED resultVars
        /\ pc \in {"start", "sayConnecting", "sleep", "sleeping", "closing", "saySuperseded"}
        /\ pc' \in {"closing", "sayConnecting", "loop", "sleeping", "returned"}
        /\ pc \in {"closing", "saySuperseded"} => pc' = "returned"
        /\ pc' = "closing" => stopped \/ stopSig
    BY <1>1 DEF ServeStart, SayConnecting, SleepBegin, SleepEnd, SayClosed, SaySuperseded, Say,
       At, Quiet, resultVars
  <2>2. QED
    BY <2>1, MoveResult DEF ResultInv, TakeoverInv, Dialling
<1>2. CASE Decide
  <2>1. /\ UNCHANGED resultVars /\ pc = "decide" /\ run \in Runs
        /\ \/ outcome = "auth" /\ pc' = "closing"
           \/ outcome = "superseded" /\ pc' = "saySuperseded"
           \/ outcome \in {"ok", "transient"} /\ pc' \in {"closing", "sleep"}
    BY <1>2, RunNumbers DEF Decide, At, Quiet, resultVars
  <2>2. run > 0
    BY <2>1 DEF Runs
  <2>3. QED
    BY <2>1, <2>2, MoveResult DEF Dialling
<1>3. CASE LoopTop
  <2>1. CASE stopped
    <3>1. UNCHANGED resultVars /\ pc = "loop" /\ pc' = "closing"
      BY <1>3, <2>1 DEF LoopTop, At, Quiet, resultVars
    <3>2. QED
      BY <2>1, <3>1, MoveResult DEF ResultInv, Dialling
  <2>2. CASE ~stopped
    <3>1. /\ run' = run + 1 /\ pc' = "dial" /\ outcome' = "none" /\ stopping' = FALSE
          /\ UNCHANGED <<stopped, served>> /\ run < MaxRuns
      BY <1>3, <2>2 DEF LoopTop, At, Quiet
    <3>2. run \in Nat /\ run' \in Runs /\ \A c \in Runs : c \in Nat
      BY <3>1, RunNumbers DEF Runs
    <3>3. QED
      BY <3>1, <3>2 DEF ResultInv, Dialling
  <2>3. QED
    BY <2>1, <2>2
<1>4. CASE DialBegin \/ DialStopped \/ DialOk \/ DialFail \/ DialFailed \/ SayDialFailed
           \/ HelloBegin \/ HelloStopped \/ HelloClosed \/ HelloFailed \/ HelloRetry
           \/ SayHelloRetry
           \/ \E o \in {"accepted", "auth", "superseded", "transient"} : HelloReply(o)
  <2>1. /\ UNCHANGED <<stopping, stopped, run, served>>
        /\ pc \in Dialling /\ pc' \in Dialling \cup {"decide"}
        /\ outcome' = "ok" => stopSig \/ outcome = "ok"
    BY <1>4 DEF DialBegin, DialStopped, DialOk, DialFail, DialFailed, SayDialFailed, HelloBegin,
       HelloStopped, HelloClosed, HelloFailed, HelloRetry, SayHelloRetry, HelloReply, Say,
       Reconnecting, Leave, At, Quiet, Dialling
  <2>2. QED
    BY <2>1 DEF ResultInv, TakeoverInv, Dialling
<1>5. CASE HelloAbort \/ HelloVerdict \/ HelloQuitJoined \/ TakeGeneration
  <2>1. /\ UNCHANGED <<stopping, stopped, run, served>>
        /\ pc \in Dialling /\ pc' \in Dialling \cup {"decide", "spawn"}
        /\ outcome' = "ok" => stopped \/ outcome = "ok"
    BY <1>5 DEF HelloAbort, HelloVerdict, HelloQuitJoined, TakeGeneration, Leave, At, Dialling
  <2>2. QED
    BY <2>1 DEF ResultInv, Dialling
<1>6. CASE SpawnPool \/ Publish
  <2>1. /\ UNCHANGED resultVars /\ pc \in {"spawn", "starting"} /\ pc' \in {"starting", "announce"}
    BY <1>6 DEF SpawnPool, Publish, At, resultVars
  <2>2. QED
    BY <2>1, MoveResult
<1>7. CASE Announce
  <2>1. /\ pc = "announce" /\ pc' = "subscribe" /\ served' = [served EXCEPT ![run] = TRUE]
        /\ UNCHANGED <<outcome, stopping, stopped, run>>
    BY <1>7 DEF Announce, At
  <2>2. /\ run \in Runs /\ run \in Nat /\ served'[run]
        /\ \A c \in Runs : c # run => served'[c] = served[c]
    BY <2>1, RunNumbers DEF TypeOK, PoolTypes, Serving
  <2>3. \A c \in Runs : served'[c] => c <= run
    BY <2>2 DEF ResultInv
  <2>4. QED
    BY <2>1, <2>2, <2>3 DEF ResultInv, Dialling
<1>8. CASE ServeBegin \/ ServeWake \/ LoadTakeover \/ RetireGeneration
           \/ DownRetry \/ SayDownRetry \/ Unpublish \/ DrainHandles \/ AbortTasks \/ JoinTasks
  <2>1. /\ UNCHANGED resultVars /\ pc' \in Counted
    BY <1>8 DEF ServeBegin, ServeWake, LoadTakeover, RetireGeneration, DownRetry,
       SayDownRetry, Unpublish, DrainHandles, AbortTasks, JoinTasks, Say, Reconnecting, Quiet,
       Counted, Retiring, resultVars
  <2>2. QED
    BY <2>1, MoveResult DEF Counted, Retiring, Dialling
<1>9. CASE LoadStopping
  <2>1. /\ pc' = "retire" /\ stopping' = stopped /\ UNCHANGED <<outcome, stopped, run, served>>
    BY <1>9 DEF LoadStopping, Quiet
  <2>2. QED
    BY <2>1 DEF ResultInv, Dialling
<1>10. CASE LeaveRun
  <2>1. /\ pc' = "decide" /\ (outcome' = "ok" => stopping)
        /\ UNCHANGED <<stopping, stopped, run, served>>
    BY <1>10 DEF LeaveRun, Leave
  <2>2. QED
    BY <2>1 DEF ResultInv, Dialling
<1>11. QED
  BY <1>1, <1>2, <1>3, <1>4, <1>5, <1>6, <1>7, <1>8, <1>9, <1>10 DEF Supervisor

\* The results agree in every state.
LEMMA ResultInvariant == Spec => [](TypeOK /\ Fence /\ ConnectionInv /\ TakeoverInv /\ ResultInv)
<1>1. Init => ResultInv
  BY DEF Init, ResultInv, Unannounced, Dialling
<1>2. TypeOK /\ TakeoverInv /\ ResultInv /\ [Next]_vars => ResultInv'
  <2> SUFFICES ASSUME TypeOK, TakeoverInv, ResultInv, [Next]_vars PROVE ResultInv'
    OBVIOUS
  <2>1. CASE Supervisor
    BY <2>1, SupervisorResult
  <2>2. CASE ~Supervisor
    <3>1. UNCHANGED <<pc, outcome, stopping, run, served>> /\ (stopped => stopped')
      <4>1. CASE \/ \E c \in Runs : Driver(c) \/ Ping(c) \/ Edge(c)
                 \/ \E r \in Requests : Dispatch(r)
                 \/ \E k \in Closers : CloseStore(k) \/ CloserWork(k)
        BY <4>1 DEF Driver, DriverEnds, DriverRecords, DriverCloses, Ping, PingSends, PingAcked,
           PingFails, Edge, EdgeDisplaces, PathGoesSilent, Dispatch, PostCheck, PostSend,
           TaskStep, CloseStore, CloserWork, CloseBump, CloseSignal, CloseSay, CloseClear,
           CloseTake, CloseJoin, CloserStep
      <4>2. CASE \/ \E c \in Runs, s \in Slots : Intake(c, s)
                 \/ \E a \in Actors : RunCallback(a)
                 \/ Terminated \/ UNCHANGED vars
        BY <4>2 DEF Intake, IntakeStart, IntakePark, IntakeAgain, Worker, IntakeTakenOver,
           IntakeForceDown, IntakeDeliver, IntakePush, TaskStep, RunCallback, Terminated, vars
      <4>3. QED
        BY <2>2, <4>1, <4>2 DEF Next
    <3>2. QED
      BY <3>1 DEF ResultInv
  <2>3. QED
    BY <2>1, <2>2
<1>3. QED
  BY <1>1, <1>2, TakeoverInvariant, PTL DEF Spec
-----------------------------------------------------------------------------
(* The last status recorded.                                               *)

\* The connection of the last attempt is gone, and the supervisor means to redial.
Lost ==
    \/ pc \in {"loop", "sleep", "sleeping"} /\ run > 0
    \/ pc = "decide" /\ outcome = "transient"
    \/ pc \in {"helloJoin", "helloJoined"} /\ outcome = "transient" /\ ~supFlag[run]
    \/ pc \in {"unpublish", "drain", "abort", "join", "leave"} /\ ~takenOver /\ ~stopping

\* What the last status says of where the supervisor is.  Only a caller of aclose,
\* and so only after a stop, makes it say less.
LastInv ==
    /\ pc \in {"start", "sayConnecting"} => last \in {"none", "closed"}
    /\ pc \in Unannounced => last \notin {"connected", "none"}
    /\ last = "superseded" => pc = "returned"
    /\ ~stopped /\ Lost => last = "reconnecting"
    /\ ~stopped /\ pc = "loop" /\ run = 0 => last = "connecting"
    /\ pc = "returned" => last = IF outcome = "superseded" THEN "superseded" ELSE "closed"

\* What the supervisor says before it has returned is recorded.
LEMMA SaySays ==
    ASSUME LastInv, NEW from, from # "returned", NEW status, NEW to, Say(from, status, to)
    PROVE  /\ last' = status /\ pc = from /\ pc' = to
           /\ UNCHANGED <<stopped, run, outcome, takenOver, stopping, supFlag, served>>
BY DEF LastInv, Say, At, Notify, Suppressed

\* What it looks at besides the supervisor's label.
lastVars == <<last, stopped, run, outcome, takenOver, stopping, supFlag>>

\* A step that says nothing keeps it where the supervisor goes on from one loss,
\* one attempt or one result to where the same is due.
LEMMA MoveLast ==
    ASSUME LastInv, UNCHANGED <<last, stopped>>,
           pc' \notin {"start", "sayConnecting", "returned"}, pc # "returned",
           pc' \in Unannounced => pc \in Unannounced,
           Lost' => stopped \/ Lost,
           pc' # "loop"
    PROVE  LastInv'
BY DEF LastInv

\* A step of the supervisor keeps it.
LEMMA SupervisorLast ==
    TypeOK /\ TakeoverInv /\ ResultInv /\ LastInv /\ Supervisor => LastInv'
<1> SUFFICES ASSUME TypeOK, TakeoverInv, ResultInv, LastInv, Supervisor PROVE LastInv'
  OBVIOUS
<1> USE DEF Unannounced
<1>1. CASE ServeStart
  <2>1. /\ pc = "start" /\ pc' = (IF stopped THEN "closing" ELSE "sayConnecting")
        /\ UNCHANGED lastVars
    BY <1>1 DEF ServeStart, At, Quiet, lastVars
  <2>2. QED
    BY <2>1 DEF LastInv, Lost, lastVars, Dialling
<1>2. CASE SayConnecting
  <2>1. /\ last' = "connecting" /\ pc = "sayConnecting" /\ pc' = "loop" /\ run' = run /\ run = 0
    BY <1>2, SaySays DEF SayConnecting, TakeoverInv
  <2>2. QED
    BY <2>1 DEF LastInv, Lost, Dialling
<1>3. CASE Decide
  <2>1. /\ pc = "decide" /\ UNCHANGED lastVars /\ run \in Runs
        /\ pc' \in {"closing", "saySuperseded", "sleep"}
        /\ pc' = "sleep" => outcome \in {"ok", "transient"} /\ ~stopped
    BY <1>3, RunNumbers DEF Decide, At, Quiet, lastVars
  <2>2. Lost' => Lost
    BY <2>1 DEF Lost, ResultInv
  <2>3. QED
    BY <2>1, <2>2, MoveLast DEF lastVars, Dialling
<1>4. CASE SleepBegin \/ SleepEnd
  <2>1. /\ pc \in {"sleep", "sleeping"} /\ UNCHANGED lastVars /\ run \in Runs
        /\ pc' \in {"closing", "sleeping", "loop"}
    BY <1>4, RunNumbers DEF SleepBegin, SleepEnd, At, Quiet, lastVars
  <2>2. run > 0
    BY <2>1 DEF Runs
  <2>3. QED
    BY <2>1, <2>2 DEF LastInv, Lost, lastVars, Dialling
<1>5. CASE SayClosed
  <2>1. last' = "closed" /\ pc = "closing" /\ pc' = "returned" /\ outcome' = outcome
    BY <1>5, SaySays DEF SayClosed
  <2>2. QED
    BY <2>1 DEF LastInv, Lost, Dialling, ResultInv
<1>6. CASE SaySuperseded
  <2>1. last' = "superseded" /\ pc = "saySuperseded" /\ pc' = "returned" /\ outcome' = outcome
    BY <1>6, SaySays DEF SaySuperseded
  <2>2. QED
    BY <2>1 DEF LastInv, Lost, Dialling, ResultInv
<1>7. CASE LoopTop
  <2>1. /\ pc = "loop" /\ UNCHANGED <<last, stopped>>
        /\ (stopped /\ pc' = "closing") \/ (~stopped /\ pc' = "dial")
    BY <1>7 DEF LoopTop, At, Quiet
  <2>2. stopped \/ last \in {"connecting", "reconnecting"}
    BY <2>1, RunNumbers DEF LastInv, Lost
  <2>3. QED
    BY <2>1, <2>2 DEF LastInv, Lost, Dialling
<1>8. CASE DialBegin \/ DialStopped \/ DialOk \/ DialFail \/ DialFailed
  <2>1. /\ pc \in Undialled /\ UNCHANGED <<last, stopped>>
        /\ pc' \in {"dialing", "hello", "dialFailed", "sayDialFailed"}
           \/ (pc' = "decide" /\ (outcome' = "ok" \/ stopped))
    BY <1>8 DEF DialBegin, DialStopped, DialOk, DialFail, DialFailed, Reconnecting, Leave, At,
       Quiet, Undialled
  <2>2. QED
    BY <2>1, MoveLast DEF Lost, Dialling, Undialled
<1>9. CASE SayDialFailed \/ SayHelloRetry \/ SayDownRetry
  <2>1. /\ last' = "reconnecting"
        /\ pc' \in {"decide", "helloJoin", "unpublish"}
    BY <1>9, SaySays DEF SayDialFailed, SayHelloRetry, SayDownRetry
  <2>2. QED
    BY <2>1 DEF LastInv, Lost
<1>10. CASE HelloBegin \/ HelloStopped \/ HelloClosed \/ HelloFailed \/ HelloRetry
           \/ \E o \in {"accepted", "auth", "superseded", "transient"} : HelloReply(o)
  <2>1. /\ pc \in Dialling /\ UNCHANGED <<last, stopped>> /\ supFlag' = supFlag /\ run' = run
        /\ \/ pc' \in {"helloQuit", "helloing", "helloFailed", "park", "helloRetry", "sayHelloRetry"}
           \/ pc' = "helloJoin" /\ (stopped \/ supFlag[run] \/ outcome' # "transient")
    BY <1>10 DEF HelloBegin, HelloStopped, HelloClosed, HelloFailed, HelloRetry, HelloReply,
       Reconnecting, Leave, At, Quiet, Dialling
  <2>2. QED
    BY <2>1, MoveLast DEF Lost, Dialling
<1>11. CASE HelloAbort
  <2>1. /\ \/ pc = "helloJoin" /\ pc' = "helloJoined"
           \/ pc = "helloQuit" /\ pc' = "helloQuitJoined"
        /\ UNCHANGED lastVars
    BY <1>11 DEF HelloAbort, At, lastVars
  <2>2. QED
    BY <2>1, MoveLast DEF Lost, lastVars, Dialling
<1>12. CASE HelloVerdict
  <2>1. /\ pc = "helloJoined" /\ pc' = "decide" /\ UNCHANGED <<last, stopped>>
        /\ outcome' = "transient" => ~stopped /\ ~supFlag[run] /\ outcome = "transient"
    BY <1>12 DEF HelloVerdict, Leave, At
  <2>2. QED
    BY <2>1, MoveLast DEF Lost, Dialling
<1>13. CASE HelloQuitJoined
  <2>1. /\ pc = "helloQuitJoined" /\ pc' = "decide" /\ UNCHANGED <<last, stopped>> /\ stopped
    BY <1>13 DEF HelloQuitJoined, At, TakeoverInv
  <2>2. QED
    BY <2>1, MoveLast DEF Dialling
<1>14. CASE TakeGeneration \/ SpawnPool \/ Publish
  <2>1. /\ pc \in {"park", "spawn", "starting"} /\ pc' \in {"spawn", "starting", "announce"}
        /\ UNCHANGED <<last, stopped>>
    BY <1>14 DEF TakeGeneration, SpawnPool, Publish, At
  <2>2. QED
    BY <2>1, MoveLast DEF Lost, Dialling
<1>15. CASE Announce
  <2>1. last' \in {last, "connected"} /\ pc = "announce" /\ pc' = "subscribe"
    BY <1>15 DEF Announce, Notify, At
  <2>2. QED
    BY <2>1 DEF LastInv, Lost, Dialling
<1>16. CASE ServeBegin \/ ServeWake \/ LoadTakeover \/ LoadStopping
  <2>1. /\ pc \in Serving /\ pc' \in {"loadFlag", "serve", "loadStop", "retire"}
        /\ UNCHANGED <<last, stopped>>
    BY <1>16 DEF ServeBegin, ServeWake, LoadTakeover, LoadStopping, At, Quiet, Serving
  <2>2. QED
    BY <2>1, MoveLast DEF Lost, Dialling, Serving
<1>17. CASE RetireGeneration \/ DownRetry
  <2>1. /\ pc \in {"retire", "downRetry"} /\ UNCHANGED lastVars
        /\ \/ pc' \in {"downRetry", "sayDownRetry"}
           \/ pc' = "unpublish" /\ (takenOver \/ stopping \/ stopped)
    BY <1>17 DEF RetireGeneration, DownRetry, Reconnecting, At, Quiet, lastVars
  <2>2. QED
    BY <2>1, MoveLast DEF Lost, lastVars, Dialling
<1>18. CASE Unpublish \/ DrainHandles \/ AbortTasks \/ JoinTasks
  <2>1. /\ pc \in {"unpublish", "drain", "abort", "join"} /\ UNCHANGED lastVars
        /\ pc' \in {"drain", "abort", "join", "leave"}
    BY <1>18 DEF Unpublish, DrainHandles, AbortTasks, JoinTasks, At, lastVars
  <2>2. QED
    BY <2>1, MoveLast DEF Lost, lastVars, Dialling
<1>19. CASE LeaveRun
  <2>1. /\ pc = "leave" /\ pc' = "decide" /\ UNCHANGED <<last, stopped>>
        /\ outcome' = "transient" => ~takenOver /\ ~stopping
    BY <1>19 DEF LeaveRun, Leave, At
  <2>2. QED
    BY <2>1, MoveLast DEF Lost, Dialling
<1>20. QED
  BY <1>1, <1>2, <1>3, <1>4, <1>5, <1>6, <1>7, <1>8, <1>9, <1>10, <1>11, <1>12, <1>13, <1>14,
     <1>15, <1>16, <1>17, <1>18, <1>19 DEF Supervisor

\* Only a caller of aclose, once `stopped` is set, and the supervisor change the
\* last status.
LEMMA OthersSilent ==
    ASSUME TypeOK, Fence, [Next]_vars, ~Supervisor
    PROVE  /\ UNCHANGED <<pc, run, outcome, takenOver, stopping, served>>
           /\ stopped => stopped'
           /\ \A c \in Runs : supFlag[c] => supFlag'[c]
           /\ \/ last' = last
              \/ stopped /\ last' = "closed" /\ last # "superseded"
<1>1. CASE \/ \E c \in Runs : Driver(c) \/ Ping(c) \/ Edge(c)
           \/ \E r \in Requests : Dispatch(r)
  BY <1>1 DEF Driver, DriverEnds, DriverRecords, DriverCloses, Ping, PingSends, PingAcked,
     PingFails, Edge, EdgeDisplaces, PathGoesSilent, Dispatch, PostCheck, PostSend, TaskStep,
     TypeOK, ConnTypes
<1>2. CASE \/ \E c \in Runs, s \in Slots : Intake(c, s)
           \/ \E a \in Actors : RunCallback(a)
           \/ Terminated \/ UNCHANGED vars
  BY <1>2 DEF Intake, IntakeStart, IntakePark, IntakeAgain, Worker, IntakeTakenOver,
     IntakeForceDown, IntakeDeliver, IntakePush, TaskStep, RunCallback, Terminated, vars,
     TypeOK, ConnTypes
<1>3. CASE \E k \in Closers : CloseStore(k) \/ CloserWork(k)
  <2>1. PICK k \in Closers : CloseStore(k) \/ CloserWork(k)
    BY <1>3
  <2>2. /\ UNCHANGED <<pc, run, outcome, takenOver, stopping, served, supFlag>>
        /\ stopped => stopped'
    BY <2>1 DEF CloseStore, CloserWork, CloseBump, CloseSignal, CloseSay, CloseClear, CloseTake,
       CloseJoin, CloserStep
  <2>3. last' = last \/ (CloseSay(k) /\ last' = "closed" /\ last # "superseded")
    BY <2>1 DEF CloseStore, CloserWork, CloseBump, CloseSignal, CloseSay, CloseClear, CloseTake,
       CloseJoin, Notify, Suppressed
  <2>4. CloseSay(k) => stopped
    BY DEF CloseSay, CloserAt, Fence, StopInv
  <2>5. QED
    BY <2>2, <2>3, <2>4
<1>4. QED
  BY <1>1, <1>2, <1>3 DEF Next

\* The last status agrees with the supervisor in every state.
LEMMA LastInvariant == Spec => [](TypeOK /\ Fence /\ ConnectionInv /\ TakeoverInv /\ ResultInv /\ LastInv)
<1>1. Init => LastInv
  BY DEF Init, LastInv, Lost, Unannounced, Dialling
<1>2. TypeOK /\ Fence /\ TakeoverInv /\ ResultInv /\ LastInv /\ [Next]_vars => LastInv'
  <2> SUFFICES ASSUME TypeOK, Fence, TakeoverInv, ResultInv, LastInv, [Next]_vars PROVE LastInv'
    OBVIOUS
  <2>1. CASE Supervisor
    BY <2>1, SupervisorLast
  <2>2. CASE ~Supervisor
    <3>1. /\ UNCHANGED <<pc, run, outcome, takenOver, stopping>>
          /\ stopped => stopped'
          /\ \A c \in Runs : supFlag[c] => supFlag'[c]
          /\ last' = last \/ (stopped /\ last' = "closed" /\ last # "superseded")
      BY <2>2, OthersSilent
    <3>2. Lost' => Lost
      BY <3>1, RunNumbers DEF Lost, Dialling
    <3>3. QED
      BY <3>1, <3>2 DEF LastInv, Unannounced
  <2>3. QED
    BY <2>1, <2>2
<1>3. QED
  BY <1>1, <1>2, ResultInvariant, PTL DEF Spec

\* When serve_forever has returned, the last status is the terminal one of how it
\* ended, whenever and by whom aclose is called.
THEOREM EndsWithTerminalStatus == Spec => []TerminalStatus
<1>1. LastInv => TerminalStatus
  BY DEF LastInv, TerminalStatus
<1>2. QED
  BY <1>1, LastInvariant, PTL
-----------------------------------------------------------------------------
(* The life cycle.                                                         *)

\* The latest of the runs that f counts.
Latest(f) == IF \E c \in Runs : f[c]
             THEN CHOOSE c \in Runs : f[c] /\ \A d \in Runs : f[d] => d <= c
             ELSE 0

\* It is the one that the others do not exceed, if there is such a run.
LEMMA LatestRun ==
    ASSUME NEW f, NEW c \in Runs, f[c], \A d \in Runs : f[d] => d <= c
    PROVE  Latest(f) = c
<1>1. \A d \in Runs : d \in Int
  BY RuntimeAssumption DEF RuntimeAssumption, Runs
<1>2. \A d \in Runs : (f[d] /\ \A e \in Runs : f[e] => e <= d) => d = c
  BY <1>1
<1>3. QED
  BY <1>2 DEF Latest

\* Announced is the latest run counted as a connection, before a run has been.
LEMMA AnnouncedBefore ==
    ASSUME TypeOK, ResultInv, pc \in Unannounced
    PROVE  Announced < run
<1>1. run \in Nat /\ run \in Runs /\ \A c \in Runs : c \in Nat
  BY RunNumbers DEF Unannounced, Serving
<1>2. CASE \A c \in Runs : ~served[c]
  <2>1. Announced = 0
    BY <1>2 DEF Announced
  <2>2. QED
    BY <1>1, <2>1 DEF Runs
<1>3. CASE \E c \in Runs : served[c]
  <2>1. PICK c \in Runs : served[c] /\ \A d \in Runs : served[d] => d <= c
    BY <1>3 DEF ResultInv
  <2>2. Announced = c
    BY <2>1, LatestRun DEF Announced, Latest
  <2>3. c <= run /\ c # run
    BY <2>1 DEF ResultInv
  <2>4. QED
    BY <1>1, <2>2, <2>3
<1>4. QED
  BY <1>2, <1>3

\* It changes only when a run is counted.
LEMMA AnnouncedKept == served' = served => Announced' = Announced
<1>1. Announced = Latest(served) /\ Announced' = Latest(served')
  BY DEF Announced, Latest
<1>2. QED
  BY <1>1

\* An attempt that is announced had not been, and is not without the status.
LEMMA AnnounceConnects ==
    ASSUME TypeOK, ResultInv, LastInv, Announce
    PROVE  Lifecycle!Connected
<1>1. /\ pc = "announce" /\ pc' = "subscribe" /\ served' = [served EXCEPT ![run] = TRUE]
      /\ UNCHANGED <<run, stopped>>
  BY DEF Announce, At
<1>2. /\ run \in Runs /\ served'[run]
      /\ \A c \in Runs : c # run => served'[c] = served[c]
  BY <1>1, RunNumbers DEF TypeOK, PoolTypes, Serving
<1>3. \A c \in Runs : served'[c] => c <= run
  BY <1>2, RunNumbers DEF ResultInv
<1>4. Announced' = run
  <2>1. Announced' = Latest(served')
    BY DEF Announced, Latest
  <2>2. QED
    BY <1>2, <1>3, <2>1, LatestRun
<1>5. Announced < run
  BY <1>1, AnnouncedBefore DEF Unannounced
<1>6. last # "connected" /\ last' = "connected"
  BY <1>1 DEF LastInv, Unannounced, Announce, Notify, Suppressed
<1>7. QED
  BY <1>1, <1>4, <1>5, <1>6 DEF Lifecycle!Connected

\* What the life cycle shows besides the supervisor's return.
shownVars == <<last, run, served, stopped>>

\* Every step of the supervisor is a step of the life cycle or shows nothing.
LEMMA SupervisorLifecycle ==
    ASSUME TypeOK, TakeoverInv, ResultInv, LastInv, Supervisor
    PROVE  Lifecycle!Next \/ UNCHANGED Lifecycle!vars
<1>q. ASSUME UNCHANGED shownVars, pc # "returned", pc' # "returned"
      PROVE  UNCHANGED Lifecycle!vars
  BY <1>q, AnnouncedKept DEF shownVars, Lifecycle!vars
<1>n. run \in Nat
  BY RunNumbers
<1>1. CASE SayConnecting
  <2>1. /\ last' = "connecting" /\ pc = "sayConnecting" /\ pc' = "loop"
        /\ UNCHANGED <<run, stopped, served>>
    BY <1>1, SaySays DEF SayConnecting
  <2>2. last \in {"none", "closed"} /\ run = 0
    BY <2>1 DEF LastInv, TakeoverInv
  <2>3. Lifecycle!Connecting
    BY <2>1, <2>2, AnnouncedKept DEF Lifecycle!Connecting
  <2>4. QED
    BY <2>3 DEF Lifecycle!Next
<1>2. CASE LoopTop
  <2>1. CASE stopped
    BY <1>2, <2>1, <1>q DEF LoopTop, At, Quiet, shownVars
  <2>2. CASE ~stopped
    <3>1. /\ run' = run + 1 /\ pc = "loop" /\ pc' = "dial" /\ UNCHANGED <<last, stopped, served>>
      BY <1>2, <2>2 DEF LoopTop, At, Quiet
    <3>2. last = IF run = 0 THEN "connecting" ELSE "reconnecting"
      BY <1>n, <2>2, <3>1 DEF LastInv, Lost
    <3>3. Lifecycle!Attempt
      BY <2>2, <3>1, <3>2, AnnouncedKept DEF Lifecycle!Attempt
    <3>4. QED
      BY <3>3 DEF Lifecycle!Next
  <2>3. QED
    BY <2>1, <2>2
<1>3. CASE Announce
  BY <1>3, AnnounceConnects DEF Lifecycle!Next
<1>4. CASE SayDialFailed \/ SayHelloRetry \/ SayDownRetry
  <2>1. /\ last' = "reconnecting" /\ pc \in Dialling \cup Retiring /\ pc # "returned"
        /\ pc' # "returned" /\ UNCHANGED <<run, stopped, served>>
    BY <1>4, SaySays DEF SayDialFailed, SayHelloRetry, SayDownRetry, Dialling, Retiring
  <2>2. run > 0
    BY <2>1, RunNumbers DEF Runs
  <2>3. CASE last = "reconnecting"
    BY <2>1, <2>3, <1>q DEF shownVars
  <2>4. CASE last # "reconnecting"
    <3>1. Lifecycle!Reconnecting
      BY <2>1, <2>2, <2>4, AnnouncedKept DEF Lifecycle!Reconnecting
    <3>2. QED
      BY <3>1 DEF Lifecycle!Next
  <2>5. QED
    BY <2>3, <2>4
<1>5. CASE SayClosed
  <2>1. /\ last' = "closed" /\ pc = "closing" /\ pc' = "returned"
        /\ UNCHANGED <<run, stopped, served>>
    BY <1>5, SaySays DEF SayClosed
  <2>2. stopped \/ run > 0
    BY <2>1 DEF ResultInv
  <2>3. Lifecycle!End("closed")
    BY <2>1, <2>2, AnnouncedKept DEF Lifecycle!End
  <2>4. QED
    BY <2>3 DEF Lifecycle!Next
<1>6. CASE SaySuperseded
  <2>1. /\ last' = "superseded" /\ pc = "saySuperseded" /\ pc' = "returned"
        /\ UNCHANGED <<run, stopped, served>>
    BY <1>6, SaySays DEF SaySuperseded
  <2>2. run > 0
    BY <2>1, RunNumbers DEF Runs
  <2>3. Lifecycle!End("superseded")
    BY <2>1, <2>2, AnnouncedKept DEF Lifecycle!End
  <2>4. QED
    BY <2>2, <2>3 DEF Lifecycle!Next
<1>7. CASE ServeStart \/ Decide \/ SleepBegin \/ SleepEnd
  BY <1>7, <1>q DEF ServeStart, Decide, SleepBegin, SleepEnd, At, Quiet, shownVars
<1>8. CASE DialBegin \/ DialStopped \/ DialOk \/ DialFail \/ DialFailed \/ HelloBegin
           \/ HelloStopped \/ HelloClosed \/ HelloFailed \/ HelloRetry \/ HelloAbort
           \/ HelloVerdict \/ HelloQuitJoined
           \/ \E o \in {"accepted", "auth", "superseded", "transient"} : HelloReply(o)
  <2>1. UNCHANGED shownVars /\ pc \in Dialling /\ pc' # "returned"
    BY <1>8 DEF DialBegin, DialStopped, DialOk, DialFail, DialFailed, HelloBegin, HelloStopped,
       HelloClosed, HelloFailed, HelloRetry, HelloAbort, HelloVerdict, HelloQuitJoined,
       HelloReply, Reconnecting, Leave, At, Quiet, Dialling, shownVars
  <2>2. QED
    BY <2>1, <1>q DEF Dialling
<1>9. CASE TakeGeneration \/ SpawnPool \/ Publish \/ ServeBegin \/ ServeWake \/ LoadTakeover
           \/ LoadStopping \/ RetireGeneration \/ DownRetry \/ Unpublish \/ DrainHandles
           \/ AbortTasks \/ JoinTasks \/ LeaveRun
  <2>1. UNCHANGED shownVars /\ pc # "returned" /\ pc' # "returned"
    BY <1>9 DEF TakeGeneration, SpawnPool, Publish, ServeBegin, ServeWake, LoadTakeover,
       LoadStopping, RetireGeneration, DownRetry, Unpublish, DrainHandles, AbortTasks,
       JoinTasks, LeaveRun, Leave, Reconnecting, At, Quiet, shownVars
  <2>2. QED
    BY <2>1, <1>q
<1>10. QED
  BY <1>1, <1>2, <1>3, <1>4, <1>5, <1>6, <1>7, <1>8, <1>9 DEF Supervisor

\* So is every step of a caller of aclose: it closes, or reports it.
LEMMA CloserLifecycle ==
    ASSUME TypeOK, Fence, LastInv, NEW k \in Closers, CloseStore(k) \/ CloserWork(k)
    PROVE  Lifecycle!Next \/ UNCHANGED Lifecycle!vars
<1>1. UNCHANGED <<pc, run, served>>
  BY DEF CloseStore, CloserWork, CloseBump, CloseSignal, CloseSay, CloseClear, CloseTake,
     CloseJoin, CloserStep
<1>2. CASE CloseStore(k)
  <2>1. stopped' = TRUE /\ last' = last
    BY <1>2 DEF CloseStore
  <2>2. CASE stopped
    BY <1>1, <2>1, <2>2, AnnouncedKept DEF TypeOK, SharedTypes, Lifecycle!vars
  <2>3. CASE ~stopped
    <3>1. Lifecycle!Close
      BY <1>1, <2>1, <2>3, AnnouncedKept DEF Lifecycle!Close
    <3>2. QED
      BY <3>1 DEF Lifecycle!Next
  <2>4. QED
    BY <2>2, <2>3
<1>3. CASE CloseSay(k)
  <2>1. stopped /\ stopped' = stopped
    BY <1>3 DEF CloseSay, CloserAt, Fence, StopInv
  <2>2. CASE last' = last
    BY <1>1, <2>1, <2>2, AnnouncedKept DEF Lifecycle!vars
  <2>3. CASE last' # last
    <3>1. last' = "closed" /\ pc # "returned"
      BY <1>3, <2>3 DEF CloseSay, Notify, Suppressed, LastInv
    <3>2. Lifecycle!CloseReported
      BY <1>1, <2>1, <3>1, AnnouncedKept DEF Lifecycle!CloseReported
    <3>3. QED
      BY <3>2 DEF Lifecycle!Next
  <2>4. QED
    BY <2>2, <2>3
<1>4. CASE CloseBump(k) \/ CloseSignal(k) \/ CloseClear(k) \/ CloseTake(k) \/ CloseJoin(k)
  <2>1. UNCHANGED <<stopped, last>>
    BY <1>4 DEF CloseBump, CloseSignal, CloseClear, CloseTake, CloseJoin
  <2>2. QED
    BY <1>1, <2>1, AnnouncedKept DEF Lifecycle!vars
<1>5. QED
  BY <1>2, <1>3, <1>4 DEF CloserWork

\* The runtime implements the life cycle that on_status observes.
THEOREM LifecycleImplemented == Spec => ImplementsLifecycle
<1> DEFINE Inv == TypeOK /\ Fence /\ TakeoverInv /\ ResultInv /\ LastInv
<1>1. Init => Lifecycle!Init
  BY DEF Init, Announced, Lifecycle!Init
<1>2. Inv /\ [Next]_vars => [Lifecycle!Next]_(Lifecycle!vars)
  <2> SUFFICES ASSUME Inv, [Next]_vars PROVE Lifecycle!Next \/ UNCHANGED Lifecycle!vars
    OBVIOUS
  <2>1. CASE Supervisor
    BY <2>1, SupervisorLifecycle
  <2>2. CASE \E k \in Closers : CloseStore(k) \/ CloserWork(k)
    BY <2>2, CloserLifecycle
  <2>3. CASE \/ \E c \in Runs : Driver(c) \/ Ping(c) \/ Edge(c)
             \/ \E c \in Runs, s \in Slots : Intake(c, s)
    <3>1. UNCHANGED <<last, run, served, stopped, pc>>
      BY <2>3 DEF Driver, DriverEnds, DriverRecords, DriverCloses, Ping, PingSends, PingAcked,
         PingFails, Edge, EdgeDisplaces, PathGoesSilent, Intake, IntakeStart, IntakePark,
         IntakeAgain, Worker, IntakeTakenOver, IntakeForceDown, IntakeDeliver, IntakePush,
         TaskStep
    <3>2. QED
      BY <3>1, AnnouncedKept DEF Lifecycle!vars
  <2>4. CASE \/ \E r \in Requests : Dispatch(r)
             \/ \E a \in Actors : RunCallback(a)
             \/ Terminated \/ UNCHANGED vars
    <3>1. UNCHANGED <<last, run, served, stopped, pc>>
      BY <2>4 DEF Dispatch, PostCheck, PostSend, TaskStep, RunCallback, Terminated, vars
    <3>2. QED
      BY <3>1, AnnouncedKept DEF Lifecycle!vars
  <2>5. QED
    BY <2>1, <2>2, <2>3, <2>4 DEF Next
<1>3. QED
  BY <1>1, <1>2, LastInvariant, PTL DEF Spec, ImplementsLifecycle, Lifecycle!Spec
-----------------------------------------------------------------------------
(* The delay between attempts.                                             *)

\* Attempts that failed since the one last counted as a connection, if the
\* current one fails, or since the first.
Failures == IF Announced = 0 THEN run - 1 ELSE run - Announced

\* One more failure doubles the delay, up to the cap.
LEMMA DelayDoubles ==
    ASSUME NEW n \in Nat
    PROVE  Delay(n + 1) = IF 2 * Delay(n) > BackoffCap THEN BackoffCap ELSE 2 * Delay(n)
<1>1. 2 ^ 0 = 1 /\ 2 ^ 1 = 2 /\ 2 ^ 2 = 4 /\ 2 ^ 3 = 8 /\ 2 ^ 4 = 16
  OBVIOUS
<1>2. CASE n = 0
  BY <1>1, <1>2 DEF Delay, BackoffCap
<1>3. CASE n = 1
  BY <1>1, <1>3 DEF Delay, BackoffCap
<1>4. CASE n = 2
  BY <1>1, <1>4 DEF Delay, BackoffCap
<1>5. CASE n = 3
  BY <1>1, <1>5 DEF Delay, BackoffCap
<1>6. CASE n = 4
  BY <1>1, <1>6 DEF Delay, BackoffCap
<1>7. CASE n > 4
  BY <1>7 DEF Delay, BackoffCap
<1>8. QED
  BY <1>2, <1>3, <1>4, <1>5, <1>6, <1>7

\* The first delay is the initial one.
LEMMA FirstDelay == Delay(0) = InitialBackoff
<1>1. 2 ^ 0 = 1
  OBVIOUS
<1>2. QED
  BY <1>1 DEF Delay, InitialBackoff

\* The run last announced is not ahead of the current one, and is the current one
\* if that was counted.
LEMMA AnnouncedBounds ==
    ASSUME TypeOK, ResultInv
    PROVE  /\ Announced \in Nat /\ Announced <= run
           /\ run \in Runs /\ served[run] => Announced = run
<1>1. run \in Nat /\ \A c \in Runs : c \in Nat
  BY RunNumbers
<1>2. CASE \A c \in Runs : ~served[c]
  BY <1>1, <1>2 DEF Announced
<1>3. CASE \E c \in Runs : served[c]
  <2>1. PICK c \in Runs : served[c] /\ \A d \in Runs : served[d] => d <= c
    BY <1>3 DEF ResultInv
  <2>2. Announced = c
    BY <2>1, LatestRun DEF Announced, Latest
  <2>3. c <= run /\ (run \in Runs /\ served[run] => run <= c)
    BY <2>1 DEF ResultInv
  <2>4. QED
    BY <1>1, <2>2, <2>3
<1>4. QED
  BY <1>2, <1>3

\* The delay that is due.
BackoffInv ==
    /\ pc \in {"start", "sayConnecting"} => backoff = InitialBackoff
    /\ pc = "loop" => backoff = IF run = 0 THEN InitialBackoff ELSE Delay(Failures + 1)
    /\ pc \in {"sleep", "sleeping"} => backoff = Delay(Failures)
    /\ pc \in Dialling \cup Serving \cup Retiring \cup {"decide"} /\ ~served[run] =>
           backoff = Delay(Failures)

\* A step that keeps the delay, the run and what was counted changes no failure.
LEMMA FailuresKept == UNCHANGED <<run, served>> => Failures' = Failures
BY AnnouncedKept DEF Failures

\* A step of the supervisor keeps the delay that is due.
LEMMA SupervisorBackoff ==
    TypeOK /\ TakeoverInv /\ ResultInv /\ BackoffInv /\ Supervisor => BackoffInv'
<1> SUFFICES ASSUME TypeOK, TakeoverInv, ResultInv, BackoffInv, Supervisor PROVE BackoffInv'
  OBVIOUS
<1> DEFINE InRun == Dialling \cup Serving \cup Retiring \cup {"decide"}
<1>n. run \in Nat /\ Announced \in Nat /\ Announced <= run
  BY RunNumbers, AnnouncedBounds
<1>q. ASSUME UNCHANGED <<backoff, run, served>>,
             (pc \in InRun /\ pc' \in InRun) \/ pc' \in {"closing", "saySuperseded", "returned"}
      PROVE  BackoffInv'
  BY <1>q, FailuresKept DEF BackoffInv, Dialling, Serving, Retiring
<1>1. CASE ServeStart \/ SayClosed \/ SaySuperseded
  <2>1. /\ UNCHANGED <<backoff, run, served>>
        /\ pc' \in {"closing", "returned"} \/ (pc = "start" /\ pc' = "sayConnecting")
    BY <1>1 DEF ServeStart, SayClosed, SaySuperseded, Say, At, Quiet
  <2>2. CASE pc = "start" /\ pc' = "sayConnecting"
    BY <2>1, <2>2 DEF BackoffInv, Dialling, Serving, Retiring
  <2>3. QED
    BY <1>q, <2>1, <2>2
<1>2. CASE SayConnecting
  <2>1. /\ UNCHANGED <<backoff, run, served>> /\ pc = "sayConnecting" /\ pc' = "loop" /\ run = 0
    BY <1>2 DEF SayConnecting, Say, At, TakeoverInv
  <2>2. QED
    BY <2>1 DEF BackoffInv, Dialling, Serving, Retiring
<1>3. CASE LoopTop
  <2>1. CASE stopped
    BY <1>3, <2>1, <1>q DEF LoopTop, Quiet
  <2>2. CASE ~stopped
    <3>1. pc = "loop" /\ pc' = "dial" /\ run' = run + 1 /\ UNCHANGED <<backoff, served>>
      BY <1>3, <2>2 DEF LoopTop, At, Quiet
    <3>2. Announced' = Announced
      BY <3>1, AnnouncedKept
    <3>3. Failures' = IF run = 0 THEN 0 ELSE Failures + 1
      BY <1>n, <3>1, <3>2 DEF Failures
    <3>4. backoff' = Delay(Failures')
      BY <3>1, <3>3, FirstDelay DEF BackoffInv
    <3>5. QED
      BY <3>1, <3>4 DEF BackoffInv
  <2>3. QED
    BY <2>1, <2>2
<1>4. CASE Decide
  <2>1. /\ pc = "decide" /\ UNCHANGED <<run, served>> /\ run \in Runs
        /\ \/ pc' \in {"closing", "saySuperseded"}
           \/ /\ pc' = "sleep" /\ ~stopped /\ outcome \in {"ok", "transient"}
              /\ backoff' = IF outcome = "ok" \/ served[run] THEN InitialBackoff ELSE backoff
    BY <1>4, RunNumbers DEF Decide, At, Quiet
  <2>2. CASE pc' \in {"closing", "saySuperseded"}
    BY <2>2 DEF BackoffInv, Dialling, Serving, Retiring
  <2>3. CASE pc' = "sleep"
    <3>1. outcome = "transient"
      BY <2>1, <2>3 DEF ResultInv
    <3>2. CASE served[run]
      <4>1. Failures = 0
        BY <1>n, <2>1, <3>2, AnnouncedBounds DEF Failures, Runs
      <4>2. backoff' = Delay(Failures)
        BY <2>1, <2>3, <3>2, <4>1, FirstDelay
      <4>3. QED
        BY <2>1, <2>3, <4>2, FailuresKept DEF BackoffInv, Dialling, Serving, Retiring
    <3>3. CASE ~served[run]
      <4>1. backoff' = Delay(Failures)
        BY <2>1, <2>3, <3>1, <3>3 DEF BackoffInv
      <4>2. QED
        BY <2>1, <2>3, <4>1, FailuresKept DEF BackoffInv, Dialling, Serving, Retiring
    <3>4. QED
      BY <3>2, <3>3
  <2>4. QED
    BY <2>1, <2>2, <2>3
<1>5. CASE SleepBegin
  <2>1. /\ pc = "sleep" /\ pc' \in {"closing", "sleeping"} /\ UNCHANGED <<backoff, run, served>>
    BY <1>5 DEF SleepBegin, At, Quiet
  <2>2. QED
    BY <2>1, FailuresKept DEF BackoffInv, Dialling, Serving, Retiring
<1>6. CASE SleepEnd
  <2>1. /\ pc = "sleeping" /\ UNCHANGED <<run, served>> /\ run > 0 /\ run \in Runs
        /\ \/ pc' = "closing"
           \/ /\ pc' = "loop"
              /\ backoff' = IF 2 * backoff > BackoffCap THEN BackoffCap ELSE 2 * backoff
    BY <1>6, RunNumbers DEF SleepEnd, At, Quiet, Runs
  <2>2. Failures \in Nat
    BY <1>n, <2>1 DEF Failures
  <2>3. backoff = Delay(Failures)
    BY <2>1 DEF BackoffInv
  <2>4. pc' = "loop" => backoff' = Delay(Failures + 1)
    BY <2>1, <2>2, <2>3, DelayDoubles
  <2>5. QED
    BY <2>1, <2>4, FailuresKept DEF BackoffInv, Dialling, Serving, Retiring
<1>7. CASE DialBegin \/ DialStopped \/ DialOk \/ DialFail \/ DialFailed \/ SayDialFailed
           \/ HelloBegin \/ HelloStopped \/ HelloClosed \/ HelloFailed \/ HelloRetry
           \/ SayHelloRetry \/ HelloAbort \/ HelloVerdict \/ HelloQuitJoined
           \/ \E o \in {"accepted", "auth", "superseded", "transient"} : HelloReply(o)
  <2>1. UNCHANGED <<backoff, run, served>> /\ pc \in Dialling /\ pc' \in Dialling \cup {"decide"}
    BY <1>7 DEF DialBegin, DialStopped, DialOk, DialFail, DialFailed, SayDialFailed, HelloBegin,
       HelloStopped, HelloClosed, HelloFailed, HelloRetry, SayHelloRetry, HelloReply, HelloAbort,
       HelloVerdict, HelloQuitJoined, Say, Reconnecting, Leave, At, Quiet, Dialling
  <2>2. QED
    BY <2>1, <1>q
<1>8. CASE TakeGeneration \/ SpawnPool \/ Publish \/ ServeBegin \/ ServeWake \/ LoadTakeover
           \/ LoadStopping \/ RetireGeneration \/ DownRetry \/ SayDownRetry \/ Unpublish
           \/ DrainHandles \/ AbortTasks \/ JoinTasks \/ LeaveRun
  <2>1. /\ UNCHANGED <<backoff, run, served>> /\ pc \in {"park"} \cup Serving \cup Retiring
        /\ pc' \in Serving \cup Retiring \cup {"decide"}
    BY <1>8 DEF TakeGeneration, SpawnPool, Publish, ServeBegin, ServeWake, LoadTakeover,
       LoadStopping, RetireGeneration, DownRetry, SayDownRetry, Unpublish, DrainHandles,
       AbortTasks, JoinTasks, LeaveRun, Say, Leave, Reconnecting, At, Quiet, Serving, Retiring
  <2>2. QED
    BY <2>1, <1>q DEF Dialling
<1>9. CASE Announce
  <2>1. /\ pc' = "subscribe" /\ run' = run /\ served' = [served EXCEPT ![run] = TRUE]
        /\ run \in Runs
    BY <1>9, RunNumbers DEF Announce, At, Serving
  <2>2. served'[run]
    BY <2>1 DEF TypeOK, PoolTypes
  <2>3. QED
    BY <2>1, <2>2 DEF BackoffInv
<1>10. QED
  BY <1>1, <1>2, <1>3, <1>4, <1>5, <1>6, <1>7, <1>8, <1>9 DEF Supervisor

\* The delay before a redial doubles with every failure since the last connection,
\* and starts afresh after one.
THEOREM BackoffCounts == Spec => []BackoffTracksFailures
<1>1. Init => BackoffInv
  BY DEF Init, BackoffInv, Dialling, Serving, Retiring
<1>2. TypeOK /\ Fence /\ TakeoverInv /\ ResultInv /\ BackoffInv /\ [Next]_vars => BackoffInv'
  <2> SUFFICES ASSUME TypeOK, Fence, TakeoverInv, ResultInv, BackoffInv, [Next]_vars
               PROVE  BackoffInv'
    OBVIOUS
  <2>1. CASE Supervisor
    BY <2>1, SupervisorBackoff
  <2>2. CASE ~Supervisor
    <3>1. UNCHANGED <<pc, run, served>>
      BY <2>2, OthersSilent
    <3>2. backoff' = backoff
      <4>1. CASE \/ \E c \in Runs : Driver(c) \/ Ping(c) \/ Edge(c)
                 \/ \E r \in Requests : Dispatch(r)
                 \/ \E k \in Closers : CloseStore(k) \/ CloserWork(k)
        BY <4>1 DEF Driver, DriverEnds, DriverRecords, DriverCloses, Ping, PingSends, PingAcked,
           PingFails, Edge, EdgeDisplaces, PathGoesSilent, Dispatch, PostCheck, PostSend,
           TaskStep, CloseStore, CloserWork, CloseBump, CloseSignal, CloseSay, CloseClear,
           CloseTake, CloseJoin, CloserStep
      <4>2. CASE \/ \E c \in Runs, s \in Slots : Intake(c, s)
                 \/ \E a \in Actors : RunCallback(a)
                 \/ Terminated \/ UNCHANGED vars
        BY <4>2 DEF Intake, IntakeStart, IntakePark, IntakeAgain, Worker, IntakeTakenOver,
           IntakeForceDown, IntakeDeliver, IntakePush, TaskStep, RunCallback, Terminated, vars
      <4>3. QED
        BY <2>2, <4>1, <4>2 DEF Next
    <3>3. QED
      BY <3>1, <3>2, FailuresKept DEF BackoffInv
  <2>3. QED
    BY <2>1, <2>2
<1>3. TypeOK /\ ResultInv /\ BackoffInv => BackoffTracksFailures
  BY DEF BackoffInv, BackoffTracksFailures, Failures
<1>4. QED
  BY <1>1, <1>2, <1>3, LastInvariant, PTL DEF Spec
=============================================================================
