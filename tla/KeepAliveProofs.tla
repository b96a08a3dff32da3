-------------------------- MODULE KeepAliveProofs --------------------------
(***************************************************************************)
(* Proofs about the keep-alive phase, for every interval, every retry      *)
(* limit, every set of signals and both builds: IndInv is an invariant,    *)
(* the safety properties follow from it, and the phase implements the      *)
(* monitor.                                                                *)
(***************************************************************************)
EXTENDS KeepAliveRefinement, TLAPS

\* The initial state satisfies the inductive invariant: nothing exists yet.
LEMMA InitEstablishes == Init => IndInv
<1> SUFFICES ASSUME Init PROVE IndInv
  OBVIOUS
<1> USE DEF Init, Threads
<1>1. TypeOK
  <2>1. handler \in [Threads -> HandlerPcs] /\ blocked \in [Threads -> SUBSET Signals]
    BY DEF HandlerPcs
  <2>2. chunk \in 0..IntervalSec
    BY KeepAliveConstants
  <2>3. running \in BOOLEAN /\ gKeepAlive \in BOOLEAN
    BY Zenon
  <2> QED BY <2>1, <2>2, <2>3 DEF TypeOK, MainPcs, WorkerPcs
<1>2. LifeInv
  BY DEF LifeInv, BeforeThread, AfterJoin, Polling
<1>3. HandlerInv /\ AbortOnlyAtSpawn
  BY DEF HandlerInv, AbortOnlyAtSpawn
<1>4. StopInv /\ EndInv
  BY DEF StopInv, EndInv, Polling, AfterPolling, AfterLoop
<1>5. LoopInv /\ GivesUpOnStreak
  BY KeepAliveConstants DEF LoopInv, GivesUpOnStreak, LoopPcs
<1> QED BY <1>1, <1>2, <1>3, <1>4, <1>5 DEF IndInv

\* A step of startKeepAlive or of the destructor preserves it.
LEMMA MainPreserves == ASSUME IndInv, MainStep PROVE IndInv'
<1> USE KeepAliveConstants
    DEF IndInv, TypeOK, LifeInv, HandlerInv, StopInv, LoopInv, EndInv,
        GivesUpOnStreak, AbortOnlyAtSpawn, Threads, MainPcs, WorkerPcs,
        HandlerPcs, BeforeThread, Polling, AfterPolling, AfterJoin, AfterLoop,
        LoopPcs, StoppedByWorker, Nested, Justified, MainAt, objectVars,
        loopVars, signalVars, historyVars
<1>1. CASE Construct BY <1>1 DEF Construct
<1>2. CASE Publish BY <1>2 DEF Publish
<1>3. CASE StartSetRunning BY <1>3 DEF StartSetRunning
<1>4. CASE StartSpawn BY <1>4 DEF StartSpawn
<1>5. CASE StartThrows BY <1>5 DEF StartThrows
<1>6. CASE Poll BY <1>6 DEF Poll
<1>7. CASE PollSleep BY <1>7 DEF PollSleep
<1>8. CASE Clear BY <1>8 DEF Clear
<1>9. CASE DtorStop BY <1>9 DEF DtorStop
<1>10. CASE DtorJoin BY <1>10 DEF DtorJoin
<1>11. CASE Destroy BY <1>11 DEF Destroy
<1>12. CASE Return BY <1>12 DEF Return
<1>13. CASE ReturnExit BY <1>13 DEF ReturnExit
<1> QED BY <1>1, <1>2, <1>3, <1>4, <1>5, <1>6, <1>7, <1>8, <1>9, <1>10,
           <1>11, <1>12, <1>13 DEF MainStep

\* A step of KeepAlive::loop preserves it.
LEMMA WorkerPreserves ==
  ASSUME IndInv, WorkerOwnStep \/ GetReturns PROVE IndInv'
<1> USE KeepAliveConstants
    DEF IndInv, TypeOK, LifeInv, HandlerInv, StopInv, LoopInv, EndInv,
        GivesUpOnStreak, AbortOnlyAtSpawn, Threads, MainPcs, WorkerPcs,
        HandlerPcs, BeforeThread, Polling, AfterPolling, AfterJoin, AfterLoop,
        LoopPcs, StoppedByWorker, Nested, Justified, WorkerAt, NoteLate,
        loopVars, signalVars, historyVars
<1>1. CASE WhileTest BY <1>1 DEF WhileTest
<1>2. CASE GetBegin BY <1>2 DEF GetBegin
<1>3. CASE GetOk BY <1>3 DEF GetOk
<1>4. CASE GetThrows BY <1>4 DEF GetThrows
<1>5. CASE SleepTest BY <1>5 DEF SleepTest
<1>6. CASE Sleep BY <1>6 DEF Sleep
<1>7. CASE Leave BY <1>7 DEF Leave
<1>8. CASE ThreadEnd BY <1>8 DEF ThreadEnd
<1> QED BY <1>1, <1>2, <1>3, <1>4, <1>5, <1>6, <1>7, <1>8
        DEF WorkerOwnStep, GetReturns

\* The delivery of a signal preserves it.
LEMMA DeliverPreserves ==
  ASSUME IndInv, NEW t \in Threads, NEW sig \in Signals, Deliver(t, sig)
  PROVE  IndInv'
<1> USE DEF IndInv, Deliver, objectVars, loopVars, historyVars
<1>1. /\ handler' = [handler EXCEPT ![t] = "test"]
      /\ blocked' = [blocked EXCEPT ![t] = @ \cup {sig}]
      /\ blocked'[t] # {}
      /\ \A u \in Threads : blocked[u] \subseteq blocked'[u]
  BY DEF TypeOK
<1>2. TypeOK'
  BY <1>1 DEF TypeOK, HandlerPcs
<1>3. LifeInv'
  BY DEF LifeInv
<1>4. HandlerInv'
  BY <1>1 DEF HandlerInv, TypeOK, ThreadExists, Threads
<1>5. StoppedByWorker => StoppedByWorker'
  <2>1. CASE t = "worker" /\ handler["worker"] # "none"
    <3>1. blocked["worker"] # {} /\ sig \notin blocked["worker"]
      BY <2>1 DEF HandlerInv
    <3>2. Nested("worker")'
      BY <2>1, <3>1, <1>1 DEF Nested, TypeOK
    <3> QED BY <3>2 DEF StoppedByWorker
  <2>2. CASE ~(t = "worker" /\ handler["worker"] # "none")
    BY <2>2, <1>1 DEF StoppedByWorker, Nested, TypeOK, Threads
  <2> QED BY <2>1, <2>2
<1>6. StopInv'
  BY <1>1, <1>5 DEF StopInv, TypeOK, Threads
<1>7. LoopInv' /\ GivesUpOnStreak' /\ AbortOnlyAtSpawn'
  BY DEF LoopInv, GivesUpOnStreak, AbortOnlyAtSpawn
<1>8. EndInv'
  BY <1>1 DEF EndInv, Justified
<1> QED BY <1>2, <1>3, <1>4, <1>6, <1>7, <1>8

\* A step of a handler preserves it.
LEMMA HandlerPreserves ==
  ASSUME IndInv, NEW t \in Threads, HandlerStep(t) PROVE IndInv'
<1> USE KeepAliveConstants
    DEF IndInv, TypeOK, LifeInv, HandlerInv, StopInv, LoopInv, EndInv,
        GivesUpOnStreak, AbortOnlyAtSpawn, Threads, MainPcs, WorkerPcs,
        HandlerPcs, BeforeThread, Polling, AfterPolling, AfterJoin, AfterLoop,
        LoopPcs, StoppedByWorker, Nested, Justified, HandlerAt, objectVars,
        loopVars, historyVars
<1>2. CASE HandlerTest(t) BY <1>2 DEF HandlerTest
<1>3. CASE HandlerStop(t)
  <2>1. /\ handler[t] = "stop"
        /\ handler' = [handler EXCEPT ![t] = "exit"]
        /\ process = "up" /\ process' \in {"up", "crashed"}
        /\ running' = FALSE \/ running' = running
    BY <1>3 DEF HandlerStop
  <2>2. UNCHANGED <<thread, object, gKeepAlive, mainPc, workerPc, errorCount,
                    chunk, blocked, streak, lateWork>>
    BY <1>3 DEF HandlerStop
  <2>3. TypeOK' /\ LifeInv' /\ HandlerInv'
    BY <2>1, <2>2
  <2>4. blocked[t] # {}
    BY <2>1
  <2>5. StopInv'
    BY <2>1, <2>2
  <2>6. EndInv'
    BY <2>1, <2>2, <2>4
  <2>7. LoopInv' /\ GivesUpOnStreak' /\ AbortOnlyAtSpawn'
    BY <2>1, <2>2
  <2> QED BY <2>3, <2>5, <2>6, <2>7
<1>4. CASE HandlerExit(t) BY <1>4 DEF HandlerExit
<1>5. CASE HandlerExited(t) BY <1>5 DEF HandlerExited
<1> QED BY <1>2, <1>3, <1>4, <1>5 DEF HandlerStep

\* IndInv holds throughout.
THEOREM Invariance == Spec => []IndInv
<1>1. IndInv /\ [Next]_vars => IndInv'
  <2> SUFFICES ASSUME IndInv, [Next]_vars PROVE IndInv'
    OBVIOUS
  <2>1. CASE MainStep BY <2>1, MainPreserves
  <2>2. CASE WorkerOwnStep \/ GetReturns BY <2>2, WorkerPreserves
  <2>3. CASE \E t \in Threads : HandlerStep(t) BY <2>3, HandlerPreserves
  <2>4. CASE \E t \in Threads, sig \in Signals : Deliver(t, sig)
    BY <2>4, DeliverPreserves
  <2>5. CASE UNCHANGED vars
    BY <2>5 DEF vars, objectVars, loopVars, signalVars, historyVars, IndInv,
       TypeOK, LifeInv, HandlerInv, StopInv, LoopInv, EndInv, GivesUpOnStreak,
       AbortOnlyAtSpawn, StoppedByWorker, Nested, Justified
  <2> QED BY <2>1, <2>2, <2>3, <2>4, <2>5 DEF Next, Over
<1> QED BY <1>1, InitEstablishes, PTL DEF Spec

-----------------------------------------------------------------------------
(* What follows from it.                                                   *)

\* Every variable keeps its type.
THEOREM TypeCorrect == Spec => []TypeOK
<1>1. IndInv => TypeOK
  BY DEF IndInv
<1> QED BY <1>1, Invariance, PTL

\* The worker and the handlers only ever reach a live KeepAlive object.
THEOREM ObjectIsAlive == Spec => []NoDanglingObject
<1>1. IndInv => NoDanglingObject
  <2> SUFFICES ASSUME IndInv PROVE NoDanglingObject
    OBVIOUS
  <2> USE DEF IndInv, TypeOK, LifeInv, Threads
  <2>1. workerPc \in LoopPcs \cup {"leave"} => object = "alive"
    BY DEF LoopPcs, BeforeThread, AfterJoin
  <2>2. handler["worker"] = "stop" => object = "alive"
    BY DEF HandlerInv, BeforeThread, AfterJoin
  <2>3. handler["main"] = "stop" => object = "alive"
    BY DEF HandlerInv, Polling
  <2> QED BY <2>1, <2>2, <2>3 DEF NoDanglingObject
<1> QED BY <1>1, Invariance, PTL

\* Main returns from startKeepAlive only when the worker is in no handler.
THEOREM ReturnIsAlone == Spec => []ReturnNeverRacesExit
<1>1. IndInv => ReturnNeverRacesExit
  BY DEF IndInv, LifeInv, HandlerInv, ReturnNeverRacesExit, AfterJoin
<1> QED BY <1>1, Invariance, PTL

\* When the second load of g_keepAlive can find null.
THEOREM ReloadFailsLate == Spec => []ReloadOnlyFailsLate
<1>1. IndInv => ReloadOnlyFailsLate
  <2> SUFFICES ASSUME IndInv, NEW t \in Threads, handler[t] = "stop",
                      ~gKeepAlive
               PROVE  t = "worker" /\ (workerPc = "closing" \/ Nested(t))
    BY DEF ReloadOnlyFailsLate
  <2>1. t = "worker"
    BY DEF IndInv, HandlerInv, Threads
  <2>2. workerPc \notin {"absent", "ended"}
    BY <2>1 DEF IndInv, HandlerInv
  <2>3. mainPc \in AfterPolling
    BY <2>2 DEF IndInv, LifeInv, TypeOK, MainPcs, BeforeThread, Polling,
                AfterPolling
  <2>4. StoppedByWorker
    BY <2>3 DEF IndInv, StopInv
  <2> QED BY <2>1, <2>2, <2>4 DEF StoppedByWorker
<1> QED BY <1>1, Invariance, PTL

\* At most one request or one-second sleep after running_ became false.
THEOREM PromptStop == Spec => []StopIsPrompt
<1>1. IndInv => StopIsPrompt
  BY DEF IndInv, LoopInv, TypeOK, StopIsPrompt
<1> QED BY <1>1, Invariance, PTL

\* The loop breaks off by itself after RetryLimit failures in a row, never
\* earlier and never later.
THEOREM BreaksOnStreak == Spec => []GivesUpOnStreak
<1>1. IndInv => GivesUpOnStreak
  BY DEF IndInv
<1> QED BY <1>1, Invariance, PTL

\* The process never aborts by destroying a joinable thread.
THEOREM NoAbortInDestructor == Spec => []AbortOnlyAtSpawn
<1>1. IndInv => AbortOnlyAtSpawn
  BY DEF IndInv
<1> QED BY <1>1, Invariance, PTL

-----------------------------------------------------------------------------
(* The keep-alive phase implements the monitor.                            *)

\* Steps that neither move the phase nor the history leave the monitor alone.
LEMMA StutterSteps ==
  ASSUME UNCHANGED <<MonitorPhase, streak, blocked>>
  PROVE  UNCHANGED <<MonitorPhase, streak, \E t \in Threads : blocked[t] # {}>>
  OBVIOUS

\* What main does is nothing to the monitor, until the end.
LEMMA MainImplements ==
  ASSUME IndInv, MainStep PROVE [Monitor!MonitorNext]_(Monitor!monitorVars)
<1> USE KeepAliveConstants
    DEF MonitorPhase, MainAt, loopVars, signalVars, historyVars, objectVars,
        Monitor!monitorVars
<1>1. CASE \/ Construct \/ Publish \/ StartSetRunning \/ Poll \/ PollSleep
           \/ Clear \/ DtorStop \/ DtorJoin \/ Return
  <2>1. UNCHANGED <<MonitorPhase, streak, blocked>>
    BY <1>1 DEF Construct, Publish, StartSetRunning, Poll, PollSleep, Clear,
       DtorStop, DtorJoin, Return
  <2> QED BY <2>1, StutterSteps
<1>2. CASE StartSpawn
  <2>1. MonitorPhase = "idle" /\ MonitorPhase' = "watching"
    BY <1>2 DEF StartSpawn, IndInv, LifeInv, LoopInv, BeforeThread
  <2>2. UNCHANGED <<streak, blocked>>
    BY <1>2 DEF StartSpawn
  <2>3. Monitor!Begin
    BY <2>1, <2>2 DEF Monitor!Begin
  <2> QED BY <2>3 DEF Monitor!MonitorNext
<1>3. CASE StartThrows
  <2>1. MonitorPhase = "idle" /\ MonitorPhase' = "over"
    BY <1>3 DEF StartThrows, IndInv, LifeInv, BeforeThread
  <2>2. UNCHANGED <<streak, blocked>>
    BY <1>3 DEF StartThrows
  <2>3. Monitor!CannotBegin
    BY <2>1, <2>2 DEF Monitor!CannotBegin
  <2> QED BY <2>3 DEF Monitor!MonitorNext
<1>4. CASE Destroy
  <2>1. process' = process
    BY <1>4 DEF Destroy, IndInv, LifeInv, AfterJoin
  <2>2. UNCHANGED <<MonitorPhase, streak, blocked>>
    BY <1>4, <2>1 DEF Destroy
  <2> QED BY <2>2, StutterSteps
<1>5. CASE ReturnExit
  <2>1. Justified
    BY <1>5 DEF ReturnExit, IndInv, EndInv, AfterPolling
  <2>2. workerPc # "absent"
    BY <1>5 DEF ReturnExit, IndInv, LifeInv, AfterJoin
  <2>3. /\ MonitorPhase = IF streak >= RetryLimit THEN "gaveUp" ELSE "watching"
        /\ MonitorPhase' = "over"
        /\ UNCHANGED <<streak, blocked>>
    BY <1>5, <2>2 DEF ReturnExit
  <2>4. Monitor!End
    BY <2>1, <2>3 DEF Monitor!End, Justified
  <2> QED BY <2>4 DEF Monitor!MonitorNext
<1> QED BY <1>1, <1>2, <1>3, <1>4, <1>5 DEF MainStep

\* A request that returns is an answer or a failure of the target; nothing
\* else the worker does matters to the monitor.
LEMMA WorkerImplements ==
  ASSUME IndInv, WorkerOwnStep \/ GetReturns
  PROVE  [Monitor!MonitorNext]_(Monitor!monitorVars)
<1> USE KeepAliveConstants
    DEF MonitorPhase, WorkerAt, NoteLate, loopVars, signalVars, historyVars,
        objectVars, Monitor!monitorVars
<1>1. CASE WorkerOwnStep
  <2>1. UNCHANGED <<MonitorPhase, streak, blocked>>
    BY <1>1 DEF WorkerOwnStep, WhileTest, GetBegin, SleepTest, Sleep, Leave,
       ThreadEnd
  <2> QED BY <2>1, StutterSteps
<1>2. CASE GetOk
  <2>1. MonitorPhase = "watching"
    BY <1>2 DEF GetOk, IndInv, GivesUpOnStreak, LoopPcs, TypeOK
  <2>2. /\ MonitorPhase' = "watching"
        /\ streak' = 0
        /\ UNCHANGED blocked
    BY <1>2 DEF GetOk
  <2>3. Monitor!TargetAnswers
    BY <2>1, <2>2 DEF Monitor!TargetAnswers
  <2> QED BY <2>3 DEF Monitor!MonitorNext
<1>3. CASE GetThrows
  <2>1. MonitorPhase = "watching"
    BY <1>3 DEF GetThrows, IndInv, GivesUpOnStreak, LoopPcs, TypeOK
  <2>2. /\ streak' = streak + 1
        /\ MonitorPhase' = IF streak' >= RetryLimit THEN "gaveUp"
                                                   ELSE "watching"
        /\ UNCHANGED blocked
    BY <1>3 DEF GetThrows
  <2>3. Monitor!TargetFails
    BY <2>1, <2>2 DEF Monitor!TargetFails
  <2> QED BY <2>3 DEF Monitor!MonitorNext
<1> QED BY <1>1, <1>2, <1>3 DEF GetReturns

\* A delivery is an interrupt; the handler's last step, or its crash, is the
\* end of an interrupted watch.
LEMMA SignalImplements ==
  ASSUME IndInv, NEW t \in Threads,
         HandlerStep(t) \/ \E sig \in Signals : Deliver(t, sig)
  PROVE  [Monitor!MonitorNext]_(Monitor!monitorVars)
<1> USE DEF MonitorPhase, HandlerAt, loopVars, historyVars, objectVars,
            Monitor!monitorVars
<1>1. ASSUME NEW sig \in Signals, Deliver(t, sig)
      PROVE  Monitor!Interrupt
  <2>1. MonitorPhase # "over" /\ UNCHANGED <<MonitorPhase, streak>>
    BY <1>1 DEF Deliver
  <2>2. blocked'[t] # {}
    BY <1>1 DEF Deliver, IndInv, TypeOK
  <2> QED BY <2>1, <2>2 DEF Monitor!Interrupt
<1>2. CASE HandlerStep(t) /\ process' = "up"
  <2>1. UNCHANGED <<MonitorPhase, streak, blocked>>
    BY <1>2 DEF HandlerStep, HandlerTest, HandlerStop, HandlerExit,
       HandlerExited
  <2> QED BY <2>1, StutterSteps
<1>3. CASE HandlerStep(t) /\ process' # "up"
  <2>1. /\ process = "up"
        /\ handler[t] \in {"stop", "exiting"}
        /\ UNCHANGED <<streak, blocked>>
    BY <1>3 DEF HandlerStep, HandlerTest, HandlerStop, HandlerExit,
       HandlerExited
  <2>2. blocked[t] # {}
    BY <2>1 DEF IndInv, HandlerInv
  <2>3. MonitorPhase # "over" /\ MonitorPhase' = "over"
    BY <1>3, <2>1
  <2>4. Monitor!End
    BY <2>1, <2>2, <2>3 DEF Monitor!End
  <2> QED BY <2>4 DEF Monitor!MonitorNext
<1> QED BY <1>1, <1>2, <1>3 DEF Monitor!MonitorNext

\* Whatever the threads and the handlers do, an observer who sees only the
\* phase, the failures and whether a signal came sees the monitor.
THEOREM Refinement == Spec => ImplementsMonitor
<1>1. Init => Monitor!MonitorInit
  BY KeepAliveConstants DEF Init, Monitor!MonitorInit, MonitorPhase, Threads
<1>2. IndInv /\ [Next]_vars => [Monitor!MonitorNext]_(Monitor!monitorVars)
  <2> SUFFICES ASSUME IndInv, [Next]_vars
               PROVE  [Monitor!MonitorNext]_(Monitor!monitorVars)
    OBVIOUS
  <2>1. CASE MainStep BY <2>1, MainImplements
  <2>2. CASE WorkerOwnStep \/ GetReturns BY <2>2, WorkerImplements
  <2>3. CASE \E t \in Threads :
                HandlerStep(t) \/ \E sig \in Signals : Deliver(t, sig)
    BY <2>3, SignalImplements
  <2>4. CASE UNCHANGED vars
    <3>1. UNCHANGED <<MonitorPhase, streak, blocked>>
      BY <2>4 DEF vars, signalVars, historyVars, MonitorPhase
    <3> QED BY <3>1, StutterSteps DEF Monitor!monitorVars
  <2> QED BY <2>1, <2>2, <2>3, <2>4 DEF Next, Over
<1> QED BY <1>1, <1>2, Invariance, PTL
        DEF Spec, ImplementsMonitor, Monitor!MonitorSpec

=============================================================================
