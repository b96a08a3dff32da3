----------------------------- MODULE KeepAlive -----------------------------
(***************************************************************************)
(* The keep-alive phase of thulogin: the class KeepAlive                   *)
(* (src/KeepAlive.cpp), the function startKeepAlive that owns the object   *)
(* on its stack, and signalHandler (both src/main.cpp).                    *)
(*                                                                         *)
(* Two threads share the object.  "main" runs startKeepAlive: it builds    *)
(* the object, publishes its address in g_keepAlive, starts the worker     *)
(* and polls isRunning() once a second.  "worker" runs KeepAlive::loop.    *)
(* SIGINT and SIGTERM interrupt either thread at any instruction; the      *)
(* handler never returns, it calls exit(0), and the other thread goes on   *)
(* while exit runs.                                                        *)
(*                                                                         *)
(* A step of a thread is one access to what the threads share (running_,   *)
(* g_keepAlive, the object's lifetime) or one blocking call.               *)
(***************************************************************************)
EXTENDS Naturals

CONSTANTS
    IntervalSec,      \* intervalSec_, the one-second sleeps between requests
    RetryLimit,       \* retryLimit_, consecutive failures before giving up
    Signals,          \* the signals that have signalHandler as their handler
    ReloadsPointer    \* does the build load g_keepAlive again for the call
                      \* after it tested it?  -O0 does, -O2 does not

ASSUME KeepAliveConstants ==
    /\ IntervalSec \in Nat
    /\ RetryLimit \in Nat \ {0}
    /\ ReloadsPointer \in BOOLEAN

Threads == {"main", "worker"}

VARIABLES
    running,      \* KeepAlive::running_
    thread,       \* KeepAlive::thread_, as joinable() and join() see it
    object,       \* lifetime of the KeepAlive object
    gKeepAlive,   \* is g_keepAlive non-null?
    mainPc,       \* where main is in startKeepAlive, ~KeepAlive and exit
    workerPc,     \* where the worker is in KeepAlive::loop
    errorCount,   \* local of loop
    chunk,        \* i, the local of loop's sleeping for-loop
    handler,      \* where each thread is in signalHandler
    blocked,      \* the signals a thread's handlers are running for
    process,      \* "up", "gone" (exited), "aborted" or "crashed"
    streak,       \* history: requests that failed since one last succeeded
    lateWork      \* history: requests and sleeps begun after a stop()

objectVars == <<running, thread, object, gKeepAlive>>
loopVars   == <<errorCount, chunk>>
signalVars == <<handler, blocked>>
historyVars == <<streak, lateWork>>

vars == <<objectVars, mainPc, workerPc, loopVars, signalVars, process,
          historyVars>>

MainPcs == {"construct", "publish", "start", "spawn", "poll", "pollSleep",
            "clear", "dtorStop", "dtorJoin", "destroy", "return", "exiting"}

WorkerPcs == {"absent", "while", "get", "inFlight", "sleepTest", "sleep",
              "leave", "closing", "ended"}

HandlerPcs == {"none", "test", "stop", "exit", "exiting"}

TypeOK ==
    /\ running \in BOOLEAN
    /\ thread \in {"none", "joinable", "joined"}
    /\ object \in {"unborn", "alive", "destroyed"}
    /\ gKeepAlive \in BOOLEAN
    /\ mainPc \in MainPcs
    /\ workerPc \in WorkerPcs
    /\ errorCount \in Nat
    /\ chunk \in 0..IntervalSec
    /\ handler \in [Threads -> HandlerPcs]
    /\ blocked \in [Threads -> SUBSET Signals]
    /\ process \in {"up", "gone", "aborted", "crashed"}
    /\ streak \in Nat
    /\ lateWork \in Nat

Init ==
    /\ running = FALSE
    /\ thread = "none"
    /\ object = "unborn"
    /\ gKeepAlive = FALSE
    /\ mainPc = "construct"
    /\ workerPc = "absent"
    /\ errorCount = 0
    /\ chunk = 0
    /\ handler = [t \in Threads |-> "none"]
    /\ blocked = [t \in Threads |-> {}]
    /\ process = "up"
    /\ streak = 0
    /\ lateWork = 0

-----------------------------------------------------------------------------
(* Main: startKeepAlive and, inlined at its closing brace, ~KeepAlive.     *)

\* Main executes its own code, not a handler, from one place to the next.
MainAt(from, to) ==
    /\ process = "up"
    /\ handler["main"] = "none"
    /\ mainPc = from
    /\ mainPc' = to
    /\ UNCHANGED <<loopVars, signalVars, historyVars>>

\* KeepAlive ka(target, DEFAULT_INTERVAL, DEFAULT_RETRY)
Construct ==
    /\ MainAt("construct", "publish")
    /\ object' = "alive"
    /\ running' = FALSE
    /\ UNCHANGED <<thread, gKeepAlive, workerPc, process>>

\* g_keepAlive = &ka
Publish ==
    /\ MainAt("publish", "start")
    /\ gKeepAlive' = TRUE
    /\ UNCHANGED <<running, thread, object, workerPc, process>>

\* start(), first statement: running_ = true
StartSetRunning ==
    /\ MainAt("start", "spawn")
    /\ running' = TRUE
    /\ UNCHANGED <<thread, object, gKeepAlive, workerPc, process>>

\* start(), second statement: the thread is created ...
StartSpawn ==
    /\ MainAt("spawn", "poll")
    /\ thread' = "joinable"
    /\ workerPc' = "while"
    /\ UNCHANGED <<running, object, gKeepAlive, process>>

\* ... or std::thread throws, nothing catches it, and std::terminate runs.
StartThrows ==
    /\ MainAt("spawn", "spawn")
    /\ process' = "aborted"
    /\ UNCHANGED <<objectVars, workerPc>>

\* while (ka.isRunning())
Poll ==
    /\ \/ running /\ MainAt("poll", "pollSleep")
       \/ ~running /\ MainAt("poll", "clear")
    /\ UNCHANGED <<objectVars, workerPc, process>>

PollSleep ==
    /\ MainAt("pollSleep", "poll")
    /\ UNCHANGED <<objectVars, workerPc, process>>

\* Mutant: the pointer is not cleared.
ClearForgotten ==
    /\ MainAt("clear", "dtorStop")
    /\ UNCHANGED <<running, thread, object, gKeepAlive, workerPc, process>>

\* g_keepAlive = nullptr
Clear ==
    /\ MainAt("clear", "dtorStop")
    /\ gKeepAlive' = FALSE
    /\ UNCHANGED <<running, thread, object, workerPc, process>>

\* ~KeepAlive: stop()
DtorStop ==
    /\ MainAt("dtorStop", "dtorJoin")
    /\ running' = FALSE
    /\ UNCHANGED <<thread, object, gKeepAlive, workerPc, process>>

\* Mutant: no join.
JoinForgotten ==
    /\ MainAt("dtorJoin", "destroy")
    /\ UNCHANGED <<running, thread, object, gKeepAlive, workerPc, process>>

\* Mutant: thread_.detach() instead of thread_.join().
DetachInsteadOfJoin ==
    /\ MainAt("dtorJoin", "destroy")
    /\ thread' = "joined"
    /\ UNCHANGED <<running, object, gKeepAlive, workerPc, process>>

\* ~KeepAlive: if (thread_.joinable()) thread_.join()
DtorJoin ==
    /\ MainAt("dtorJoin", "destroy")
    /\ \/ thread = "joinable" /\ workerPc = "ended" /\ thread' = "joined"
       \/ thread # "joinable" /\ UNCHANGED thread
    /\ UNCHANGED <<running, object, gKeepAlive, workerPc, process>>

\* The members die; ~thread of a thread that is still joinable terminates.
Destroy ==
    /\ MainAt("destroy", "return")
    /\ object' = "destroyed"
    /\ process' = IF thread = "joinable" THEN "aborted" ELSE process
    /\ UNCHANGED <<running, thread, gKeepAlive, workerPc>>

\* startKeepAlive, doAuth and main return: the process exits with status 0.
Return ==
    /\ MainAt("return", "exiting")
    /\ UNCHANGED <<objectVars, workerPc, process>>

ReturnExit ==
    /\ MainAt("exiting", "exiting")
    /\ process' = "gone"
    /\ UNCHANGED <<objectVars, workerPc>>

MainStep ==
    \/ Construct \/ Publish \/ StartSetRunning \/ StartSpawn \/ StartThrows
    \/ Poll \/ PollSleep \/ Clear \/ DtorStop \/ DtorJoin \/ Destroy
    \/ Return \/ ReturnExit

-----------------------------------------------------------------------------
(* Worker: KeepAlive::loop.                                                *)

WorkerAt(from, to) ==
    /\ process = "up"
    /\ handler["worker"] = "none"
    /\ workerPc = from
    /\ workerPc' = to
    /\ UNCHANGED <<thread, object, gKeepAlive, mainPc, signalVars, process>>

\* Work begun although running_ is already false, up to a first excess.
NoteLate == lateWork' = IF running THEN lateWork ELSE lateWork + 1

\* while (running_)
WhileTest ==
    /\ \/ running /\ WorkerAt("while", "get")
       \/ ~running /\ WorkerAt("while", "leave")
    /\ UNCHANGED <<running, loopVars, historyVars>>

\* client.get(target_) begins ...
GetBegin ==
    /\ WorkerAt("get", "inFlight")
    /\ NoteLate
    /\ UNCHANGED <<running, loopVars, streak>>

\* Mutant: a success does not reset the counter.
GetOkWithoutReset ==
    /\ WorkerAt("inFlight", "sleepTest")
    /\ chunk' = 0
    /\ streak' = 0
    /\ UNCHANGED <<running, errorCount, lateWork>>

\* ... and returns a response ...
GetOk ==
    /\ WorkerAt("inFlight", "sleepTest")
    /\ errorCount' = 0
    /\ chunk' = 0
    /\ streak' = 0
    /\ UNCHANGED <<running, lateWork>>

\* ... or throws; the catch block counts it and breaks at the limit.
GetThrows ==
    /\ \/ errorCount + 1 >= RetryLimit /\ WorkerAt("inFlight", "leave")
       \/ errorCount + 1 < RetryLimit /\ WorkerAt("inFlight", "sleepTest")
    /\ errorCount' = errorCount + 1
    /\ chunk' = 0
    /\ streak' = streak + 1
    /\ UNCHANGED <<running, lateWork>>

\* Mutant: the sleeping loop does not look at running_.
SleepToTheEnd ==
    /\ \/ chunk < IntervalSec /\ WorkerAt("sleepTest", "sleep")
       \/ chunk >= IntervalSec /\ WorkerAt("sleepTest", "while")
    /\ UNCHANGED <<running, loopVars, historyVars>>

\* Mutant: i <= intervalSec_.
SleepOnceMore ==
    /\ \/ chunk <= IntervalSec /\ running /\ WorkerAt("sleepTest", "sleep")
       \/ ~(chunk <= IntervalSec /\ running) /\ WorkerAt("sleepTest", "while")
    /\ UNCHANGED <<running, loopVars, historyVars>>

\* for (int i = 0; i < intervalSec_ && running_; i++)
SleepTest ==
    /\ \/ chunk < IntervalSec /\ running /\ WorkerAt("sleepTest", "sleep")
       \/ ~(chunk < IntervalSec /\ running) /\ WorkerAt("sleepTest", "while")
    /\ UNCHANGED <<running, loopVars, historyVars>>

\* sleep_for(1 s)
Sleep ==
    /\ WorkerAt("sleep", "sleepTest")
    /\ chunk' = chunk + 1
    /\ NoteLate
    /\ UNCHANGED <<running, errorCount, streak>>

\* Mutant: loop ends without running_ = false.
LeaveRunning ==
    /\ WorkerAt("leave", "closing")
    /\ UNCHANGED <<running, loopVars, historyVars>>

\* running_ = false, the last statement of loop ...
Leave ==
    /\ WorkerAt("leave", "closing")
    /\ running' = FALSE
    /\ UNCHANGED <<loopVars, historyVars>>

\* ... after which the thread still has to unwind and end.
ThreadEnd ==
    /\ WorkerAt("closing", "ended")
    /\ UNCHANGED <<running, loopVars, historyVars>>

\* The steps the scheduler alone decides, and those the network decides.
WorkerOwnStep ==
    WhileTest \/ GetBegin \/ SleepTest \/ Sleep \/ Leave \/ ThreadEnd

GetReturns == GetOk \/ GetThrows

-----------------------------------------------------------------------------
(* Signals.                                                                *)

ThreadExists(t) == t = "main" \/ workerPc \notin {"absent", "ended"}

\* The kernel runs signalHandler on a thread that does not block sig, and
\* blocks sig there until the handler returns, which it never does.  On a
\* thread already inside a handler the new one nests, and what it interrupted
\* does not matter any more.
Deliver(t, sig) ==
    /\ process = "up"
    /\ ThreadExists(t)
    /\ sig \notin blocked[t]
    /\ blocked' = [blocked EXCEPT ![t] = @ \cup {sig}]
    /\ handler' = [handler EXCEPT ![t] = "test"]
    /\ UNCHANGED <<objectVars, mainPc, workerPc, loopVars, process,
                   historyVars>>

HandlerAt(t, from, to) ==
    /\ process = "up"
    /\ handler[t] = from
    /\ handler' = [handler EXCEPT ![t] = to]
    /\ UNCHANGED <<thread, object, gKeepAlive, mainPc, workerPc, loopVars,
                   blocked, historyVars>>

\* Mutant: no test for null.
HandlerWithoutTest(t) ==
    /\ HandlerAt(t, "test", "stop")
    /\ UNCHANGED <<running, process>>

\* if (g_keepAlive)
HandlerTest(t) ==
    /\ \/ gKeepAlive /\ HandlerAt(t, "test", "stop")
       \/ ~gKeepAlive /\ HandlerAt(t, "test", "exit")
    /\ UNCHANGED <<running, process>>

\* g_keepAlive->stop().  A build that loads the pointer a second time calls
\* through null when the other thread cleared it in between.
HandlerStop(t) ==
    /\ HandlerAt(t, "stop", "exit")
    /\ \/ /\ gKeepAlive \/ ~ReloadsPointer
          /\ running' = FALSE
          /\ UNCHANGED process
       \/ /\ ~gKeepAlive /\ ReloadsPointer
          /\ process' = "crashed"
          /\ UNCHANGED running

\* Mutant: the handler only stops the object and returns.
HandlerReturns(t) ==
    /\ HandlerAt(t, "exit", "none")
    /\ UNCHANGED <<running, process>>

\* exit(0) begins: static destructors, flushing ...
HandlerExit(t) ==
    /\ HandlerAt(t, "exit", "exiting")
    /\ UNCHANGED <<running, process>>

\* ... and ends the process, whatever the other thread is doing.
HandlerExited(t) ==
    /\ HandlerAt(t, "exiting", "exiting")
    /\ process' = "gone"
    /\ UNCHANGED running

HandlerStep(t) ==
    HandlerTest(t) \/ HandlerStop(t) \/ HandlerExit(t) \/ HandlerExited(t)

-----------------------------------------------------------------------------
\* The process is over; an explicit step, so that TLC reports every other
\* state without a successor as a deadlock.
Over == process # "up" /\ UNCHANGED vars

Next ==
    \/ MainStep
    \/ WorkerOwnStep
    \/ GetReturns
    \/ \E t \in Threads : HandlerStep(t)
    \/ \E t \in Threads, sig \in Signals : Deliver(t, sig)
    \/ Over

Spec == Init /\ [][Next]_vars

\* The scheduler runs every thread that can run and one-second sleeps end.
\* Nothing makes a request return: HTTPSClient::get sets no timeout.  Nothing
\* obliges anybody to send a signal.
Fairness ==
    /\ WF_vars(MainStep)
    /\ WF_vars(WorkerOwnStep)
    /\ \A t \in Threads : WF_vars(HandlerStep(t))

FairSpec == Spec /\ Fairness

-----------------------------------------------------------------------------
(* Safety.                                                                 *)

LoopPcs == {"while", "get", "inFlight", "sleepTest", "sleep"}

\* The object lives on startKeepAlive's stack.  Whenever the worker may read
\* a member of it, and whenever a handler on either thread holds its address
\* and is about to call stop() through it, the object is alive: g_keepAlive
\* is cleared before the destructor, and the destructor joins before the
\* members die (main.cpp:136-143, KeepAlive.cpp:10-15).
NoDanglingObject ==
    /\ workerPc \in LoopPcs \cup {"leave"} => object = "alive"
    /\ \A t \in Threads : handler[t] = "stop" => object = "alive"

\* exit is never entered by main's return while the worker is inside exit
\* through a handler: the join in ~KeepAlive waits for a worker that is in a
\* handler, so of the two ways to end the process only signals can collide.
ReturnNeverRacesExit ==
    mainPc \in {"destroy", "return", "exiting"} => handler["worker"] = "none"

\* A second signal arrived while the thread was handling a first one.
Nested(t) == \E sig1, sig2 \in blocked[t] : sig1 # sig2

\* signalHandler tests g_keepAlive and then uses it, two loads in an -O0
\* build.  The second can find null only on the worker thread, and only when
\* the worker has already run the last statement of loop or is in a second,
\* nested handler; on the main thread it never can.
ReloadOnlyFailsLate ==
    \A t \in Threads :
        (handler[t] = "stop" /\ ~gKeepAlive)
            => /\ t = "worker"
               /\ workerPc = "closing" \/ Nested(t)

\* "Sleep in 1-second chunks so stop() can be responsive"
\* (KeepAlive.cpp:45): once running_ is false the worker begins or sits
\* through at most one more request or one-second sleep.
StopIsPrompt == lateWork <= 1

\* loop breaks off by itself exactly when RetryLimit requests in a row have
\* failed: never earlier, whatever successes lie between, and never later.
GivesUpOnStreak ==
    /\ workerPc \in LoopPcs => streak < RetryLimit
    /\ workerPc = "leave" /\ running => streak >= RetryLimit

\* std::terminate is reached only when the thread could not be created, never
\* by destroying a joinable std::thread.
AbortOnlyAtSpawn == process = "aborted" => mainPc = "spawn"

-----------------------------------------------------------------------------
(* Why the safety properties hold: an inductive invariant, in parts.       *)

BeforeThread == {"construct", "publish", "start", "spawn"}
Polling == {"poll", "pollSleep"}
AfterPolling == {"clear", "dtorStop", "dtorJoin", "destroy", "return",
                 "exiting"}
AfterJoin == {"destroy", "return", "exiting"}
AfterLoop == {"leave", "closing", "ended"}

\* Main's place alone decides what exists and what g_keepAlive holds.
LifeInv ==
    /\ object = "unborn" <=> mainPc = "construct"
    /\ object = "destroyed" <=> mainPc \in {"return", "exiting"}
    /\ thread = "none" <=> mainPc \in BeforeThread
    /\ thread = "joined" <=> mainPc \in AfterJoin
    /\ workerPc = "absent" <=> mainPc \in BeforeThread
    /\ mainPc \in AfterJoin => workerPc = "ended"
    /\ gKeepAlive <=> mainPc \in {"start", "spawn", "clear"} \cup Polling

\* A handler runs on a live thread, for a signal, and main, which alone
\* changes g_keepAlive, does not move while its own handler uses it.
HandlerInv ==
    /\ handler["worker"] # "none" => workerPc \notin {"absent", "ended"}
    /\ handler["main"] = "stop" => gKeepAlive
    /\ \A t \in Threads : handler[t] # "none" => blocked[t] # {}

\* The worker finished its loop, or is past a call of stop() in a handler, or
\* was interrupted twice.
StoppedByWorker ==
    \/ workerPc \in {"closing", "ended"}
    \/ handler["worker"] \in {"exit", "exiting"}
    \/ Nested("worker")

\* If main, not interrupted itself, finds running_ false or has found it
\* false, then because of something that happened on the worker thread.
StopInv ==
    /\ mainPc = "spawn" /\ handler["main"] = "none" => running
    /\ mainPc \in Polling /\ handler["main"] = "none" /\ ~running
           => StoppedByWorker
    /\ mainPc \in AfterPolling => StoppedByWorker

\* The local variables of loop and the history agree with its place.
LoopInv ==
    /\ errorCount = streak
    /\ workerPc = "absent" => streak = 0
    /\ workerPc = "sleep" => chunk < IntervalSec
    /\ lateWork # 0 => /\ lateWork = 1
                       /\ ~running
                       /\ workerPc \notin {"absent", "get", "sleep"}

\* Nothing stops the watch but a signal or a streak of failures.
Justified == streak >= RetryLimit \/ \E t \in Threads : blocked[t] # {}

EndInv ==
    /\ workerPc \in AfterLoop => Justified
    /\ mainPc \in {"spawn"} \cup Polling /\ ~running => Justified
    /\ mainPc \in AfterPolling => Justified

IndInv ==
    /\ TypeOK
    /\ LifeInv /\ HandlerInv /\ StopInv /\ LoopInv /\ EndInv
    /\ GivesUpOnStreak /\ AbortOnlyAtSpawn

-----------------------------------------------------------------------------
(* Liveness.                                                               *)

\* A signal that reaches any thread ends the process, even while the worker
\* is stuck in a request that never returns: the handler does not join.
SignalEndsProcess ==
    (\E t \in Threads : handler[t] # "none") ~> process # "up"

\* If requests keep returning and from some time on all of them fail, the
\* worker gives up and the process ends.
FailingTargetEndsProcess ==
    ([]<>(workerPc # "inFlight") /\ <>[][~GetOk]_vars) => <>(process # "up")

=============================================================================
