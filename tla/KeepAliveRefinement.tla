------------------------ MODULE KeepAliveRefinement ------------------------
(***************************************************************************)
(* KeepAlive implements KeepAliveMonitor.  The number of failures is the   *)
(* history of what the requests did, not the program's errorCount, so that *)
(* a wrong counter shows; the watch counts as over when the process ends,  *)
(* not when running_ becomes false, so that a lost stop shows.             *)
(***************************************************************************)
EXTENDS KeepAlive

MonitorPhase ==
    IF process # "up" THEN "over"
    ELSE IF workerPc = "absent" THEN "idle"
    ELSE IF streak >= RetryLimit THEN "gaveUp"
    ELSE "watching"

Monitor == INSTANCE KeepAliveMonitor WITH
    phase <- MonitorPhase,
    failures <- streak,
    interrupted <- \E t \in Threads : blocked[t] # {}

\* Every step of the two threads and of the handlers is a step of the monitor
\* or leaves it alone: in particular the process ends only after a signal,
\* after RetryLimit failures in a row or when no thread could be created
\* (KeepAlive.cpp:30-51, main.cpp:23-29, 131-143).
ImplementsMonitor == Monitor!MonitorSpec

\* A watch that gave up, or that a signal interrupted, does end, although the
\* worker may be stuck in a request for ever when the signal comes
\* (main.cpp:28, 139-142).
ImplementsMonitorEnds == Monitor!MonitorEnds

=============================================================================
