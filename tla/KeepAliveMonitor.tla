-------------------------- MODULE KeepAliveMonitor --------------------------
(***************************************************************************)
(* What the keep-alive phase promises to the rest of the program, without  *)
(* threads, pointers or sleeps: it watches a target until RetryLimit       *)
(* requests in a row have failed or until somebody interrupts it, and only *)
(* then is it over.  KeepAliveRefinement shows that KeepAlive implements   *)
(* it.                                                                     *)
(***************************************************************************)
EXTENDS Naturals

CONSTANT RetryLimit   \* consecutive failures that end the watch

ASSUME MonitorConstants == RetryLimit \in Nat \ {0}

VARIABLES
    phase,        \* "idle", "watching", "gaveUp" or "over"
    failures,     \* requests that failed since one last succeeded
    interrupted   \* has a signal been delivered?

monitorVars == <<phase, failures, interrupted>>

MonitorTypeOK ==
    /\ phase \in {"idle", "watching", "gaveUp", "over"}
    /\ failures \in 0..RetryLimit
    /\ interrupted \in BOOLEAN

MonitorInit ==
    /\ phase = "idle"
    /\ failures = 0
    /\ interrupted = FALSE

Begin ==
    /\ phase = "idle"
    /\ phase' = "watching"
    /\ UNCHANGED <<failures, interrupted>>

\* The thread the watch needs cannot be created; the process dies.
CannotBegin ==
    /\ phase = "idle"
    /\ phase' = "over"
    /\ UNCHANGED <<failures, interrupted>>

TargetAnswers ==
    /\ phase = "watching"
    /\ failures' = 0
    /\ UNCHANGED <<phase, interrupted>>

TargetFails ==
    /\ phase = "watching"
    /\ failures' = failures + 1
    /\ phase' = IF failures' >= RetryLimit THEN "gaveUp" ELSE "watching"
    /\ UNCHANGED interrupted

Interrupt ==
    /\ phase # "over"
    /\ interrupted' = TRUE
    /\ UNCHANGED <<phase, failures>>

End ==
    /\ phase = "gaveUp" \/ (interrupted /\ phase # "over")
    /\ phase' = "over"
    /\ UNCHANGED <<failures, interrupted>>

MonitorNext ==
    Begin \/ CannotBegin \/ TargetAnswers \/ TargetFails \/ Interrupt \/ End

MonitorSpec == MonitorInit /\ [][MonitorNext]_monitorVars

\* A watch that gave up or was interrupted ends.
MonitorEnds == (phase = "gaveUp" \/ interrupted) ~> phase = "over"

=============================================================================
