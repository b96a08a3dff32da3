\* Liveness of the keep-alive phase, and of the monitor, in the -O2 build.
SPECIFICATION FairSpec
CONSTANTS
    IntervalSec = 2
    RetryLimit = 2
    Signals <- MCSignals
    ReloadsPointer = FALSE
PROPERTIES
    SignalEndsProcess
    FailingTargetEndsProcess
    ImplementsMonitorEnds
