\* Safety of the keep-alive phase; the -O0 build, whose steps include those
\* of the -O2 build.
SPECIFICATION Spec
CONSTANTS
    IntervalSec = 3
    RetryLimit = 2
    Signals <- MCSignals
    ReloadsPointer = TRUE
INVARIANTS
    TypeOK
    NoDanglingObject
    ReturnNeverRacesExit
    ReloadOnlyFailsLate
    StopIsPrompt
    GivesUpOnStreak
    AbortOnlyAtSpawn
    IndInv
PROPERTIES
    ImplementsMonitor
