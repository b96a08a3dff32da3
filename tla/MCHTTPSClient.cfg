\* get over HTTP and HTTPS, again and again.
SPECIFICATION Spec
CONSTANTS
    RequestUnits = 3
    ResponseUnits = 2
INVARIANTS
    TypeOK
    NothingHeldWhenIdle
    OnlyTheHostReadsRequest
    RequestArrivesInOrder
    StrayCloseOnlyIfRefused
    IndInv
PROPERTIES
    NeverKilledAfterTls
    ImplementsExchange
\* A process that SIGPIPE killed is over.
CHECK_DEADLOCK FALSE
