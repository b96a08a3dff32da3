CONSTANTS
    Words <- MCWords
    MaxArgs = 4
SPECIFICATION Spec
INVARIANTS
    IndInv
    WalksAgree
    ReadsAsGrammar
\* After the arguments the program goes on with the login or the usage.
CHECK_DEADLOCK FALSE
