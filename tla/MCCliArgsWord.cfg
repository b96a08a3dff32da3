CONSTANTS
    Words <- MCWords
    MaxArgs = 2
SPECIFICATION Spec
INVARIANTS
    WordIsUsername
\* After the arguments the program goes on with the login or the usage.
CHECK_DEADLOCK FALSE
