CONSTANTS
    CharIsSigned = TRUE
    Texts <- InfoTexts
    Keys <- InfoKeys
SPECIFICATION Spec
INVARIANTS
    PortalOpensInfo
\* The program goes on to the next step of the login.
CHECK_DEADLOCK FALSE
