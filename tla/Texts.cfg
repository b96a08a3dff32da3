\* Bytes: '%', '+', '0', 'B', 'c', 'z', line feed, null and the last byte
CONSTANTS
    CharIsSigned = TRUE
    Bytes = {0, 10, 37, 43, 48, 66, 99, 122, 255}
    Symbols = {"CR", "LF", "SP", "(", ")", ":", "/", "x"}
    MaxLen = 5
SPECIFICATION Spec
INVARIANTS
    Base64ComesBack
    ParameterComesBack
    BuildsAgreeOnWellFormed
    NameReachesServer
    BodyComesBack
    ArgumentIsTakenOut
\* A text of MaxLen does not grow.
CHECK_DEADLOCK FALSE
