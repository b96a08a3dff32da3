\* What printUsage says of -k.
SPECIFICATION Spec
CONSTANTS
    Users <- MCUsers
    Passwords <- MCPasswords
    UrlSafe <- MCUrlSafe
    JsonSafe <- MCJsonSafe
    Tokens <- MCTokens
    AcIds <- MCAcIds
    Address = "10.0.0.1"
    RetryLimit = 2
    CommandLines <- MCFewLines
    Configs <- MCNoConfig
INVARIANTS
    KeepOnlineAfterLogin
