\* Safety of the whole program against the portal.
SPECIFICATION Spec
CONSTANTS
    Users <- MCUsers
    Passwords <- MCPasswords
    UrlSafe <- MCUrlSafe
    JsonSafe <- MCJsonSafe
    Tokens <- MCTokens
    AcIds <- MCAcIds
    Address = "10.0.0.1"
    RetryLimit = 2
    CommandLines <- MCCommandLines
    Configs <- MCConfigs
INVARIANTS
    IndInv
    SuccessIsReal
    ExitStatusMeaning
    RequestUsesItsChallenge
    LogoutNamesSomebodyKnown
    EchoAsFound
    RefusalIsExplained
