CONSTANTS
    Short = {"ab"}
    Long = {"a password of many words"}
    Garbage = {"not UTF-8"}
SPECIFICATION Spec
INVARIANTS
    SaveIsAllOrNothing
    ReadableOnlyIfLong
