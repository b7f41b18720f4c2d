SPECIFICATION Spec
CONSTANTS
    Sessions <- MCSessions
    Words = {"x", "y"}
    Configs <- Safe
    ContextLength = 8
    NBatch = 3
    MaxCalls = 4
CHECK_DEADLOCK FALSE
INVARIANTS KvIsPrompt RecordTrue
