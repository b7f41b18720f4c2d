SPECIFICATION Spec
CONSTANTS
    Sessions <- MCSessions
    Words = {"x", "y"}
    Configs <- PooledCache
    ContextLength = 8
    NBatch = 3
    MaxCalls = 5
CHECK_DEADLOCK FALSE
INVARIANTS KvIsPrompt
