\* Stored conversations and the message queue under two host threads.
CONSTANTS
    Threads = {t1, t2}
    Interrupters = {p1}
    Keys = {"", "k1"}
    DefaultKey = ""
    Inputs = {i1, i2, i3}
    MaxIterations = 2
    CompactAt = 4
    QueueCap = 2
    HasPrompt = TRUE
    EngineNotes = TRUE
    ApiOps = {"queue", "clear", "drop", "restore"}
    RestoreKeys = {"k1"}
    HostWaits = TRUE
    NoInput = none
SYMMETRY TurnSymmetry
SPECIFICATION Spec
INVARIANTS SessionIsolation SystemPromptFirst QueueConserved
PROPERTIES TurnKept HistorySpec
