\* Interrupts against two concurrent sessions.
CONSTANTS
    Threads = {t1, t2}
    Interrupters = {p1}
    Keys = {"", "k1"}
    DefaultKey = ""
    Inputs = {i1, i2, i3}
    MaxIterations = 1
    CompactAt = 99
    QueueCap = 1
    HasPrompt = TRUE
    EngineNotes = FALSE
    ApiOps = {"interrupt", "interrupt_session", "cancel", "batch"}
    RestoreKeys = {}
    HostWaits = TRUE
    NoInput = none
SYMMETRY TurnSymmetry
SPECIFICATION Spec
INVARIANTS TypeOK TurnExclusion InterruptHasCause OutcomeMatchesTurn
PROPERTIES StopWhenAsked
