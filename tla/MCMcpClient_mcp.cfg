\* A run thread and a monitor that may try once to reconnect.
CONSTANTS
    Runs = {r1}
    Monitor = Monitor
    MaxRetries = 1
    MaxCalls = 2
    MaxFaults = 1
    None = None
SPECIFICATION Spec
CHECK_DEADLOCK FALSE
INVARIANTS AnswerIsOwn RemovedClean
PROPERTIES CallReturns ReconnectSettles RemovalReturns
