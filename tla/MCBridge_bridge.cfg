\* A client and two asynchronous asks in one lane.
CONSTANTS
    Conns = {c1}
    Tasks = {t1, t2}
    Sessions = {s1}
    Fds = {f1}
    MaxAsks = 1
    None = None
SPECIFICATION Spec
INVARIANTS LaneExclusion NoLostTicket StoppedQuiet
PROPERTIES TaskFinal StopReturns
