\* Two sessions on one or two server sets, with nested delegations.
CONSTANTS
    Sessions = {s1, s2}
    Workspaces = {w0, w1}
    Default = w0
    MidTurnBind = FALSE
    MaxCalls = 2
    MaxDelegations = 2
    None = None
SPECIFICATION Spec
CHECK_DEADLOCK FALSE
INVARIANTS IsolatedDispatch RootsRestored ClearedHasReadNothing
PROPERTY TurnEnds
