SPECIFICATION Spec
CONSTANTS
    h1 = h1
    h2 = h2
    s0 = s0
    s1 = s1
    lead = lead
    scout = scout
    judge = judge
    big = big
    small = small
    own = own
    None = None
    Threads = {h1, h2}
    Sessions = {s0, s1}
    DefaultKey = s0
    Tiers = {lead, scout, judge}
    Backends = {big, small}
    BackendOf <- MCBackendOf
    KeepWarm = {judge}
    Fits = {lead, judge}
    Adapted = {scout}
    HostLoras <- MCHostLoras
    Fallback = lead
    MaxCalls = 5
INVARIANTS
    SerializedDecodeSafe
    OneActive
    AdapterLive
PROPERTIES
    SwapSparesDecode
    CallsReturn
CHECK_DEADLOCK FALSE
