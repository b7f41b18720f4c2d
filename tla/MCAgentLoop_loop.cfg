SPECIFICATION Spec
CONSTANTS
    lead = lead
    coder = coder
    critic = critic
    NoTier = NoTier
    Tiers = {lead, coder}
    Roots = {lead}
    Explicit = {lead}
    Relay = {}
    AutoChained = {}
    ChainTarget = coder
    Tools = {"delegate", "resume", "pipeline"}
    Turns = {0}
    MaxIterations = 1
    MaxCalls = 1
    MaxEmptyTurns = 1
    MaxFailed = 1
    HardBlock = 2
    MaxStages = 2
    Budgeted = FALSE
INVARIANTS TypeOK LateGenerations NoCycleButResumed
PROPERTIES InterruptEnds
