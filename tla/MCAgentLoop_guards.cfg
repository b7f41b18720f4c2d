SPECIFICATION Spec
CONSTANTS
    lead = lead
    coder = coder
    critic = critic
    NoTier = NoTier
    Tiers = {lead, coder, critic}
    Roots = {lead, critic}
    Explicit = {lead}
    Relay = {coder}
    AutoChained = {critic}
    ChainTarget = coder
    Tools = {"complete", "delegate"}
    Turns = {0}
    MaxIterations = 2
    MaxCalls = 2
    MaxEmptyTurns = 1
    MaxFailed = 1
    HardBlock = 2
    MaxStages = 2
    Budgeted = TRUE
INVARIANTS ExplicitlyCompleted
PROPERTIES TerminalIsFinal EndsUnlessDelegating
