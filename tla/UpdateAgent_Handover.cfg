SPECIFICATION FairSpec
CONSTANTS
    Agent = {a1, a2}
    NoAgent = NoAgent
    MaxAttempts = 2
    MaxPid = 4
    MaxStrays = 2
INVARIANTS
    TypeOK
    OneAgent
    RestartsVerified
PROPERTIES
    AgentEnds
    IsInstallation
CHECK_DEADLOCK FALSE
