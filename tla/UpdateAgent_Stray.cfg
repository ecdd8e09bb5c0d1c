SPECIFICATION FairSpec
CONSTANTS
    Agent = {a1, a2}
    NoAgent = NoAgent
    MaxAttempts = 2
    MaxPid = 2
    MaxStrays = 1
INVARIANTS
    RestartsWhatItVerified
CHECK_DEADLOCK FALSE
