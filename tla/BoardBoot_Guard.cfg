SPECIFICATION FairSpec
CONSTANTS
    Process = {p1, p2}
    NoProcess = NoProcess
    Gone = Gone
    MaxFailed = 2
    MaxPolls = 2
    MaxLaunches = 3
    MaxErrors = 1
INVARIANTS
    TypeOK
    OneInstance
    GuardCounts
PROPERTIES
    DetectionSound
    CrashLoopCaught
    RecoveryEnds
CHECK_DEADLOCK FALSE
