SPECIFICATION Spec
CONSTANTS
    Process = {p1}
    NoProcess = NoProcess
    Gone = Gone
    MaxFailed = 2
    MaxPolls = 2
    MaxLaunches = 3
    MaxErrors = 2
PROPERTIES
    ErrorLoopCaught
CHECK_DEADLOCK FALSE
