SPECIFICATION RSpec
CONSTANTS
    Boards = {b1}
    Ids = {s1}
    Requests = {r1, r2}
    Keys = {k1}
    Nil = Nil
    MaxAttempts = 2
    Limit = 5
    Window = 2
    OtpTtl = 2
    LockTtl = 2
    TokenTtl = 2
    MaxTime = 2
    MaxRestarts = 0
INVARIANTS
    MustReregister
