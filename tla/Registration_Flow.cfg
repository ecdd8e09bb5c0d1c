SPECIFICATION Spec
CONSTANTS
    Boards = {b1, b2}
    Ids = {s1, s2}
    Requests = {r1, r2}
    Keys = {k1}
    Nil = Nil
    MaxAttempts = 2
    Limit = 2
    Window = 2
    OtpTtl = 2
    LockTtl = 2
    TokenTtl = 2
    MaxTime = 4
    MaxRestarts = 1
INVARIANTS
    TypeOK
    ActiveWasVerified
    IdentitiesUnique
    WindowBound
    GuessesBounded
PROPERTIES
    IsEnrolment
SYMMETRY Symmetry
