SPECIFICATION Spec
CONSTANTS
    Sockets = {w1, w2}
    Commands = {c1, c2}
    Nil = Nil
    MaxRestarts = 1
INVARIANT QueuedIsDelivered
CHECK_DEADLOCK FALSE
