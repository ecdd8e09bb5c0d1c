SPECIFICATION FairSpec
CONSTANTS
    Sockets = {w1, w2, w3}
    Commands = {c1, c2}
    Nil = Nil
    MaxRestarts = 1
PROPERTIES IsMailbox DeadUnregistered
CHECK_DEADLOCK FALSE
