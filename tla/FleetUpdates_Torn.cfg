SPECIFICATION FSpec
CONSTANTS
    Sockets = {w1}
    Commands = {c1, c2}
    Pushes = {c1}
    Rollbacks = {c2}
    Reports = {r1}
    Uploads = {u1}
    FleetWide = {u2}
    Versions = {v1}
    Nil = Nil
    MaxRestarts = 1
INVARIANTS ColumnsAgree
CHECK_DEADLOCK FALSE
