SPECIFICATION Spec
CONSTANTS
    Students = {}
    Sockets = {}
    Submits = {}
    Terminates = {t1}
    Creates = {c1}
    Preflights = {f1}
    Initiates = {i1}
    Nil = Nil
INVARIANT InitiateActivates
CHECK_DEADLOCK FALSE
