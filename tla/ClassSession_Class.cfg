SPECIFICATION Spec
CONSTANTS
    Students = {s1}
    Sockets = {w1, w2}
    Submits = {p1, p2}
    Terminates = {t1}
    Creates = {c1}
    Preflights = {f1}
    Initiates = {i1}
    Nil = Nil
INVARIANTS TypeOK LastSubmissionWins NoMissedSubmission
SYMMETRY Symmetry
CHECK_DEADLOCK FALSE
