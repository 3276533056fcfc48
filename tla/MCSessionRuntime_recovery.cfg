SPECIFICATION Spec
CONSTANTS
    s1 = s1
    s2 = s2
    r1 = r1
    r2 = r2
    Submission = {s1, s2}
    Admitted = {s2}
    Runtime = {r1, r2}
    NoRuntime = NoRuntime
    NoTurn = NoTurn
    MaxFailure = 0
    MaxAsk = 1
PROPERTIES RecoverySparesLiveTurns
CHECK_DEADLOCK FALSE
