SPECIFICATION FairSpec
CONSTANTS
    s1 = s1
    s2 = s2
    r1 = r1
    r2 = r2
    Submission = {s1, s2}
    Admitted = {s2}
    Runtime = {r1, r2}
    NoRuntime = NoRuntime
    NoTurn = NoTurn
    MaxFailure = 1
    MaxAsk = 1
INVARIANTS TypeOK OneLiveRuntime ClosesOverNothing ExecutedTurnIsActivated SteeringIsSettled
PROPERTIES StartsInOrder WaitingInputIsTaken
CHECK_DEADLOCK FALSE
