SPECIFICATION Spec
CONSTANTS
    d1 = d1
    d2 = d2
    d3 = d3
    x = x
    y = y
    m = m
    n = n
    Daemon = {d1, d3}
    Artifact = {x, y}
    ArtifactOf <- TwoArtifacts
    First = d1
    Activation = {m}
    RetryCap = 0
    ConcurrencyCap = 2
    MaxGeneration = 2
    World <- PlainReadOnly
    Nobody = Nobody
    NoBarrier = NoBarrier
CHECK_DEADLOCK FALSE
INVARIANTS CancelledRunIsStill
