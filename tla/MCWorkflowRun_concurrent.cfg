SPECIFICATION Spec
CONSTANTS
    d1 = d1
    d2 = d2
    d3 = d3
    x = x
    y = y
    m = m
    n = n
    Daemon = {d1}
    Artifact = {x, y}
    ArtifactOf <- OneDaemon
    First = d1
    Activation = {m, n}
    RetryCap = 0
    ConcurrencyCap = 2
    MaxGeneration = 1
    World <- Plain
    Nobody = Nobody
    NoBarrier = NoBarrier
INVARIANTS RepairIsPinned TerminalRunIsSettled
SYMMETRY Activations
CHECK_DEADLOCK FALSE
