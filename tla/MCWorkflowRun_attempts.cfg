SPECIFICATION Spec
CONSTANTS
    d1 = d1
    d2 = d2
    d3 = d3
    x = x
    y = y
    m = m
    n = n
    Daemon = {d1, d2, d3}
    Artifact = {x, y}
    ArtifactOf <- ThreeDaemons
    First = d1
    Activation = {m}
    RetryCap = 1
    ConcurrencyCap = 2
    MaxGeneration = 3
    World <- Worlds
    Nobody = Nobody
    NoBarrier = NoBarrier
INVARIANTS TypeOK LiveIsTracked AdmissionKeepsAttempt OneUnsettledAttempt NoSilentReplay BarredRunIsStopped
PROPERTIES SettlementIsFinal StaleOwnerWritesNothing
CHECK_DEADLOCK FALSE
