SPECIFICATION FairSpec
CONSTANTS
    a1 = a1
    a2 = a2
    b1 = b1
    c1 = c1
    d1 = d1
    d2 = d2
    d3 = d3
    e1 = e1
    Agent <- TrioAgent
    Daemon = {d1, d2, d3}
    DaemonOf <- TrioDaemonOf
    Epoch = {e1}
    EpochOf <- TrioEpochOf
    NoEpoch = NoEpoch
    Token = {t1, t2}
    NoToken = NoToken
    NoRecord = NoRecord
    MaxLeftover = 1
    ReuseStamps = FALSE
PROPERTIES
    CallsReturn
    ImplementsOwnership
CHECK_DEADLOCK FALSE
