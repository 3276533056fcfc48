SPECIFICATION Spec
CONSTANTS
    a1 = a1
    a2 = a2
    b1 = b1
    c1 = c1
    d1 = d1
    d2 = d2
    d3 = d3
    e1 = e1
    Agent <- MCAgent
    Daemon = {d1, d2}
    DaemonOf <- MCDaemonOf
    Epoch = {e1}
    EpochOf <- MCEpochOf
    NoEpoch = NoEpoch
    Token = {t1, t2, t3, t4}
    NoToken = NoToken
    NoRecord = NoRecord
    MaxLeftover = 1
    ReuseStamps = FALSE
SYMMETRY TokenSymmetry
INVARIANTS
    TypeOK
    SingleOwnerDaemon
    MaintenanceExclusive
    RecordBacksGuard
    UnsettledOwnerBlocks
    LeaseInv
PROPERTIES
    PruneSparesLiveOwners
    HandoffHasNoGap
CHECK_DEADLOCK FALSE
