CONSTANTS
    g1 = g1
    g2 = g2
    turn = turn
    queued = queued
    Daemon = {d1}
    Client = {c1}
    Guard <- MCGuards
    Kind <- MCKinds
    KindOf <- TwoKinds
    QueuedCommand = queued
    Token = {t1, t2}
    NoLease = NoLease
    Nobody = Nobody
    NoGuard = NoGuard
    MaxTail = 3
SPECIFICATION FairSpec
INVARIANTS
    DatabaseIsExclusive
PROPERTIES
    LastHoldReleases
