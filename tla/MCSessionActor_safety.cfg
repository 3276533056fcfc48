CONSTANTS
    g1 = g1
    g2 = g2
    turn = turn
    queued = queued
    Daemon = {d1, d2}
    Client = {c1}
    Guard <- MCGuards
    Kind <- MCKinds
    KindOf <- SameKind
    QueuedCommand = queued
    Token = {t1}
    NoLease = NoLease
    Nobody = Nobody
    NoGuard = NoGuard
    MaxTail = 3
SPECIFICATION Spec
INVARIANTS
    TypeOK
    ActivityIsOwned
    DatabaseIsExclusive
    GuardCountsMatch
    CurrentIsCaughtUp
PROPERTIES
    ImplementsOwnership
SYMMETRY Exchange
