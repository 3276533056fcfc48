CONSTANTS
    g1 = g1
    g2 = g2
    turn = turn
    queued = queued
    Daemon = {d1}
    Client = {c1, c2}
    Guard <- OneGuard
    Kind <- MCKinds
    KindOf <- OneKind
    QueuedCommand = queued
    Token = {t1}
    NoLease = NoLease
    Nobody = Nobody
    NoGuard = NoGuard
    MaxTail = 2
SPECIFICATION Spec
PROPERTIES
    DeleteRefusesConnectedClients
