SPECIFICATION FairSpec
CONSTANTS
    l1 = l1
    l2 = l2
    l3 = l3
    e = e
    f = f
    Launcher = {l1, l2, l3}
    Preparing = {l3}
    Earlier = {e}
    Foreground = {f}
    Nobody = Nobody
INVARIANTS TypeOK OneLaunchedDaemon HandoffIsIntact
PROPERTIES ListenerIsKept WaiterIsServed
CHECK_DEADLOCK FALSE
