CONSTANTS
    l1 = l1
    l2 = l2
    k1 = k1
    k2 = k2
    k3 = k3
    Listeners <- MCListeners
    ConnIds <- MCConnIds
    Capacity = 2
    MaxBacklog = 1
    MaxCloses = 2
SPECIFICATION Spec
INVARIANT TypeOK
INVARIANT SlotsAccounted
PROPERTY CloseStopsAcceptLoop
CHECK_DEADLOCK FALSE
