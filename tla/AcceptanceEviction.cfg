\* The plan of Hardware.cfg; any companion may pair between two connections.
CONSTANTS
    l1 = l1
    l2 = l2
    f1 = f1
    hci0 = hci0
    hci1 = hci1
    NoAdapter = NoAdapter
    DefaultAdapter = hci0
    Linux = {l1, l2}
    Phones = {f1}
    Others = {o1}
    Adapter <- FamilyAdapters
    Sequence <- FamilySequence
    Consent = {l2}
    CapacityCheck = TRUE
    Capacity = 2
    MaxResets = 1
SPECIFICATION Spec
PROPERTY EvictionPermitted
CHECK_DEADLOCK FALSE
