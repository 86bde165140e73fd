\* A plan with one adapter under two names and no phone.
CONSTANTS
    l1 = l1
    l2 = l2
    f1 = f1
    hci0 = hci0
    hci1 = hci1
    NoAdapter = NoAdapter
    DefaultAdapter = hci0
    Linux = {l1, l2}
    Phones = {}
    Others = {}
    Adapter <- AliasAdapters
    Sequence <- AliasSequence
    Consent = {}
    CapacityCheck = FALSE
    Capacity = 2
    MaxResets = 0
SPECIFICATION Spec
INVARIANT PassedOnTwoCentrals
CHECK_DEADLOCK FALSE
