\* Two adapters, a phone of the plan and another one, two places on the watch;
\* l2 may evict, l1 may not.
CONSTANTS
    l1 = l1
    l2 = l2
    f1 = f1
    hci0 = hci0
    hci1 = hci1
    NoAdapter = NoAdapter
    DefaultAdapter = hci0
    Linux = {l1, l2}
    Phones = {f1}
    Others = {o1}
    Adapter <- FamilyAdapters
    Sequence <- FamilySequence
    Consent = {l2}
    CapacityCheck = TRUE
    Capacity = 2
    MaxResets = 1
    MaxWindows = 3
SPECIFICATION HardwareSpec
INVARIANTS HardwareTypeOK AcceptanceEvidence ObservationEvidence ResultEarned FailureRecorded
PROPERTIES EvictionNeedsRace PassedKeptBond
CHECK_DEADLOCK FALSE
