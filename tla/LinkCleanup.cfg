\* Every combination of faults, and a bridge that takes its time.
SPECIFICATION Spec
INVARIANT CleanupShown
CHECK_DEADLOCK FALSE
