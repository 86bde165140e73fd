\* A scenario that restarts its simulator under the deadline; no Ctrl-C.
CONSTANTS
    r = r
    p1 = p1
    p2 = p2
    Cmd = {r}
    Runner = r
    NoCmd = NoCmd
    NoPid = NoPid
    NoFile = NoFile
    Torn = Torn
    Pid = {p1, p2}
    Nested = {"start", "stop", "kill"}
    MaxInterrupts = 0
SPECIFICATION Spec
INVARIANT ProcessesStopped
CHECK_DEADLOCK FALSE
