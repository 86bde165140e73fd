\* Two overlapping commands and three pids: a simulator with its Xvfb and a
\* competing start.
CONSTANTS
    c1 = c1
    c2 = c2
    p1 = p1
    p2 = p2
    p3 = p3
    Cmd = {c1, c2}
    Pid = {p1, p2, p3}
    NoCmd = NoCmd
    NoPid = NoPid
    NoFile = NoFile
    Torn = Torn
    Headless = {TRUE, FALSE}
SPECIFICATION Spec
SYMMETRY Symmetry
INVARIANTS TypeOK Tracked FailedStartLeavesNothing ResultMatchesDisk
PROPERTY GraceBeforeKill
