\* Every scenario, the one that kills and restarts its simulator included, with
\* up to two Ctrl-C; two pids let a process of an earlier call linger.
CONSTANTS
    r = r
    p1 = p1
    p2 = p2
    Cmd = {r}
    Runner = r
    Pid = {p1, p2}
    NoCmd = NoCmd
    NoPid = NoPid
    NoFile = NoFile
    Torn = Torn
    Nested = {"start", "stop", "kill"}
    MaxInterrupts = 2
SPECIFICATION FairSpec
INVARIANTS TypeOK StoppedUnlessCut VerdictEarned AbortNeedsInterrupt TimerConfined
PROPERTIES RunEnds StopEndsProcess
CHECK_DEADLOCK FALSE
