\* Two runs that start, stop or kill, and start again on the same ports.
CONSTANTS
    r1 = r1  r2 = r2  p1 = p1  p2 = p2  p3 = p3
    Run <- RunMC
    Port <- PortMC
    NoPort = NoPort
    Free = Free
    MaxStarts = 2
SYMMETRY Symmetry
SPECIFICATION Spec
INVARIANTS TypeOK MetItsOwn
CHECK_DEADLOCK FALSE
