\* Session a leaves while its commit is pending; session c is companion-cli.mjs.
SPECIFICATION Spec
CONSTANTS
    a = a  b = b  c = c
    NoSession = NoSession
    Session <- Pair
    Wire <- OnlyA
    Impatience <- OnlyAMayLeave
    Seeded <- SeededTwo
    Ops <- PairOps
    Capacity = 3
INVARIANT AdoptsEachRecordOnce
CHECK_DEADLOCK FALSE
