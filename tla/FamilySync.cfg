\* Two sessions of ptlab and one of companion-cli.mjs, all of which wait for
\* their commits, or any of which may leave early.
SPECIFICATION FairSpec
CONSTANTS
    a = a  b = b  c = c
    NoSession = NoSession
    Session <- SessionMC
    Wire <- WireMC
    Impatience <- AllOrNone
    Seeded <- SeededOne
    Ops <- EditOps
    Capacity = 3
INVARIANTS TypeOK ConfirmedSurvives ConfirmedIsLive DurableWhenTold AdoptsTheWatch
PROPERTIES MergesAtomically SessionsEnd
CHECK_DEADLOCK FALSE
