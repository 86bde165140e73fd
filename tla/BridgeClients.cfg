\* Two requests and a notification or an empty line on a connection; payloads
\* and lines at the limit and beyond it.
CONSTANTS
    MaxPayload = 1
    Sizes = {0, 1, 2}
    MaxLine = 2
    MaxRequests = 2
    MaxAsides = 1
SPECIFICATION FairSpec
INVARIANTS TypeOK MatchedUntilTrouble NeverShuffled NotesKept NothingWithheld
PROPERTIES ParsesTheStream EveryCallEnds
CHECK_DEADLOCK FALSE
