\* Half-second ticks.  Three attempts with a backoff two ticks longer than the
\* margin pays for, the least lease accepted, and a request that gets on twice.
CONSTANTS
    Caller = {c1, c2}
    Unit = 2
    Timeout = 1
    Backoff = 21
    Attempts = 3
    Threshold = 2
    Cooldown = 3
    Lease = 64
    MaxPieces = 2
SPECIFICATION CallFairSpec
INVARIANTS
    OverrunBounded
    OpenAdmitsNone
PROPERTIES
    CircuitRecovers
