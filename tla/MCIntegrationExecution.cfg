\* Two threads, two bodies and three acquisitions of the lease: a duplicate in
\* flight, another body under the same key, a takeover and its late loser.
CONSTANTS
    Handler = {h1, h2}
    Body = {b1, b2}
    MaxAttempts = 3
    MaxContext = 2
    MaxVersion = 2
    SkewedClocks = FALSE
SPECIFICATION FairSpec
INVARIANTS
    OneStableAnswer
    CompletedIffVersion
    VersionsMatchCurrent
    OneLiveCaller
PROPERTIES
    ImplementsDraftOutcome
    OpenSettles
