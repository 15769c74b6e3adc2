CONSTANTS
    Handler = {h1, h2}
    Body = {b1}
    MaxAttempts = 2
    MaxContext = 1
    MaxVersion = 1
    SkewedClocks = FALSE
SPECIFICATION Spec
INVARIANTS
    StaleOwnerPersistsNothing
