\* Two addresses share the quota, an address is invited twice, and a request
\* may wait into the next hour.
CONSTANTS
    Thread = {t1, t2}
    Email = {e1, e2}
    Quota = 2
    MaxTokens = 2
    MaxHours = 2
SYMMETRY Interchangeable
SPECIFICATION Spec
INVARIANTS
    QuotaKept
    AcceptedHasAccount
PROPERTY OnlyPendingIsAccepted
