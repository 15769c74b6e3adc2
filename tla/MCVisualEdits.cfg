\* Two workers, two requests: two edits, a quota of one, an image to edit and
\* two more, uploaded or made.
CONSTANTS
    Thread = {t1, t2}
    Worker = {w1, w2}
    Quota = 1
    MaxImages = 3
    MaxJobs = 2
SYMMETRY Interchangeable
SPECIFICATION Spec
INVARIANTS
    PaidOnce
    StudiesAccounted
    QuotaKept
PROPERTIES
    VerdictIsFinal
