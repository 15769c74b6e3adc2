\* Three threads: a login, a reset and a request beside each other, or three
\* parallel failures; two logins and one reset.
CONSTANTS
    Thread = {t1, t2, t3}
    Threshold = 2
    MaxSessions = 2
    MaxPasswords = 2
SYMMETRY Interchangeable
SPECIFICATION Spec
INVARIANTS
    FailuresCounted
    ResetClosesSessions
PROPERTIES
    NoLoginWhileLocked
    RevocationIsFinal
