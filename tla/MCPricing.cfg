\* A submitted quote and a source of unit prices; halves of a unit, shares in
\* tenths: every rounding meets a half.
CONSTANTS
    Handler = {t1, t2}
    Submitted = {"supplier_quote", "sinapi_caixa"}
    Cents = {0, 3}
    Quantity = {3}
    Hours = {21}
    Share = {0, 5}
    Parts = 2
    Whole = 10
    MaxLines = 2
    MaxSnapshots = 1
    MaxMappings = 2
    MaxEstimates = 1
    MaxEvents = 2
SYMMETRY Interchangeable
SPECIFICATION PricingSpec
INVARIANTS
    PricesApproved
    Reconstructible
    LedgerBacked
PROPERTIES
    LateWritersOnly
