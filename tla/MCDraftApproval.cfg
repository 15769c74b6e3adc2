\* Two people on one draft: three versions, two requests, two fact keys.
CONSTANTS
    Thread = {t1, t2}
    FactKey = {k1, k2}
    MaxVersion = 3
    MaxRequests = 2
SYMMETRY Interchangeable
SPECIFICATION Spec
INVARIANTS
    OneApprovalPerVersion
    PromotionsOverlap
