\* Three handlers: one content uploaded by all of them at once, or two contents
\* and a document.
CONSTANTS
    Request = {h1, h2, h3}
    Content = {c1, c2}
    MaxKeys = 4
SYMMETRY Interchangeable
SPECIFICATION FilesSpec
\* The keys of the instance run out, and every handler is then at rest.
CHECK_DEADLOCK FALSE
INVARIANTS
    RowsBacked
    NeverHalf
    OneSourcePerContent
