\* Two handlers: two messages that carry one file, or one that carries it while
\* it is deleted; two uploads that pass a limit of one together, and a third file.
CONSTANTS
    Handler = {h1, h2}
    Limit = 1
    MaxFiles = 3
    MaxMessages = 2
SYMMETRY Interchangeable
SPECIFICATION Spec
INVARIANTS
    FilesBacked
    UploadsBounded
    LinkNamesLast
