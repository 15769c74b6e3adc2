\* Two threads, two keys, one code, two projects: duplicates of a creation in
\* flight, codes contended by creations and updates, overlapping writers.
CONSTANTS
    Thread = {t1, t2}
    Key = {k1, k2}
    Code = {c1}
    NoCode = NoCode
    MaxProjects = 2
    MaxChanges = 3
SYMMETRY Interchangeable
SPECIFICATION Spec
INVARIANTS
    OneProjectPerKey
    NoOrphanProject
    CodesUnique
