CONSTANTS
    None = None
    Id = {n1, n2}
    Session = {s1, s2, s3}
SPECIFICATION Spec
SYMMETRY Interchangeable
INVARIANTS PruneIsPermanent
CHECK_DEADLOCK FALSE
