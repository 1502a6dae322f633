CONSTANTS
    None = None
    Id = {n1, n2}
    Session = {s1, s2, s3, s4}
SPECIFICATION Spec
SYMMETRY Interchangeable
CONSTRAINT CrowdOnOne
INVARIANTS TypeOK LiveBlockUntouched WorkKeptUnlessTorn
CHECK_DEADLOCK FALSE
