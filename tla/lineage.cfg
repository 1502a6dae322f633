CONSTANTS
    StepRoot = StepRoot
    StepNext = StepNext
    None = None
    Id = {n1, n2, n3, n4}
    Actor = {a1, a2}
    Content = {c1, nan}
    WithNaN = {nan}
    Step <- MCSteps
    Rules <- MCRules
    Triggers <- MCTriggers
    ReuseIdentical = TRUE
    MaxParents = 2
SPECIFICATION Spec
SYMMETRY Interchangeable
CONSTRAINT FourthAlone
INVARIANTS TypeOK EdgesObeyRules TwinsBounded
PROPERTIES NoWorkLost OrphanedOnlyByRace RefinesGraph
CHECK_DEADLOCK FALSE
