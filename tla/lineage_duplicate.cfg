CONSTANTS
    StepRoot = StepRoot
    StepNext = StepNext
    None = None
    Id = {n1, n2, n3}
    Actor = {a1, a2}
    Content = {c1}
    WithNaN = {}
    Step <- MCSteps
    Rules <- MCRules
    Triggers <- MCTriggers
    ReuseIdentical = TRUE
    MaxParents = 2
SPECIFICATION CreateOnly
SYMMETRY Interchangeable
INVARIANTS NoDuplicates
CHECK_DEADLOCK FALSE
