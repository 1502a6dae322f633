CONSTANTS
    Thread = {t1, t2}
    Kid = kid
    Main = t1
    Parent = parent
    Child = child
    None = None
    Ghost = Ghost
    MaxDepth = 2
    MaxStatements = 2
    MaxCalls <- MCCalls
SPECIFICATION Spec
INVARIANTS TypeOK StrayOnlyIfInterrupted
PROPERTIES EndsTruthfully InheritedUntouched RefinesSerial
CHECK_DEADLOCK FALSE
